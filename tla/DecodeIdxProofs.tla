--------------------------- MODULE DecodeIdxProofs ----------------------------
(***************************************************************************)
(* Progressive decoding, for every codec, data and order of calls, and the   *)
(* algebra it rests on: the field, the sums of products, the elimination.    *)
(***************************************************************************)
EXTENDS DecodeIdx, SequenceTheorems, FiniteSetTheorems, WellFoundedInduction, TLAPS

(* ------------------------ numbers and recursions ------------------------- *)

\* A set of naturals that is not empty has a least element.
LEMMA LeastNat ==
  ASSUME NEW S, S \subseteq Nat, S # {}
  PROVE  \E m \in S : \A k \in S : m <= k
<1> DEFINE less == OpToRel(<, Nat)
<1>1. IsWellFoundedOn(less, Nat)
  BY NatLessThanWellFounded, Zenon
<1>2. \A j, k \in Nat : j < k => <<j, k>> \in less
  BY DEF OpToRel
<1> HIDE DEF less
<1>3. PICK m \in S : \A k \in S : <<k, m>> \notin less
  BY <1>1, WFMin
<1>4. m \in Nat /\ \A k \in S : k \in Nat
  OBVIOUS
<1>5. \A k \in S : ~(k < m)
  BY <1>2, <1>3, <1>4
<1> QED
  BY <1>4, <1>5

\* What holds of 0, and of k + 1 when it holds of k, holds up to n.
LEMMA UpTo ==
  ASSUME NEW n \in Nat, NEW S, 0 \in S,
         \A k \in 0 .. n - 1 : k \in S => k + 1 \in S
  PROVE  \A k \in 0 .. n : k \in S
<1> SUFFICES ASSUME (0 .. n) \ S # {}
             PROVE  FALSE
  OBVIOUS
<1>1. PICK m \in (0 .. n) \ S : \A k \in (0 .. n) \ S : m <= k
  <2>1. (0 .. n) \ S \subseteq Nat
    OBVIOUS
  <2> QED
    BY <2>1, LeastNat
<1>2. m \in 1 .. n
  BY <1>1
<1>3. m - 1 \in 0 .. n - 1 /\ (m - 1) + 1 = m
  BY <1>2
<1>4. m - 1 \in S
  BY <1>1, <1>3
<1> QED
  BY <1>1, <1>3, <1>4

\* f is the result of n steps of g from start.
IsRun(f, n, start, g) ==
  f = [i \in 0 .. n |-> IF i = 0 THEN start ELSE g[i][f[i - 1]]]

\* There is a run of any length, and it stays where its steps stay.
LEMMA RunExists ==
  ASSUME NEW n \in Nat, NEW S, NEW start \in S, NEW g \in [1 .. n -> [S -> S]]
  PROVE  \E f \in [0 .. n -> S] : IsRun(f, n, start, g)
<1> DEFINE good == {k \in 0 .. n : \E f \in [0 .. k -> S] : IsRun(f, k, start, g)}
<1>1. 0 \in good
  <2> DEFINE f == [i \in 0 .. 0 |-> start]
  <2>1. f \in [0 .. 0 -> S] /\ 0 \in 0 .. n
    OBVIOUS
  <2>2. f = [i \in 0 .. 0 |-> IF i = 0 THEN start ELSE g[i][f[i - 1]]]
    OBVIOUS
  <2> HIDE DEF f
  <2> QED
    BY <2>1, <2>2 DEF IsRun
<1>2. ASSUME NEW k \in 0 .. n - 1, k \in good
      PROVE  k + 1 \in good
  <2>1. PICK f \in [0 .. k -> S] : IsRun(f, k, start, g)
    BY <1>2
  <2> DEFINE h == [i \in 0 .. k + 1 |-> IF i = k + 1 THEN g[k + 1][f[k]] ELSE f[i]]
  <2>k. k \in 0 .. k /\ k + 1 \in 1 .. n /\ k + 1 \in 0 .. n
    OBVIOUS
  <2>t. \A i \in 0 .. k : f[i] \in S
    OBVIOUS
  <2>2. h \in [0 .. k + 1 -> S]
    <3>1. g[k + 1][f[k]] \in S
      BY <2>k, <2>t
    <3>2. \A i \in 0 .. k + 1 : i = k + 1 \/ i \in 0 .. k
      OBVIOUS
    <3> QED
      BY <2>t, <3>1, <3>2
  <2>3. ASSUME NEW i \in 0 .. k + 1
        PROVE  h[i] = IF i = 0 THEN start ELSE g[i][h[i - 1]]
    <3>1. CASE i = 0
      BY <2>1, <3>1 DEF IsRun
    <3>2. CASE i = k + 1
      <4>1. i - 1 = k /\ k \in 0 .. k + 1 /\ k # k + 1 /\ i # 0
        BY <3>2
      <4>2. h[k] = f[k] /\ h[i] = g[k + 1][f[k]]
        BY <3>2, <4>1
      <4> QED
        BY <3>2, <4>1, <4>2
    <3>3. CASE i \in 1 .. k
      <4>1. i - 1 \in 0 .. k + 1 /\ i - 1 # k + 1 /\ i # k + 1 /\ i # 0 /\ i \in 0 .. k
        BY <3>3
      <4>2. h[i] = f[i] /\ h[i - 1] = f[i - 1]
        BY <4>1
      <4>3. f[i] = g[i][f[i - 1]]
        BY <2>1, <4>1 DEF IsRun
      <4> QED
        BY <4>1, <4>2, <4>3
    <3> QED
      BY <3>1, <3>2, <3>3
  <2>4. h = [i \in 0 .. k + 1 |-> h[i]]
    OBVIOUS
  <2> HIDE DEF h
  <2>5. IsRun(h, k + 1, start, g)
    BY <2>3, <2>4 DEF IsRun
  <2> QED
    BY <2>2, <2>5, <2>k
<1> HIDE DEF good
<1>3. \A k \in 0 .. n : k \in good
  BY <1>1, <1>2, UpTo
<1>4. n \in good
  BY <1>3
<1> QED
  BY <1>4 DEF good

\* The first steps of a longer run are those of a shorter one.
LEMMA RunsAgree ==
  ASSUME NEW n \in Nat, NEW m \in Nat, n <= m, NEW start, NEW g, NEW f, NEW h,
         IsRun(f, n, start, g), IsRun(h, m, start, g)
  PROVE  \A i \in 0 .. n : f[i] = h[i]
<1> DEFINE good == {k \in 0 .. n : f[k] = h[k]}
<1>1. 0 \in good
  BY DEF IsRun
<1>2. ASSUME NEW k \in 0 .. n - 1, k \in good
      PROVE  k + 1 \in good
  <2>1. k + 1 \in 0 .. n /\ k + 1 \in 0 .. m /\ k + 1 # 0 /\ (k + 1) - 1 = k
    OBVIOUS
  <2>2. f[k + 1] = g[k + 1][f[k]] /\ h[k + 1] = g[k + 1][h[k]]
    BY <2>1 DEF IsRun
  <2> QED
    BY <1>2, <2>1, <2>2
<1> HIDE DEF good
<1>3. \A k \in 0 .. n : k \in good
  BY <1>1, <1>2, UpTo
<1> QED
  BY <1>3 DEF good

(* ------------------------------- the field ------------------------------- *)

LEMMA BytesAre == Byte = 0 .. 255
BY DEF Byte, FIELD_SIZE

LEMMA SmallBytes == 0 \in Byte /\ 1 \in Byte /\ 2 \in Byte /\ 0 # 1
BY BytesAre

LEMMA NibblesOf ==
  ASSUME NEW x \in Byte
  PROVE  /\ x \div 16 \in 0 .. 15 /\ x % 16 \in 0 .. 15
         /\ x = 16 * (x \div 16) + (x % 16)
BY BytesAre

LEMMA OfNibbles ==
  ASSUME NEW h \in 0 .. 15, NEW l \in 0 .. 15
  PROVE  /\ 16 * h + l \in Byte
         /\ (16 * h + l) \div 16 = h /\ (16 * h + l) % 16 = l
BY BytesAre

LEMMA NibblesOfASum ==
  ASSUME NEW x \in Byte, NEW y \in Byte
  PROVE  /\ add(x, y) \in Byte
         /\ add(x, y) \div 16 = NibbleXor[x \div 16][y \div 16]
         /\ add(x, y) % 16 = NibbleXor[x % 16][y % 16]
<1>1. /\ NibbleXor[x \div 16][y \div 16] \in 0 .. 15
      /\ NibbleXor[x % 16][y % 16] \in 0 .. 15
  BY NibblesOf, NibbleAssumption
<1>2. add(x, y) = 16 * NibbleXor[x \div 16][y \div 16] + NibbleXor[x % 16][y % 16]
  BY DEF add, ByteXor
<1> QED
  BY <1>1, <1>2, OfNibbles

LEMMA SameNibbles ==
  ASSUME NEW x \in Byte, NEW y \in Byte, x \div 16 = y \div 16, x % 16 = y % 16
  PROVE  x = y
BY NibblesOf

LEMMA NibbleSums ==
  \A p \in 0 .. 15 : NibbleXor[p][0] = p /\ NibbleXor[p][p] = 0
BY NibbleAssumption

\* Sums of bytes are a commutative group, in which each is its own inverse.
LEMMA Sums ==
  ASSUME NEW x \in Byte, NEW y \in Byte
  PROVE  /\ add(x, y) \in Byte
         /\ add(x, y) = add(y, x)
         /\ add(x, 0) = x /\ add(0, x) = x
         /\ add(x, x) = 0
<1>z. 0 \in Byte /\ 0 \div 16 = 0 /\ 0 % 16 = 0
  BY BytesAre
<1>1. add(x, y) \in Byte
  BY NibblesOfASum
<1>2. add(x, y) = add(y, x)
  BY NibblesOf, NibbleAssumption DEF add, ByteXor
<1>3. add(x, 0) = x
  <2>1. /\ add(x, 0) \div 16 = NibbleXor[x \div 16][0] /\ add(x, 0) % 16 = NibbleXor[x % 16][0]
        /\ add(x, 0) \in Byte
    BY <1>z, NibblesOfASum
  <2>2. NibbleXor[x \div 16][0] = x \div 16 /\ NibbleXor[x % 16][0] = x % 16
    <3>1. x \div 16 \in 0 .. 15 /\ x % 16 \in 0 .. 15
      BY NibblesOf
    <3> QED
      BY ONLY <3>1, NibbleSums
  <2> QED
    BY <2>1, <2>2, SameNibbles
<1>4. add(0, x) = add(x, 0)
  BY <1>z, NibblesOf, NibbleAssumption DEF add, ByteXor
<1>5. add(x, x) = 0
  <2>1. NibbleXor[x \div 16][x \div 16] = 0 /\ NibbleXor[x % 16][x % 16] = 0
    <3>1. x \div 16 \in 0 .. 15 /\ x % 16 \in 0 .. 15
      BY NibblesOf
    <3> QED
      BY ONLY <3>1, NibbleSums
  <2> QED
    BY <2>1 DEF add, ByteXor
<1> QED
  BY <1>1, <1>2, <1>3, <1>4, <1>5

LEMMA NibblesAssociate ==
  \A p, q, r \in 0 .. 15 : NibbleXor[NibbleXor[p][q]][r] = NibbleXor[p][NibbleXor[q][r]]
BY NibbleAssumption

LEMMA SumsAssociate ==
  ASSUME NEW x \in Byte, NEW y \in Byte, NEW z \in Byte
  PROVE  add(add(x, y), z) = add(x, add(y, z))
<1>1. add(x, y) \in Byte /\ add(y, z) \in Byte
  BY Sums
<1>2. add(add(x, y), z) \in Byte /\ add(x, add(y, z)) \in Byte
  BY <1>1, Sums
<1>3. /\ add(add(x, y), z) \div 16 = NibbleXor[NibbleXor[x \div 16][y \div 16]][z \div 16]
      /\ add(add(x, y), z) % 16 = NibbleXor[NibbleXor[x % 16][y % 16]][z % 16]
  BY <1>1, NibblesOfASum
<1>4. /\ add(x, add(y, z)) \div 16 = NibbleXor[x \div 16][NibbleXor[y \div 16][z \div 16]]
      /\ add(x, add(y, z)) % 16 = NibbleXor[x % 16][NibbleXor[y % 16][z % 16]]
  BY <1>1, NibblesOfASum
<1> DEFINE xh == x \div 16
           yh == y \div 16
           zh == z \div 16
           xl == x % 16
           yl == y % 16
           zl == z % 16
<1>5. xh \in 0 .. 15 /\ yh \in 0 .. 15 /\ zh \in 0 .. 15
  BY NibblesOf
<1>l. xl \in 0 .. 15 /\ yl \in 0 .. 15 /\ zl \in 0 .. 15
  BY NibblesOf
<1>6. NibbleXor[NibbleXor[xh][yh]][zh] = NibbleXor[xh][NibbleXor[yh][zh]]
  <2> HIDE DEF xh, yh, zh
  <2> QED
    BY ONLY <1>5, NibblesAssociate, Zenon
<1>7. NibbleXor[NibbleXor[xl][yl]][zl] = NibbleXor[xl][NibbleXor[yl][zl]]
  <2> HIDE DEF xl, yl, zl
  <2> QED
    BY ONLY <1>l, NibblesAssociate, Zenon
<1> QED
  BY <1>2, <1>3, <1>4, <1>6, <1>7, SameNibbles

LEMMA SumsExchange ==
  ASSUME NEW x \in Byte, NEW y \in Byte, NEW z \in Byte, NEW w \in Byte
  PROVE  add(add(x, y), add(z, w)) = add(add(x, z), add(y, w))
<1>1. add(x, y) \in Byte /\ add(z, w) \in Byte /\ add(x, z) \in Byte /\ add(y, w) \in Byte
  BY Sums
<1>2. add(add(x, y), add(z, w)) = add(x, add(y, add(z, w)))
  BY <1>1, SumsAssociate
<1>3. add(y, add(z, w)) = add(z, add(y, w))
  <2>1. add(y, add(z, w)) = add(add(y, z), w) /\ add(z, add(y, w)) = add(add(z, y), w)
    BY SumsAssociate
  <2>2. add(y, z) = add(z, y)
    BY Sums
  <2> QED
    BY <2>1, <2>2
<1>4. add(add(x, z), add(y, w)) = add(x, add(z, add(y, w)))
  BY <1>1, SumsAssociate
<1> QED
  BY <1>2, <1>3, <1>4

\* What is left of a sum when one of its parts is added once more.
LEMMA SumsCancel ==
  ASSUME NEW x \in Byte, NEW y \in Byte
  PROVE  /\ add(add(x, y), y) = x
         /\ add(x, y) = 0 => x = y
<1>1. add(add(x, y), y) = add(x, add(y, y))
  BY SumsAssociate
<1>2. add(y, y) = 0 /\ add(x, 0) = x /\ add(0, y) = y
  BY Sums
<1> QED
  BY <1>1, <1>2

NonZero == Byte \ {0}

LEMMA ProductsAre ==
  ASSUME NEW x \in Byte, NEW y \in Byte
  PROVE  mul(x, y) = IF x = 0 \/ y = 0 THEN 0 ELSE EXP_TABLE[LOG_TABLE[x] + LOG_TABLE[y]]
BY DEF mul, MUL_TABLE, Multiply

LEMMA Logarithms ==
  ASSUME NEW x \in NonZero
  PROVE  LOG_TABLE[x] \in 0 .. 254 /\ EXP_TABLE[LOG_TABLE[x]] = x
BY TablesAssumption DEF NonZero

\* Powers repeat after 255 of them.
LEMMA PowersOf ==
  ASSUME NEW e \in 0 .. 508
  PROVE  /\ e % 255 \in 0 .. 254
         /\ EXP_TABLE[e] = EXP_TABLE[e % 255]
         /\ EXP_TABLE[e] \in NonZero
         /\ LOG_TABLE[EXP_TABLE[e]] = e % 255
<1>1. e % 255 \in 0 .. 254 /\ (e % 255) % 255 = e % 255
  OBVIOUS
<1>2. EXP_TABLE[e] = Powers[e % 255] /\ EXP_TABLE[e % 255] = Powers[(e % 255) % 255]
  BY <1>1 DEF EXP_TABLE, FIELD_SIZE
<1>3. EXP_TABLE[e % 255] \in NonZero /\ LOG_TABLE[EXP_TABLE[e % 255]] = e % 255
  BY <1>1, TablesAssumption DEF NonZero
<1> QED
  BY <1>1, <1>2, <1>3

LEMMA NonZeroProducts ==
  ASSUME NEW x \in NonZero, NEW y \in NonZero
  PROVE  /\ mul(x, y) \in NonZero
         /\ mul(x, y) = EXP_TABLE[LOG_TABLE[x] + LOG_TABLE[y]]
         /\ LOG_TABLE[mul(x, y)] = (LOG_TABLE[x] + LOG_TABLE[y]) % 255
<1>1. LOG_TABLE[x] + LOG_TABLE[y] \in 0 .. 508
  <2>1. PICK i \in 0 .. 254, j \in 0 .. 254 : i = LOG_TABLE[x] /\ j = LOG_TABLE[y]
    BY Logarithms
  <2>2. i + j \in 0 .. 508
    OBVIOUS
  <2> QED
    BY ONLY <2>1, <2>2
<1>2. mul(x, y) = EXP_TABLE[LOG_TABLE[x] + LOG_TABLE[y]]
  BY ProductsAre DEF NonZero
<1> DEFINE e == LOG_TABLE[x] + LOG_TABLE[y]
<1> HIDE DEF e
<1>3. e \in 0 .. 508
  BY <1>1 DEF e
<1>4. EXP_TABLE[e] \in NonZero
  BY ONLY <1>3, PowersOf
<1>5. LOG_TABLE[EXP_TABLE[e]] = e % 255
  BY ONLY <1>3, PowersOf
<1> QED
  BY <1>2, <1>4, <1>5 DEF e

\* Elements with the same logarithm are the same.
LEMMA SameLogarithm ==
  ASSUME NEW x \in NonZero, NEW y \in NonZero, LOG_TABLE[x] = LOG_TABLE[y]
  PROVE  x = y
BY Logarithms

\* Products are commutative and have a zero and a one.
LEMMA Products ==
  ASSUME NEW x \in Byte, NEW y \in Byte
  PROVE  /\ mul(x, y) \in Byte
         /\ mul(x, y) = mul(y, x)
         /\ mul(0, x) = 0 /\ mul(x, 0) = 0
         /\ mul(1, x) = x /\ mul(x, 1) = x
         /\ mul(x, y) = 0 => x = 0 \/ y = 0
<1>z. 0 \in Byte /\ 1 \in Byte /\ 1 # 0
  BY BytesAre
<1>1. mul(0, x) = 0 /\ mul(x, 0) = 0 /\ mul(0, y) = 0 /\ mul(y, 0) = 0 /\ mul(1, 0) = 0 /\ mul(0, 1) = 0
  BY <1>z, ProductsAre
<1>2. mul(x, y) \in Byte /\ (mul(x, y) = 0 => x = 0 \/ y = 0)
  BY <1>1, <1>z, NonZeroProducts DEF NonZero
<1>3. mul(x, y) = mul(y, x)
  <2>1. CASE x = 0 \/ y = 0
    BY <1>1, <2>1
  <2>2. CASE x # 0 /\ y # 0
    <3>1. PICK i \in 0 .. 254, j \in 0 .. 254 : i = LOG_TABLE[x] /\ j = LOG_TABLE[y]
      BY <2>2, Logarithms DEF NonZero
    <3>2. LOG_TABLE[x] + LOG_TABLE[y] = LOG_TABLE[y] + LOG_TABLE[x]
      <4>1. i + j = j + i
        OBVIOUS
      <4> QED
        BY ONLY <3>1, <4>1
    <3> QED
      BY <2>2, <3>2, ProductsAre
  <2> QED
    BY <2>1, <2>2
<1>4. mul(1, x) = x /\ mul(x, 1) = x
  <2>1. CASE x = 0
    BY <1>1, <2>1
  <2>2. CASE x # 0
    <3>1. LOG_TABLE[1] = 0 /\ LOG_TABLE[x] \in 0 .. 254 /\ EXP_TABLE[LOG_TABLE[x]] = x
      BY <2>2, Logarithms, TablesAssumption DEF NonZero
    <3>2. LOG_TABLE[1] + LOG_TABLE[x] = LOG_TABLE[x] /\ LOG_TABLE[x] + LOG_TABLE[1] = LOG_TABLE[x]
      BY <3>1
    <3>3. /\ mul(1, x) = EXP_TABLE[LOG_TABLE[1] + LOG_TABLE[x]]
          /\ mul(x, 1) = EXP_TABLE[LOG_TABLE[x] + LOG_TABLE[1]]
      BY <1>z, <2>2, ProductsAre
    <3> QED
      BY <3>1, <3>2, <3>3
  <2> QED
    BY <2>1, <2>2
<1> QED
  BY <1>1, <1>2, <1>3, <1>4

LEMMA ProductsAssociate ==
  ASSUME NEW x \in Byte, NEW y \in Byte, NEW z \in Byte
  PROVE  mul(mul(x, y), z) = mul(x, mul(y, z))
<1>1. CASE x = 0 \/ y = 0 \/ z = 0
  <2>1. mul(x, y) \in Byte /\ mul(y, z) \in Byte
    BY Products
  <2>2. /\ x = 0 => mul(x, y) = 0 /\ mul(x, mul(y, z)) = 0
        /\ y = 0 => mul(x, y) = 0 /\ mul(y, z) = 0
        /\ z = 0 => mul(y, z) = 0 /\ mul(mul(x, y), z) = 0
    BY <2>1, Products
  <2>3. mul(0, z) = 0 /\ mul(x, 0) = 0
    BY Products
  <2> QED
    BY <1>1, <2>2, <2>3
<1>2. CASE x # 0 /\ y # 0 /\ z # 0
  <2> DEFINE lx == LOG_TABLE[x]
             ly == LOG_TABLE[y]
             lz == LOG_TABLE[z]
  <2>1. x \in NonZero /\ y \in NonZero /\ z \in NonZero
    BY <1>2 DEF NonZero
  <2>2. lx \in 0 .. 254 /\ ly \in 0 .. 254 /\ lz \in 0 .. 254
    BY <2>1, Logarithms
  <2>3. mul(x, y) \in NonZero /\ mul(y, z) \in NonZero
    BY <2>1, NonZeroProducts
  <2>4. mul(mul(x, y), z) \in NonZero /\ mul(x, mul(y, z)) \in NonZero
    BY <2>1, <2>3, NonZeroProducts
  <2>5. /\ LOG_TABLE[mul(mul(x, y), z)] = (((lx + ly) % 255) + lz) % 255
        /\ LOG_TABLE[mul(x, mul(y, z))] = (lx + ((ly + lz) % 255)) % 255
    <3>1. LOG_TABLE[mul(x, y)] = (lx + ly) % 255 /\ LOG_TABLE[mul(y, z)] = (ly + lz) % 255
      BY <2>1, NonZeroProducts
    <3>2. /\ LOG_TABLE[mul(mul(x, y), z)] = (LOG_TABLE[mul(x, y)] + lz) % 255
          /\ LOG_TABLE[mul(x, mul(y, z))] = (lx + LOG_TABLE[mul(y, z)]) % 255
      BY <2>1, <2>3, NonZeroProducts
    <3> HIDE DEF lx, ly, lz
    <3> QED
      BY ONLY <3>1, <3>2
  <2> HIDE DEF lx, ly, lz
  <2>6. (((lx + ly) % 255) + lz) % 255 = (lx + ((ly + lz) % 255)) % 255
    BY ONLY <2>2
  <2> QED
    BY <2>4, <2>5, <2>6, SameLogarithm
<1> QED
  BY <1>1, <1>2

\* Doubling distributes over sums, and so does every power of two.
LEMMA PowersDistribute ==
  ASSUME NEW x \in Byte, NEW y \in Byte
  PROVE  \A e \in 0 .. 254 :
           mul(EXP_TABLE[e], add(x, y)) = add(mul(EXP_TABLE[e], x), mul(EXP_TABLE[e], y))
<1> DEFINE good == {e \in 0 .. 254 :
                      mul(EXP_TABLE[e], add(x, y)) = add(mul(EXP_TABLE[e], x), mul(EXP_TABLE[e], y))}
<1>b. add(x, y) \in Byte /\ 1 \in NonZero /\ 2 \in NonZero /\ NonZero \subseteq Byte
  BY Sums, SmallBytes DEF NonZero
<1>1. 0 \in good
  <2>1. EXP_TABLE[0] = 1
    BY <1>b, Logarithms, TablesAssumption
  <2>2. mul(1, add(x, y)) = add(x, y) /\ mul(1, x) = x /\ mul(1, y) = y
    BY <1>b, Products
  <2> QED
    BY <2>1, <2>2
<1>2. ASSUME NEW e \in 0 .. 254 - 1, e \in good
      PROVE  e + 1 \in good
  <2>1. EXP_TABLE[e] \in NonZero /\ LOG_TABLE[EXP_TABLE[e]] = e
    <3>1. e \in 0 .. 254
      OBVIOUS
    <3> QED
      BY <3>1, TablesAssumption DEF NonZero
  <2>2. EXP_TABLE[e + 1] = mul(2, EXP_TABLE[e])
    <3>1. mul(2, EXP_TABLE[e]) = EXP_TABLE[LOG_TABLE[2] + LOG_TABLE[EXP_TABLE[e]]]
      <4> DEFINE power == EXP_TABLE[e]
      <4>1. power \in NonZero
        BY <2>1
      <4> HIDE DEF power
      <4>2. mul(2, power) = EXP_TABLE[LOG_TABLE[2] + LOG_TABLE[power]]
        BY <1>b, <4>1, NonZeroProducts
      <4> QED
        BY <4>2 DEF power
    <3>2. LOG_TABLE[2] = 1 /\ 1 + e = e + 1
      BY TablesAssumption
    <3> QED
      BY <2>1, <3>1, <3>2
  <2> DEFINE g == EXP_TABLE[e]
  <2>3. g \in Byte /\ 2 \in Byte
    BY <1>b, <2>1
  <2>4. mul(g, add(x, y)) = add(mul(g, x), mul(g, y))
    BY <1>2
  <2> HIDE DEF g
  <2>5. mul(g, x) \in Byte /\ mul(g, y) \in Byte
    BY <2>3, Products
  <2>6. mul(mul(2, g), add(x, y)) = mul(2, mul(g, add(x, y)))
    BY <1>b, <2>3, ProductsAssociate
  <2>7. mul(2, add(mul(g, x), mul(g, y))) = add(mul(2, mul(g, x)), mul(2, mul(g, y)))
    BY <2>5, TablesAssumption
  <2>8. mul(2, mul(g, x)) = mul(mul(2, g), x) /\ mul(2, mul(g, y)) = mul(mul(2, g), y)
    BY <2>3, ProductsAssociate
  <2>9. mul(mul(2, g), add(x, y)) = add(mul(mul(2, g), x), mul(mul(2, g), y))
    BY <2>4, <2>6, <2>7, <2>8
  <2> QED
    BY <2>2, <2>9 DEF g
<1> HIDE DEF good
<1>3. \A e \in 0 .. 254 : e \in good
  BY <1>1, <1>2, UpTo
<1> QED
  BY <1>3 DEF good

LEMMA Distributes ==
  ASSUME NEW x \in Byte, NEW y \in Byte, NEW z \in Byte
  PROVE  /\ mul(z, add(x, y)) = add(mul(z, x), mul(z, y))
         /\ mul(add(x, y), z) = add(mul(x, z), mul(y, z))
<1>1. mul(z, add(x, y)) = add(mul(z, x), mul(z, y))
  <2>1. CASE z = 0
    <3>1. add(x, y) \in Byte /\ 0 \in Byte
      BY Sums, SmallBytes
    <3>2. mul(0, add(x, y)) = 0 /\ mul(0, x) = 0 /\ mul(0, y) = 0 /\ add(0, 0) = 0
      BY <3>1, Sums, Products
    <3> QED
      BY <2>1, <3>2
  <2>2. CASE z # 0
    <3>1. LOG_TABLE[z] \in 0 .. 254 /\ EXP_TABLE[LOG_TABLE[z]] = z
      BY <2>2, Logarithms DEF NonZero
    <3> QED
      BY <3>1, PowersDistribute
  <2> QED
    BY <2>1, <2>2
<1>2. /\ mul(add(x, y), z) = mul(z, add(x, y))
      /\ mul(z, x) = mul(x, z) /\ mul(z, y) = mul(y, z)
  BY Sums, Products
<1> QED
  BY <1>1, <1>2

\* A quotient by something other than zero is one.
LEMMA Quotients ==
  ASSUME NEW x \in Byte, NEW y \in Byte
  PROVE  /\ div(x, y) \in Byte
         /\ y # 0 => mul(div(x, y), y) = x
<1>z. 0 \in Byte
  BY BytesAre
<1>1. CASE x = 0 \/ y = 0
  <2>1. div(x, y) = 0
    BY <1>1 DEF div
  <2>2. mul(0, y) = 0
    BY Products
  <2> QED
    BY <1>1, <1>z, <2>1, <2>2
<1>2. CASE x # 0 /\ y # 0
  <2>1. x \in NonZero /\ y \in NonZero
    BY <1>2 DEF NonZero
  <2>2. PICK i \in 0 .. 254, j \in 0 .. 254 : i = LOG_TABLE[x] /\ j = LOG_TABLE[y]
    BY <2>1, Logarithms
  <2> DEFINE k == IF i - j < 0 THEN i - j + 255 ELSE i - j
  <2>3. k \in 0 .. 254 /\ (k + j) % 255 = i
    OBVIOUS
  <2>4. div(x, y) = EXP_TABLE[k]
    BY <1>2, <2>2 DEF div
  <2> HIDE DEF k
  <2>5. EXP_TABLE[k] \in NonZero /\ LOG_TABLE[EXP_TABLE[k]] = k
    BY <2>3, TablesAssumption DEF NonZero
  <2>6. mul(EXP_TABLE[k], y) \in NonZero /\ LOG_TABLE[mul(EXP_TABLE[k], y)] = (k + j) % 255
    BY <2>1, <2>2, <2>5, NonZeroProducts
  <2>7. mul(EXP_TABLE[k], y) = x
    BY <2>1, <2>2, <2>3, <2>6, SameLogarithm
  <2> QED
    BY <2>4, <2>5, <2>7 DEF NonZero
<1> QED
  BY <1>1, <1>2

\* The inverse of an element.
LEMMA Inverses ==
  ASSUME NEW x \in Byte, x # 0
  PROVE  /\ div(1, x) \in Byte /\ div(1, x) # 0
         /\ mul(div(1, x), x) = 1 /\ mul(x, div(1, x)) = 1
<1>1. 1 \in Byte /\ 0 # 1
  BY BytesAre
<1>2. div(1, x) \in Byte /\ mul(div(1, x), x) = 1
  BY <1>1, Quotients
<1>3. mul(x, div(1, x)) = mul(div(1, x), x) /\ mul(0, x) = 0
  BY <1>2, Products
<1> QED
  BY <1>1, <1>2, <1>3

(* ---------------------------- sums of products --------------------------- *)

IsVector(n, a) == \A k \in 0 .. n - 1 : a[k] \in Byte

\* What starts in a set and never leaves it in a step is always in it.
LEMMA Stays ==
  ASSUME NEW n \in Nat, NEW S, NEW f, f[0] \in S,
         \A k \in 0 .. n - 1 : f[k] \in S => f[k + 1] \in S
  PROVE  \A k \in 0 .. n : f[k] \in S
<1> DEFINE good == {k \in 0 .. n : f[k] \in S}
<1>1. 0 \in good
  OBVIOUS
<1>2. ASSUME NEW k \in 0 .. n - 1, k \in good
      PROVE  k + 1 \in good
  <2>1. k + 1 \in 0 .. n
    OBVIOUS
  <2> QED
    BY <1>2, <2>1
<1> HIDE DEF good
<1>3. \A k \in 0 .. n : k \in good
  BY <1>1, <1>2, UpTo
<1> QED
  BY <1>3 DEF good

\* The sums of which Dot is the last.
PartialDots(n, a, b) ==
  CHOOSE sum : sum = [i \in 0 .. n |-> IF i = 0 THEN 0 ELSE add(sum[i - 1], mul(a[i - 1], b[i - 1]))]

LEMMA DotIsTheLast ==
  ASSUME NEW n, NEW a, NEW b
  PROVE  Dot(n, a, b) = PartialDots(n, a, b)[n]
BY DEF Dot, PartialDots

LEMMA PartialDotsExist ==
  ASSUME NEW n \in Nat, NEW a, NEW b, IsVector(n, a), IsVector(n, b)
  PROVE  LET sum == PartialDots(n, a, b)
         IN /\ sum[0] = 0
            /\ \A k \in 0 .. n - 1 : sum[k + 1] = add(sum[k], mul(a[k], b[k]))
            /\ \A k \in 0 .. n : sum[k] \in Byte
<1> DEFINE g == [i \in 1 .. n |-> [x \in Byte |-> add(x, mul(a[i - 1], b[i - 1]))]]
           sum == PartialDots(n, a, b)
<1>p. \A k \in 0 .. n - 1 : mul(a[k], b[k]) \in Byte
  BY Products DEF IsVector
<1>1. g \in [1 .. n -> [Byte -> Byte]]
  <2>1. ASSUME NEW i \in 1 .. n, NEW x \in Byte
        PROVE  add(x, mul(a[i - 1], b[i - 1])) \in Byte
    <3>1. i - 1 \in 0 .. n - 1
      OBVIOUS
    <3> QED
      BY <1>p, <3>1, Sums
  <2> QED
    BY <2>1
<1>2. PICK f \in [0 .. n -> Byte] : IsRun(f, n, 0, g)
  <2> HIDE DEF g
  <2> QED
    BY <1>1, SmallBytes, RunExists
<1>3. f = [i \in 0 .. n |-> IF i = 0 THEN 0 ELSE add(f[i - 1], mul(a[i - 1], b[i - 1]))]
  <2>1. ASSUME NEW i \in 0 .. n, i # 0
        PROVE  g[i][f[i - 1]] = add(f[i - 1], mul(a[i - 1], b[i - 1]))
    <3>1. i \in 1 .. n /\ i - 1 \in 0 .. n
      BY <2>1
    <3> QED
      BY <3>1
  <2> HIDE DEF g
  <2> QED
    BY <1>2, <2>1 DEF IsRun
<1>4. sum = [i \in 0 .. n |-> IF i = 0 THEN 0 ELSE add(sum[i - 1], mul(a[i - 1], b[i - 1]))]
  BY <1>3 DEF PartialDots
<1> HIDE DEF g, sum
<1>5. sum[0] = 0
  BY <1>4
<1>6. ASSUME NEW k \in 0 .. n - 1
      PROVE  sum[k + 1] = add(sum[k], mul(a[k], b[k]))
  <2>1. k + 1 \in 0 .. n /\ k + 1 # 0 /\ (k + 1) - 1 = k
    OBVIOUS
  <2> QED
    BY <1>4, <2>1
<1>7. \A k \in 0 .. n - 1 : sum[k] \in Byte => sum[k + 1] \in Byte
  BY <1>6, <1>p, Sums
<1>8. \A k \in 0 .. n : sum[k] \in Byte
  BY <1>5, <1>7, SmallBytes, Stays
<1> QED
  BY <1>5, <1>6, <1>8 DEF sum

\* The sums of the first products, one more at a time.
LEMMA DotSteps ==
  ASSUME NEW n \in Nat, NEW a, NEW b, IsVector(n, a), IsVector(n, b)
  PROVE  /\ Dot(0, a, b) = 0
         /\ \A k \in 0 .. n - 1 : Dot(k + 1, a, b) = add(Dot(k, a, b), mul(a[k], b[k]))
         /\ \A k \in 0 .. n : Dot(k, a, b) \in Byte
<1> DEFINE sum == PartialDots(n, a, b)
<1>1. /\ sum[0] = 0
      /\ \A k \in 0 .. n - 1 : sum[k + 1] = add(sum[k], mul(a[k], b[k]))
      /\ \A k \in 0 .. n : sum[k] \in Byte
  BY PartialDotsExist
<1>2. ASSUME NEW m \in 0 .. n
      PROVE  Dot(m, a, b) = sum[m]
  <2> DEFINE part == PartialDots(m, a, b)
             good == {k \in 0 .. m : part[k] = sum[k]}
  <2>1. m \in Nat /\ IsVector(m, a) /\ IsVector(m, b)
    BY DEF IsVector
  <2>2. /\ part[0] = 0
        /\ \A k \in 0 .. m - 1 : part[k + 1] = add(part[k], mul(a[k], b[k]))
    BY <2>1, PartialDotsExist
  <2> HIDE DEF part, sum
  <2>3. 0 \in good
    BY <1>1, <2>1, <2>2
  <2>4. ASSUME NEW k \in 0 .. m - 1, k \in good
        PROVE  k + 1 \in good
    <3>1. k \in 0 .. n - 1 /\ k + 1 \in 0 .. m
      BY <2>1
    <3> QED
      BY <1>1, <2>2, <2>4, <3>1
  <2> HIDE DEF good
  <2>5. \A k \in 0 .. m : k \in good
    BY <2>1, <2>3, <2>4, UpTo
  <2>6. m \in good
    BY <2>1, <2>5
  <2>7. part[m] = sum[m]
    BY <2>6 DEF good
  <2> QED
    BY <2>7, DotIsTheLast DEF part
<1> HIDE DEF sum
<1>3. \A k \in 0 .. n - 1 : k \in 0 .. n /\ k + 1 \in 0 .. n
  OBVIOUS
<1>4. 0 \in 0 .. n
  OBVIOUS
<1> QED
  BY <1>1, <1>2, <1>3, <1>4

LEMMA DotNext ==
  ASSUME NEW n \in Nat, NEW a, NEW b, IsVector(n, a), IsVector(n, b), NEW k \in 0 .. n - 1
  PROVE  Dot(k + 1, a, b) = add(Dot(k, a, b), mul(a[k], b[k]))
BY DotSteps

\* A sum depends on the elements that it is of.
LEMMA DotSame ==
  ASSUME NEW n \in Nat, NEW a, NEW b, IsVector(n, a), IsVector(n, b), NEW u, NEW v,
         \A k \in 0 .. n - 1 : u[k] = a[k] /\ v[k] = b[k]
  PROVE  Dot(n, u, v) = Dot(n, a, b)
<1> DEFINE good == {k \in 0 .. n : Dot(k, u, v) = Dot(k, a, b)}
<1>1. IsVector(n, u) /\ IsVector(n, v)
  BY DEF IsVector
<1>2. 0 \in good
  BY <1>1, DotSteps
<1>3. ASSUME NEW k \in 0 .. n - 1, k \in good
      PROVE  k + 1 \in good
  <2>1. k + 1 \in 0 .. n
    OBVIOUS
  <2>2. Dot(k + 1, u, v) = add(Dot(k, u, v), mul(u[k], v[k]))
    BY <1>1, DotNext
  <2>3. Dot(k + 1, a, b) = add(Dot(k, a, b), mul(a[k], b[k]))
    BY DotNext
  <2> QED
    BY <1>3, <2>1, <2>2, <2>3
<1> HIDE DEF good
<1>4. \A k \in 0 .. n : k \in good
  BY <1>2, <1>3, UpTo
<1> QED
  BY <1>4 DEF good

\* A sum in which one product alone is other than zero.
LEMMA DotPick ==
  ASSUME NEW n \in Nat, NEW a, NEW b, IsVector(n, a), IsVector(n, b), NEW i \in 0 .. n - 1,
         \A k \in 0 .. n - 1 : k # i => mul(a[k], b[k]) = 0
  PROVE  Dot(n, a, b) = mul(a[i], b[i])
<1> DEFINE good == {k \in 0 .. n : Dot(k, a, b) = IF k <= i THEN 0 ELSE mul(a[i], b[i])}
<1>1. 0 \in good
  BY DotSteps
<1>2. ASSUME NEW k \in 0 .. n - 1, k \in good
      PROVE  k + 1 \in good
  <2>1. k + 1 \in 0 .. n /\ k \in 0 .. n
    OBVIOUS
  <2>2. Dot(k + 1, a, b) = add(Dot(k, a, b), mul(a[k], b[k]))
    BY DotNext
  <2>3. mul(a[i], b[i]) \in Byte
    BY Products DEF IsVector
  <2>4. CASE k < i
    <3>1. k + 1 <= i /\ k <= i /\ k # i
      BY <2>4
    <3>2. Dot(k + 1, a, b) = add(0, 0)
      BY <1>2, <2>2, <3>1
    <3> QED
      BY <2>1, <3>1, <3>2, SmallBytes, Sums
  <2>5. CASE k = i
    <3>1. ~(k + 1 <= i) /\ k <= i
      BY <2>5
    <3>2. Dot(k + 1, a, b) = add(0, mul(a[i], b[i]))
      BY <1>2, <2>2, <2>5, <3>1
    <3> QED
      BY <2>1, <2>3, <3>1, <3>2, Sums
  <2>6. CASE k > i
    <3>1. ~(k + 1 <= i) /\ ~(k <= i) /\ k # i
      BY <2>6
    <3>2. Dot(k + 1, a, b) = add(mul(a[i], b[i]), 0)
      BY <1>2, <2>2, <3>1
    <3> QED
      BY <2>1, <2>3, <3>1, <3>2, Sums
  <2> QED
    BY <2>4, <2>5, <2>6
<1> HIDE DEF good
<1>3. n \in 0 .. n /\ \A k \in 0 .. n : k \in good
  BY <1>1, <1>2, UpTo
<1>4. ~(n <= i)
  OBVIOUS
<1> QED
  BY <1>3, <1>4 DEF good

\* A sum of zeros.
LEMMA DotOfZeros ==
  ASSUME NEW n \in Nat, NEW a, NEW b, IsVector(n, a), IsVector(n, b),
         \A k \in 0 .. n - 1 : mul(a[k], b[k]) = 0
  PROVE  Dot(n, a, b) = 0
<1>1. CASE n = 0
  BY <1>1, DotSteps
<1>2. CASE n # 0
  <2>1. 0 \in 0 .. n - 1
    BY <1>2
  <2> QED
    BY <2>1, DotPick
<1> QED
  BY <1>1, <1>2

\* The sum of the products with a sum of vectors.
LEMMA DotOfASum ==
  ASSUME NEW n \in Nat, NEW a, NEW b, NEW v, NEW w,
         IsVector(n, a), IsVector(n, b), IsVector(n, v),
         \A k \in 0 .. n - 1 : w[k] = add(a[k], b[k])
  PROVE  Dot(n, w, v) = add(Dot(n, a, v), Dot(n, b, v))
<1> DEFINE good == {k \in 0 .. n : Dot(k, w, v) = add(Dot(k, a, v), Dot(k, b, v))}
<1>1. IsVector(n, w)
  BY Sums DEF IsVector
<1>2. 0 \in good
  <2>1. Dot(0, w, v) = 0 /\ Dot(0, a, v) = 0 /\ Dot(0, b, v) = 0
    BY <1>1, DotSteps
  <2>2. add(0, 0) = 0
    BY SmallBytes, Sums
  <2> QED
    BY <2>1, <2>2
<1>3. ASSUME NEW k \in 0 .. n - 1, k \in good
      PROVE  k + 1 \in good
  <2>1. k + 1 \in 0 .. n /\ k \in 0 .. n
    OBVIOUS
  <2>2. /\ Dot(k + 1, w, v) = add(Dot(k, w, v), mul(w[k], v[k]))
        /\ Dot(k + 1, a, v) = add(Dot(k, a, v), mul(a[k], v[k]))
        /\ Dot(k + 1, b, v) = add(Dot(k, b, v), mul(b[k], v[k]))
        /\ Dot(k, a, v) \in Byte /\ Dot(k, b, v) \in Byte
    <3>0. /\ n \in Nat /\ IsVector(n, w) /\ IsVector(n, a) /\ IsVector(n, b) /\ IsVector(n, v)
          /\ k \in 0 .. n - 1
      BY <1>1
    <3>1. Dot(k + 1, w, v) = add(Dot(k, w, v), mul(w[k], v[k]))
      BY ONLY <3>0, DotNext
    <3>2. Dot(k + 1, a, v) = add(Dot(k, a, v), mul(a[k], v[k]))
      BY ONLY <3>0, DotNext
    <3>3. Dot(k + 1, b, v) = add(Dot(k, b, v), mul(b[k], v[k]))
      BY ONLY <3>0, DotNext
    <3>4. Dot(k, a, v) \in Byte /\ Dot(k, b, v) \in Byte
      BY ONLY <3>0, <2>1, DotSteps
    <3> QED
      BY <3>1, <3>2, <3>3, <3>4
  <2>3. a[k] \in Byte /\ b[k] \in Byte /\ v[k] \in Byte
    BY DEF IsVector
  <2>4. mul(w[k], v[k]) = add(mul(a[k], v[k]), mul(b[k], v[k]))
    BY <2>3, Distributes
  <2>5. mul(a[k], v[k]) \in Byte /\ mul(b[k], v[k]) \in Byte
    BY <2>3, Products
  <2>6. add(add(Dot(k, a, v), Dot(k, b, v)), add(mul(a[k], v[k]), mul(b[k], v[k])))
          = add(add(Dot(k, a, v), mul(a[k], v[k])), add(Dot(k, b, v), mul(b[k], v[k])))
    BY <2>2, <2>5, SumsExchange
  <2>7. Dot(k, w, v) = add(Dot(k, a, v), Dot(k, b, v))
    BY <1>3
  <2> QED
    BY <2>1, <2>2, <2>4, <2>6, <2>7
<1> HIDE DEF good
<1>4. \A k \in 0 .. n : k \in good
  BY <1>2, <1>3, UpTo
<1> QED
  BY <1>4 DEF good

\* The sum of the products with a multiple of a vector.
LEMMA DotOfAMultiple ==
  ASSUME NEW n \in Nat, NEW a, NEW v, NEW w, NEW s \in Byte, IsVector(n, a), IsVector(n, v),
         \A k \in 0 .. n - 1 : w[k] = mul(s, a[k])
  PROVE  Dot(n, w, v) = mul(s, Dot(n, a, v))
<1> DEFINE good == {k \in 0 .. n : Dot(k, w, v) = mul(s, Dot(k, a, v))}
<1>1. IsVector(n, w)
  BY Products DEF IsVector
<1>2. 0 \in good
  <2>1. Dot(0, w, v) = 0 /\ Dot(0, a, v) = 0
    BY <1>1, DotSteps
  <2>2. mul(s, 0) = 0
    BY Products
  <2> QED
    BY <2>1, <2>2
<1>3. ASSUME NEW k \in 0 .. n - 1, k \in good
      PROVE  k + 1 \in good
  <2>1. k + 1 \in 0 .. n /\ k \in 0 .. n
    OBVIOUS
  <2>2. /\ Dot(k + 1, w, v) = add(Dot(k, w, v), mul(w[k], v[k]))
        /\ Dot(k + 1, a, v) = add(Dot(k, a, v), mul(a[k], v[k]))
        /\ Dot(k, a, v) \in Byte
    <3>0. n \in Nat /\ IsVector(n, w) /\ IsVector(n, a) /\ IsVector(n, v) /\ k \in 0 .. n - 1
      BY <1>1
    <3>1. Dot(k + 1, w, v) = add(Dot(k, w, v), mul(w[k], v[k]))
      BY ONLY <3>0, DotNext
    <3>2. Dot(k + 1, a, v) = add(Dot(k, a, v), mul(a[k], v[k]))
      BY ONLY <3>0, DotNext
    <3>3. Dot(k, a, v) \in Byte
      BY ONLY <3>0, <2>1, DotSteps
    <3> QED
      BY <3>1, <3>2, <3>3
  <2>3. a[k] \in Byte /\ v[k] \in Byte
    BY DEF IsVector
  <2>4. mul(w[k], v[k]) = mul(s, mul(a[k], v[k]))
    BY <2>3, ProductsAssociate
  <2>5. mul(a[k], v[k]) \in Byte
    BY <2>3, Products
  <2>6. mul(s, add(Dot(k, a, v), mul(a[k], v[k])))
          = add(mul(s, Dot(k, a, v)), mul(s, mul(a[k], v[k])))
    BY <2>2, <2>5, Distributes
  <2>7. Dot(k, w, v) = mul(s, Dot(k, a, v))
    BY <1>3
  <2> QED
    BY <2>1, <2>2, <2>4, <2>6, <2>7
<1> HIDE DEF good
<1>4. \A k \in 0 .. n : k \in good
  BY <1>2, <1>3, UpTo
<1> QED
  BY <1>4 DEF good

LEMMA DotCommutes ==
  ASSUME NEW n \in Nat, NEW a, NEW b, IsVector(n, a), IsVector(n, b)
  PROVE  Dot(n, a, b) = Dot(n, b, a)
<1> DEFINE good == {k \in 0 .. n : Dot(k, a, b) = Dot(k, b, a)}
<1>1. 0 \in good
  BY DotSteps
<1>2. ASSUME NEW k \in 0 .. n - 1, k \in good
      PROVE  k + 1 \in good
  <2>1. k + 1 \in 0 .. n
    OBVIOUS
  <2>2. /\ Dot(k + 1, a, b) = add(Dot(k, a, b), mul(a[k], b[k]))
        /\ Dot(k + 1, b, a) = add(Dot(k, b, a), mul(b[k], a[k]))
    <3>1. Dot(k + 1, a, b) = add(Dot(k, a, b), mul(a[k], b[k]))
      BY DotNext
    <3>2. Dot(k + 1, b, a) = add(Dot(k, b, a), mul(b[k], a[k]))
      BY DotNext
    <3> QED
      BY <3>1, <3>2
  <2>3. mul(a[k], b[k]) = mul(b[k], a[k])
    BY Products DEF IsVector
  <2> QED
    BY <1>2, <2>1, <2>2, <2>3
<1> HIDE DEF good
<1>3. \A k \in 0 .. n : k \in good
  BY <1>1, <1>2, UpTo
<1> QED
  BY <1>3 DEF good

LEMMA DotInByte ==
  ASSUME NEW n \in Nat, NEW a, NEW b, IsVector(n, a), IsVector(n, b)
  PROVE  Dot(n, a, b) \in Byte
<1>1. n \in 0 .. n
  OBVIOUS
<1> QED
  BY <1>1, DotSteps

Column(n, w, c) == [k \in 0 .. n - 1 |-> w[k][c]]

\* A row of a product of matrices, times a vector: the vector may be taken
\* first.  inner holds the products of the rows of m with v, outer those of x
\* with its columns.
LEMMA DotsExchange ==
  ASSUME NEW n \in Nat, NEW l \in Nat, NEW x, NEW m, NEW v, NEW inner, NEW outer,
         IsVector(n, x), IsVector(l, v), \A k \in 0 .. n - 1 : IsVector(l, m[k]),
         \A k \in 0 .. n - 1 : inner[k] = Dot(l, m[k], v),
         \A j \in 0 .. l - 1 : outer[j] = Dot(n, x, Column(n, m, j))
  PROVE  Dot(n, x, inner) = Dot(l, outer, v)
<1> DEFINE column(j) == Column(n, m, j)
           sums(i) == [j \in 0 .. l - 1 |-> Dot(i, x, column(j))]
           good == {i \in 0 .. n : Dot(i, x, inner) = Dot(l, sums(i), v)}
<1>0. n \in Nat /\ l \in Nat /\ IsVector(n, x) /\ n \in 0 .. n
  OBVIOUS
<1>1. IsVector(n, inner)
  <2>1. \A k \in 0 .. n - 1 : Dot(l, m[k], v) \in Byte
    BY DotInByte
  <2> QED
    BY <2>1 DEF IsVector
<1>2. \A j \in 0 .. l - 1 : IsVector(n, column(j))
  BY DEF IsVector, Column
<1>3. \A i \in 0 .. n : \A j \in 0 .. l - 1 : Dot(i, x, column(j)) \in Byte
  BY <1>2, DotSteps
<1> HIDE DEF column
<1>4. ASSUME NEW i \in 0 .. n
      PROVE  IsVector(l, sums(i))
  BY <1>3 DEF IsVector
<1>5. 0 \in good
  <2>1. Dot(0, x, inner) = 0
    BY <1>1, DotSteps
  <2>2. 0 \in 0 .. n
    OBVIOUS
  <2>3. \A j \in 0 .. l - 1 : sums(0)[j] = 0
    BY <1>2, DotSteps
  <2>4. \A j \in 0 .. l - 1 : mul(sums(0)[j], v[j]) = 0
    BY <2>3, Products DEF IsVector
  <2>5. IsVector(l, sums(0))
    BY <1>4, <2>2
  <2> HIDE DEF sums
  <2>6. Dot(l, sums(0), v) = 0
    BY <2>4, <2>5, DotOfZeros
  <2> QED
    BY <2>1, <2>2, <2>6
<1>6. ASSUME NEW i \in 0 .. n - 1, i \in good
      PROVE  i + 1 \in good
  <2>1. i \in 0 .. n /\ i + 1 \in 0 .. n
    OBVIOUS
  <2>2. Dot(i + 1, x, inner) = add(Dot(i, x, inner), mul(x[i], inner[i]))
    BY ONLY <1>0, <1>1, <1>6, DotNext
  <2> DEFINE scaled == [j \in 0 .. l - 1 |-> mul(x[i], m[i][j])]
  <2>3. IsVector(l, m[i]) /\ x[i] \in Byte
    BY DEF IsVector
  <2>4. IsVector(l, scaled)
    BY <2>3, Products DEF IsVector
  <2>5. \A j \in 0 .. l - 1 : scaled[j] = mul(x[i], m[i][j])
    OBVIOUS
  <2>6. \A j \in 0 .. l - 1 : sums(i + 1)[j] = add(sums(i)[j], scaled[j])
    <3>1. ASSUME NEW j \in 0 .. l - 1
          PROVE  Dot(i + 1, x, column(j)) = add(Dot(i, x, column(j)), mul(x[i], m[i][j]))
      <4>c. PICK w : w = column(j)
        OBVIOUS
      <4>w. IsVector(n, w)
        BY <1>2, <4>c
      <4>s. Dot(i + 1, x, w) = add(Dot(i, x, w), mul(x[i], w[i]))
        BY ONLY <1>0, <4>w, <1>6, DotNext
      <4>1. Dot(i + 1, x, column(j)) = add(Dot(i, x, column(j)), mul(x[i], column(j)[i]))
        BY ONLY <4>c, <4>s
      <4> QED
        BY <4>1 DEF column, Column
    <3> QED
      BY <3>1
  <2>7. IsVector(l, sums(i))
    BY <1>4, <2>1
  <2> HIDE DEF sums, scaled
  <2>8. Dot(l, sums(i + 1), v) = add(Dot(l, sums(i), v), Dot(l, scaled, v))
    BY <2>4, <2>6, <2>7, DotOfASum
  <2>9. Dot(l, scaled, v) = mul(x[i], Dot(l, m[i], v))
    BY <2>3, <2>5, DotOfAMultiple
  <2> QED
    BY <1>6, <2>1, <2>2, <2>8, <2>9
<1> HIDE DEF good
<1>7. \A i \in 0 .. n : i \in good
  BY <1>5, <1>6, UpTo
<1>8. Dot(n, x, inner) = Dot(l, sums(n), v)
  BY <1>0, <1>7 DEF good
<1>9. \A j \in 0 .. l - 1 : outer[j] = sums(n)[j]
  BY DEF column
<1>10. IsVector(l, sums(n))
  BY <1>4
<1> HIDE DEF sums
<1> QED
  BY <1>8, <1>9, <1>10, DotSame

(* -------------------------------- matrices ------------------------------- *)

LEMMA CountFromZero == \A n \in Nat : Cardinality(0 .. n - 1) = n
<1>1. ASSUME NEW n \in Nat PROVE Cardinality(0 .. n - 1) = n
  <2>1. CASE n = 0
    <3>1. 0 .. n - 1 = {}
      BY <2>1
    <3> QED
      BY <2>1, <3>1, FS_EmptySet
  <2>2. CASE n # 0
    <3>1. 0 <= n - 1 /\ n - 1 \in Int /\ (n - 1) - 0 + 1 = n
      BY <2>2
    <3>2. Cardinality(0 .. n - 1) = (n - 1) - 0 + 1
      BY <3>1, FS_Interval
    <3> QED
      BY <3>1, <3>2
  <2> QED
    BY <2>1, <2>2
<1> QED
  BY <1>1

LEMMA MatrixShape ==
  ASSUME NEW n \in Nat, NEW l \in Nat, NEW w \in Matrices(n, l)
  PROVE  /\ DOMAIN w = 0 .. n - 1 /\ Rows(w) = n
         /\ \A r \in 0 .. n - 1 : DOMAIN w[r] = 0 .. l - 1 /\ w[r] \in [0 .. l - 1 -> Byte]
         /\ \A r \in 0 .. n - 1 : \A c \in 0 .. l - 1 : w[r][c] \in Byte
         /\ n > 0 => Cols(w) = l
<1>1. DOMAIN w = 0 .. n - 1 /\ \A r \in 0 .. n - 1 : w[r] \in [0 .. l - 1 -> Byte]
  BY DEF Matrices
<1>2. \A r \in 0 .. n - 1 : DOMAIN w[r] = 0 .. l - 1 /\ \A c \in 0 .. l - 1 : w[r][c] \in Byte
  BY <1>1
<1>3. Rows(w) = n
  BY <1>1, CountFromZero DEF Rows
<1>4. n > 0 => Cols(w) = l
  <2>1. n > 0 => 0 \in 0 .. n - 1
    OBVIOUS
  <2> QED
    BY <1>2, <2>1, CountFromZero DEF Cols
<1> QED
  BY <1>1, <1>2, <1>3, <1>4

\* A matrix is given by its elements.
LEMMA MatrixIs ==
  ASSUME NEW n \in Nat, NEW l \in Nat, NEW w, w = [r \in 0 .. n - 1 |-> w[r]],
         \A r \in 0 .. n - 1 : w[r] = [c \in 0 .. l - 1 |-> w[r][c]],
         \A r \in 0 .. n - 1 : \A c \in 0 .. l - 1 : w[r][c] \in Byte
  PROVE  w \in Matrices(n, l)
<1>1. \A r \in 0 .. n - 1 : w[r] \in [0 .. l - 1 -> Byte]
  OBVIOUS
<1> QED
  BY <1>1 DEF Matrices

LEMMA SameMatrices ==
  ASSUME NEW n \in Nat, NEW l \in Nat, NEW v \in Matrices(n, l), NEW w \in Matrices(n, l),
         \A r \in 0 .. n - 1 : \A c \in 0 .. l - 1 : v[r][c] = w[r][c]
  PROVE  v = w
<1>1. ASSUME NEW r \in 0 .. n - 1 PROVE v[r] = w[r]
  <2>1. v[r] \in [0 .. l - 1 -> Byte] /\ w[r] \in [0 .. l - 1 -> Byte]
    BY MatrixShape
  <2> QED
    BY <2>1
<1>2. v \in [0 .. n - 1 -> [0 .. l - 1 -> Byte]] /\ w \in [0 .. n - 1 -> [0 .. l - 1 -> Byte]]
  BY DEF Matrices
<1> QED
  BY <1>1, <1>2

LEMMA ColumnsAndRows ==
  ASSUME NEW n \in Nat, NEW l \in Nat, NEW w \in Matrices(n, l)
  PROVE  /\ \A c \in 0 .. l - 1 : IsVector(n, Column(n, w, c))
         /\ \A r \in 0 .. n - 1 : IsVector(l, w[r])
BY MatrixShape DEF IsVector, Column

\* The rows of v are combinations of the rows of w.
IsOf(n, l, v, w) ==
  \E C \in Matrices(n, n) :
    \A r \in 0 .. n - 1 : \A c \in 0 .. l - 1 : v[r][c] = Dot(n, C[r], Column(n, w, c))

LEMMA IsOfTransitive ==
  ASSUME NEW n \in Nat, NEW l \in Nat, NEW u, NEW v, NEW w \in Matrices(n, l),
         IsOf(n, l, u, v), IsOf(n, l, v, w)
  PROVE  IsOf(n, l, u, w)
<1>1. PICK D \in Matrices(n, n) :
        \A r \in 0 .. n - 1 : \A c \in 0 .. l - 1 : u[r][c] = Dot(n, D[r], Column(n, v, c))
  BY DEF IsOf
<1>2. PICK C \in Matrices(n, n) :
        \A r \in 0 .. n - 1 : \A c \in 0 .. l - 1 : v[r][c] = Dot(n, C[r], Column(n, w, c))
  BY DEF IsOf
<1> DEFINE B == [r \in 0 .. n - 1 |-> [j \in 0 .. n - 1 |-> Dot(n, D[r], Column(n, C, j))]]
<1>3. B \in Matrices(n, n)
  <2>1. ASSUME NEW r \in 0 .. n - 1, NEW j \in 0 .. n - 1
        PROVE  Dot(n, D[r], Column(n, C, j)) \in Byte
    <3>1. IsVector(n, D[r]) /\ IsVector(n, Column(n, C, j))
      BY ColumnsAndRows
    <3> QED
      BY <3>1, DotInByte
  <2> QED
    BY <2>1 DEF Matrices
<1>4. ASSUME NEW r \in 0 .. n - 1, NEW c \in 0 .. l - 1
      PROVE  u[r][c] = Dot(n, B[r], Column(n, w, c))
  <2>1. IsVector(n, D[r]) /\ IsVector(n, Column(n, w, c))
    BY ColumnsAndRows
  <2>2. \A k \in 0 .. n - 1 : IsVector(n, C[k])
    BY ColumnsAndRows
  <2>3. \A k \in 0 .. n - 1 : Column(n, v, c)[k] = Dot(n, C[k], Column(n, w, c))
    BY <1>2 DEF Column
  <2>4. \A j \in 0 .. n - 1 : B[r][j] = Dot(n, D[r], Column(n, C, j))
    OBVIOUS
  <2> DEFINE inner == Column(n, v, c)
             outer == B[r]
             x == D[r]
             col == Column(n, w, c)
  <2> HIDE DEF B, inner, outer, x, col
  <2>5. Dot(n, x, inner) = Dot(n, outer, col)
    <3>1. IsVector(n, x) /\ IsVector(n, col)
      BY <2>1 DEF x, col
    <3>2. \A k \in 0 .. n - 1 : inner[k] = Dot(n, C[k], col)
      BY <2>3 DEF inner, col
    <3>3. \A j \in 0 .. n - 1 : outer[j] = Dot(n, x, Column(n, C, j))
      BY <2>4 DEF outer, x
    <3> QED
      BY <2>2, <3>1, <3>2, <3>3, DotsExchange
  <2> QED
    BY <1>1, <2>5 DEF x, inner, outer, col
<1> HIDE DEF B
<1> QED
  BY <1>3, <1>4 DEF IsOf

\* A row is the sum of multiples of two rows of w.
OfTwo(n, l, row, w) ==
  \E i, j \in 0 .. n - 1 : \E s, t \in Byte :
    \A c \in 0 .. l - 1 : row[c] = add(mul(s, w[i][c]), mul(t, w[j][c]))

LEMMA OfTwoAreOf ==
  ASSUME NEW n \in Nat, NEW l \in Nat, NEW v, NEW w \in Matrices(n, l),
         \A r \in 0 .. n - 1 : OfTwo(n, l, v[r], w)
  PROVE  IsOf(n, l, v, w)
<1> DEFINE Good(r, x) == \A c \in 0 .. l - 1 : v[r][c] = Dot(n, x, Column(n, w, c))
           Vectors == [0 .. n - 1 -> Byte]
<1>1. ASSUME NEW r \in 0 .. n - 1
      PROVE  \E x \in Vectors : Good(r, x)
  <2>1. PICK i \in 0 .. n - 1, j \in 0 .. n - 1, s \in Byte, t \in Byte :
          \A c \in 0 .. l - 1 : v[r][c] = add(mul(s, w[i][c]), mul(t, w[j][c]))
    BY DEF OfTwo
  <2> DEFINE y == [k \in 0 .. n - 1 |-> IF k = i THEN s ELSE 0]
             z == [k \in 0 .. n - 1 |-> IF k = j THEN t ELSE 0]
             x == [k \in 0 .. n - 1 |-> add(y[k], z[k])]
  <2>2. IsVector(n, y) /\ IsVector(n, z)
    BY SmallBytes DEF IsVector
  <2>3. x \in Vectors
    BY <2>2, Sums DEF IsVector
  <2>4. \A k \in 0 .. n - 1 : x[k] = add(y[k], z[k])
    OBVIOUS
  <2>5. y[i] = s /\ z[j] = t
    OBVIOUS
  <2>6. \A k \in 0 .. n - 1 : (k # i => y[k] = 0) /\ (k # j => z[k] = 0)
    OBVIOUS
  <2> HIDE DEF x, y, z
  <2>7. ASSUME NEW c \in 0 .. l - 1
        PROVE  v[r][c] = Dot(n, x, Column(n, w, c))
    <3> DEFINE col == Column(n, w, c)
    <3>1. IsVector(n, col) /\ col[i] = w[i][c] /\ col[j] = w[j][c]
      BY ColumnsAndRows DEF Column
    <3> HIDE DEF col
    <3>2. \A k \in 0 .. n - 1 : mul(0, col[k]) = 0
      BY <3>1, Products DEF IsVector
    <3>3. Dot(n, y, col) = mul(y[i], col[i])
      BY <2>2, <2>6, <3>1, <3>2, DotPick
    <3>4. Dot(n, z, col) = mul(z[j], col[j])
      BY <2>2, <2>6, <3>1, <3>2, DotPick
    <3>5. Dot(n, x, col) = add(Dot(n, y, col), Dot(n, z, col))
      BY <2>2, <2>4, <3>1, DotOfASum
    <3>6. Dot(n, x, col) = v[r][c]
      BY <2>1, <2>5, <3>1, <3>3, <3>4, <3>5
    <3> QED
      BY <3>6 DEF col
  <2> QED
    BY <2>3, <2>7
<1> DEFINE C == [r \in 0 .. n - 1 |-> CHOOSE x \in Vectors : Good(r, x)]
<1>2. \A r \in 0 .. n - 1 : C[r] \in Vectors /\ Good(r, C[r])
  BY <1>1
<1>3. C \in Matrices(n, n)
  BY <1>2 DEF Matrices
<1> HIDE DEF C
<1> QED
  BY <1>2, <1>3 DEF IsOf

LEMMA OfTwoCases ==
  ASSUME NEW n \in Nat, NEW l \in Nat, NEW w \in Matrices(n, l), NEW row,
         NEW i \in 0 .. n - 1, NEW j \in 0 .. n - 1, NEW t \in Byte,
         \/ \A c \in 0 .. l - 1 : row[c] = w[i][c]
         \/ \A c \in 0 .. l - 1 : row[c] = mul(t, w[i][c])
         \/ \A c \in 0 .. l - 1 : row[c] = add(w[i][c], mul(t, w[j][c]))
  PROVE  OfTwo(n, l, row, w)
<1>1. ASSUME NEW c \in 0 .. l - 1
      PROVE  /\ w[i][c] = add(mul(1, w[i][c]), mul(0, w[j][c]))
             /\ mul(t, w[i][c]) = add(mul(t, w[i][c]), mul(0, w[j][c]))
             /\ mul(1, w[i][c]) = w[i][c]
  <2>1. w[i][c] \in Byte /\ w[j][c] \in Byte
    BY MatrixShape
  <2>2. mul(1, w[i][c]) = w[i][c] /\ mul(0, w[j][c]) = 0 /\ mul(t, w[i][c]) \in Byte
    BY <2>1, Products
  <2>3. add(w[i][c], 0) = w[i][c] /\ add(mul(t, w[i][c]), 0) = mul(t, w[i][c])
    BY <2>1, <2>2, Sums
  <2> QED
    BY <2>2, <2>3
<1>2. CASE \A c \in 0 .. l - 1 : row[c] = w[i][c]
  BY <1>1, <1>2, SmallBytes DEF OfTwo
<1>3. CASE \A c \in 0 .. l - 1 : row[c] = mul(t, w[i][c])
  BY <1>1, <1>3, SmallBytes DEF OfTwo
<1>4. CASE \A c \in 0 .. l - 1 : row[c] = add(w[i][c], mul(t, w[j][c]))
  BY <1>1, <1>4, SmallBytes DEF OfTwo
<1> QED
  BY <1>2, <1>3, <1>4

\* Two matrices whose rows are combinations of each other's.
Equivalent(n, l, v, w) ==
  /\ v \in Matrices(n, l) /\ w \in Matrices(n, l)
  /\ IsOf(n, l, v, w) /\ IsOf(n, l, w, v)

LEMMA EquivalentTransitive ==
  ASSUME NEW n \in Nat, NEW l \in Nat, NEW u, NEW v, NEW w,
         Equivalent(n, l, u, v), Equivalent(n, l, v, w)
  PROVE  Equivalent(n, l, u, w)
BY IsOfTransitive DEF Equivalent

LEMMA EquivalentByTwo ==
  ASSUME NEW n \in Nat, NEW l \in Nat, NEW v \in Matrices(n, l), NEW w \in Matrices(n, l),
         \A r \in 0 .. n - 1 : OfTwo(n, l, v[r], w) /\ OfTwo(n, l, w[r], v)
  PROVE  Equivalent(n, l, v, w)
BY OfTwoAreOf DEF Equivalent

LEMMA EquivalentReflexive ==
  ASSUME NEW n \in Nat, NEW l \in Nat, NEW w \in Matrices(n, l)
  PROVE  Equivalent(n, l, w, w)
<1>1. \A r \in 0 .. n - 1 : OfTwo(n, l, w[r], w)
  BY OfTwoCases, SmallBytes
<1> QED
  BY <1>1, EquivalentByTwo

LEMMA SwapIs ==
  ASSUME NEW n \in Nat, NEW l \in Nat, NEW w \in Matrices(n, l),
         NEW i \in 0 .. n - 1, NEW j \in 0 .. n - 1
  PROVE  /\ swap_rows(w, i, j) \in Matrices(n, l)
         /\ swap_rows(w, i, j)[i] = w[j] /\ swap_rows(w, i, j)[j] = w[i]
         /\ \A r \in 0 .. n - 1 : r # i /\ r # j => swap_rows(w, i, j)[r] = w[r]
<1>1. w \in [0 .. n - 1 -> [0 .. l - 1 -> Byte]]
  BY DEF Matrices
<1> QED
  BY <1>1 DEF swap_rows, Matrices

LEMMA SwapEquivalent ==
  ASSUME NEW n \in Nat, NEW l \in Nat, NEW w \in Matrices(n, l),
         NEW i \in 0 .. n - 1, NEW j \in 0 .. n - 1
  PROVE  Equivalent(n, l, swap_rows(w, i, j), w)
<1> DEFINE v == swap_rows(w, i, j)
           other(r) == IF r = i THEN j ELSE IF r = j THEN i ELSE r
<1>1. /\ v \in Matrices(n, l)
      /\ v[i] = w[j] /\ v[j] = w[i]
      /\ \A r \in 0 .. n - 1 : r # i /\ r # j => v[r] = w[r]
  BY SwapIs
<1> HIDE DEF v
<1>2. ASSUME NEW r \in 0 .. n - 1
      PROVE  OfTwo(n, l, v[r], w) /\ OfTwo(n, l, w[r], v)
  <2>1. other(r) \in 0 .. n - 1 /\ v[r] = w[other(r)] /\ w[r] = v[other(r)]
    BY <1>1
  <2> HIDE DEF other
  <2> QED
    BY <1>1, <2>1, SmallBytes, OfTwoCases
<1>3. Equivalent(n, l, v, w)
  BY <1>1, <1>2, EquivalentByTwo
<1> QED
  BY <1>3 DEF v

LEMMA ClearedIs ==
  ASSUME NEW n \in Nat, NEW l \in Nat, NEW w \in Matrices(n, l), NEW rows, NEW by \in 0 .. n - 1,
         n <= l
  PROVE  /\ Cleared(w, rows, by) \in Matrices(n, l)
         /\ \A r \in 0 .. n - 1 : r \notin rows => Cleared(w, rows, by)[r] = w[r]
         /\ \A r \in 0 .. n - 1 : \A c \in 0 .. l - 1 :
              r \in rows => Cleared(w, rows, by)[r][c] = add(w[r][c], mul(w[r][by], w[by][c]))
<1> DEFINE v == Cleared(w, rows, by)
<1>1. by \in 0 .. l - 1
  OBVIOUS
<1>2. DOMAIN w = 0 .. n - 1 /\ \A r \in 0 .. n - 1 : DOMAIN w[r] = 0 .. l - 1
  <2>1. w \in [0 .. n - 1 -> [0 .. l - 1 -> Byte]]
    BY DEF Matrices
  <2> QED
    BY <2>1
<1>3. v = [r \in 0 .. n - 1 |->
            IF r \in rows THEN [c \in 0 .. l - 1 |-> add(w[r][c], mul(w[r][by], w[by][c]))]
            ELSE w[r]]
  BY <1>2 DEF Cleared
<1>4. ASSUME NEW r \in 0 .. n - 1, NEW c \in 0 .. l - 1
      PROVE  add(w[r][c], mul(w[r][by], w[by][c])) \in Byte
  <2>1. w[r][c] \in Byte /\ w[r][by] \in Byte /\ w[by][c] \in Byte
    BY <1>1, MatrixShape
  <2>2. mul(w[r][by], w[by][c]) \in Byte
    BY <2>1, Products
  <2> QED
    BY <2>1, <2>2, Sums
<1>5. ASSUME NEW r \in 0 .. n - 1
      PROVE  v[r] \in [0 .. l - 1 -> Byte]
  <2>1. w[r] \in [0 .. l - 1 -> Byte]
    BY MatrixShape
  <2>2. [c \in 0 .. l - 1 |-> add(w[r][c], mul(w[r][by], w[by][c]))] \in [0 .. l - 1 -> Byte]
    BY <1>4
  <2> QED
    BY <1>3, <2>1, <2>2
<1>6. v \in Matrices(n, l)
  BY <1>3, <1>5 DEF Matrices
<1> HIDE DEF v
<1>7. /\ \A r \in 0 .. n - 1 : r \notin rows => v[r] = w[r]
      /\ \A r \in 0 .. n - 1 : \A c \in 0 .. l - 1 :
           r \in rows => v[r][c] = add(w[r][c], mul(w[r][by], w[by][c]))
  BY <1>3
<1> QED
  BY <1>6, <1>7 DEF v

LEMMA ClearedEquivalent ==
  ASSUME NEW n \in Nat, NEW l \in Nat, NEW w \in Matrices(n, l), NEW rows, NEW by \in 0 .. n - 1,
         n <= l, by \notin rows
  PROVE  Equivalent(n, l, Cleared(w, rows, by), w)
<1> DEFINE v == Cleared(w, rows, by)
<1>1. /\ v \in Matrices(n, l)
      /\ \A r \in 0 .. n - 1 : r \notin rows => v[r] = w[r]
      /\ \A r \in 0 .. n - 1 : \A c \in 0 .. l - 1 :
           r \in rows => v[r][c] = add(w[r][c], mul(w[r][by], w[by][c]))
  BY ClearedIs
<1>2. by \in 0 .. l - 1 /\ v[by] = w[by]
  BY <1>1
<1> HIDE DEF v
<1>3. ASSUME NEW r \in 0 .. n - 1
      PROVE  OfTwo(n, l, v[r], w) /\ OfTwo(n, l, w[r], v)
  <2>1. CASE r \notin rows
    <3>1. v[r] = w[r]
      BY <1>1, <2>1
    <3> QED
      BY <1>1, <3>1, SmallBytes, OfTwoCases
  <2>2. CASE r \in rows
    <3> DEFINE factor == w[r][by]
    <3>1. factor \in Byte
      BY <1>2, MatrixShape
    <3>2. \A c \in 0 .. l - 1 : v[r][c] = add(w[r][c], mul(factor, w[by][c]))
      BY <1>1, <2>2
    <3> HIDE DEF factor
    <3>3. ASSUME NEW c \in 0 .. l - 1
          PROVE  w[r][c] = add(v[r][c], mul(factor, v[by][c]))
      <4>1. w[r][c] \in Byte /\ w[by][c] \in Byte
        BY MatrixShape
      <4>2. mul(factor, w[by][c]) \in Byte
        BY <3>1, <4>1, Products
      <4>3. add(add(w[r][c], mul(factor, w[by][c])), mul(factor, w[by][c])) = w[r][c]
        BY <4>1, <4>2, SumsCancel
      <4> QED
        BY <1>2, <3>2, <4>3
    <3>4. OfTwo(n, l, v[r], w)
      BY <3>1, <3>2, OfTwoCases
    <3>5. OfTwo(n, l, w[r], v)
      BY <1>1, <3>1, <3>3, OfTwoCases
    <3> QED
      BY <3>4, <3>5
  <2> QED
    BY <2>1, <2>2
<1>4. Equivalent(n, l, v, w)
  BY <1>1, <1>3, EquivalentByTwo
<1> QED
  BY <1>4 DEF v

LEMMA OneIs ==
  ASSUME NEW n \in Nat, NEW l \in Nat, NEW w \in Matrices(n, l), n <= l, NEW i \in 0 .. n - 1,
         w[i][i] # 0
  PROVE  \E s \in Byte :
           /\ mul(s, w[i][i]) = 1 /\ mul(w[i][i], s) = 1
           /\ One(w, i) \in Matrices(n, l)
           /\ \A r \in 0 .. n - 1 : r # i => One(w, i)[r] = w[r]
           /\ \A c \in 0 .. l - 1 : One(w, i)[i][c] = mul(s, w[i][c])
<1> DEFINE v == One(w, i)
           x == w[i][i]
<1>1. i \in 0 .. l - 1 /\ x \in Byte /\ x # 0
  BY MatrixShape
<1>2. w \in [0 .. n - 1 -> [0 .. l - 1 -> Byte]]
  BY DEF Matrices
<1>3. CASE x = 1
  <2>1. v = w
    BY <1>3 DEF One
  <2>2. mul(1, x) = 1 /\ mul(x, 1) = 1
    BY <1>1, <1>3, Products
  <2>3. \A c \in 0 .. l - 1 : w[i][c] = mul(1, w[i][c])
    BY MatrixShape, Products
  <2> QED
    BY <2>1, <2>2, <2>3, SmallBytes
<1>4. CASE x # 1
  <2> DEFINE s == div(1, x)
  <2>1. s \in Byte /\ mul(s, x) = 1 /\ mul(x, s) = 1
    BY <1>1, Inverses
  <2>2. v = [w EXCEPT ![i] = Scaled(w[i], s)]
    BY <1>4 DEF One
  <2>3. Scaled(w[i], s) = [c \in 0 .. l - 1 |-> mul(s, w[i][c])]
    BY MatrixShape DEF Scaled
  <2> HIDE DEF s, v, x
  <2>4. \A c \in 0 .. l - 1 : mul(s, w[i][c]) \in Byte
    BY <2>1, MatrixShape, Products
  <2>5. Scaled(w[i], s) \in [0 .. l - 1 -> Byte]
    BY <2>3, <2>4
  <2>6. /\ v \in Matrices(n, l) /\ v[i] = Scaled(w[i], s)
        /\ \A r \in 0 .. n - 1 : r # i => v[r] = w[r]
    BY <1>2, <2>2, <2>5 DEF Matrices
  <2>7. \A c \in 0 .. l - 1 : v[i][c] = mul(s, w[i][c])
    BY <2>3, <2>6
  <2> QED
    BY <2>1, <2>6, <2>7 DEF v, x
<1> QED
  BY <1>3, <1>4

LEMMA OneEquivalent ==
  ASSUME NEW n \in Nat, NEW l \in Nat, NEW w \in Matrices(n, l), n <= l, NEW i \in 0 .. n - 1,
         w[i][i] # 0
  PROVE  Equivalent(n, l, One(w, i), w)
<1> DEFINE v == One(w, i)
           x == w[i][i]
<1>1. PICK s \in Byte :
        /\ mul(s, x) = 1 /\ mul(x, s) = 1
        /\ v \in Matrices(n, l)
        /\ \A r \in 0 .. n - 1 : r # i => v[r] = w[r]
        /\ \A c \in 0 .. l - 1 : v[i][c] = mul(s, w[i][c])
  BY OneIs
<1>2. x \in Byte
  <2>1. i \in 0 .. l - 1
    OBVIOUS
  <2> QED
    BY <2>1, MatrixShape
<1> HIDE DEF v, x
<1>3. ASSUME NEW r \in 0 .. n - 1
      PROVE  OfTwo(n, l, v[r], w) /\ OfTwo(n, l, w[r], v)
  <2>1. CASE r # i
    <3>1. v[r] = w[r]
      BY <1>1, <2>1
    <3> QED
      BY <1>1, <3>1, SmallBytes, OfTwoCases
  <2>2. CASE r = i
    <3>1. \A c \in 0 .. l - 1 : v[r][c] = mul(s, w[r][c])
      BY <1>1, <2>2
    <3>2. ASSUME NEW c \in 0 .. l - 1
          PROVE  w[r][c] = mul(x, v[r][c])
      <4>1. w[r][c] \in Byte
        BY MatrixShape
      <4>2. mul(x, mul(s, w[r][c])) = mul(mul(x, s), w[r][c])
        BY <1>2, <4>1, ProductsAssociate
      <4>3. mul(1, w[r][c]) = w[r][c]
        BY <4>1, Products
      <4> QED
        BY <1>1, <3>1, <4>2, <4>3
    <3>3. OfTwo(n, l, v[r], w)
      BY <3>1, OfTwoCases
    <3>4. OfTwo(n, l, w[r], v)
      BY <1>1, <1>2, <3>2, OfTwoCases
    <3> QED
      BY <3>3, <3>4
  <2> QED
    BY <2>1, <2>2
<1>4. Equivalent(n, l, v, w)
  BY <1>1, <1>3, EquivalentByTwo
<1> QED
  BY <1>4 DEF v

(* ----------------------------- the elimination --------------------------- *)

LEMMA PivotedIs ==
  ASSUME NEW n \in Nat, NEW l \in Nat, NEW w \in Matrices(n, l), NEW i \in 0 .. n - 1
  PROVE  \/ Pivoted(w, i) = w
         \/ \E k \in i .. n - 1 : Pivoted(w, i) = swap_rows(w, i, k)
<1> DEFINE usable == {r \in DOMAIN w : r >= i /\ w[r][i] # 0}
<1>1. DOMAIN w = 0 .. n - 1
  BY DEF Matrices
<1>2. CASE usable = {}
  BY <1>2 DEF Pivoted
<1>3. CASE usable # {}
  <2>1. usable \subseteq Nat
    BY <1>1
  <2> DEFINE k == CHOOSE r \in usable : \A j \in usable : r <= j
  <2>2. Pivoted(w, i) = swap_rows(w, i, k)
    BY <1>3 DEF Pivoted
  <2>3. k \in usable
    <3> HIDE DEF usable
    <3>1. \E r \in usable : \A j \in usable : r <= j
      BY <1>3, <2>1, LeastNat
    <3> QED
      BY <3>1
  <2> HIDE DEF k
  <2>4. k \in i .. n - 1
    BY <1>1, <2>3
  <2> QED
    BY <2>2, <2>4
<1> QED
  BY <1>2, <1>3

\* The first k columns are those of the identity, on and below the diagonal.
Echelon(n, w, k) ==
  \A j \in 0 .. k - 1 : \A r \in j .. n - 1 : w[r][j] = IF r = j THEN 1 ELSE 0

LEMMA PivotedKeeps ==
  ASSUME NEW n \in Nat, NEW l \in Nat, NEW w \in Matrices(n, l), NEW i \in 0 .. n - 1
  PROVE  /\ Equivalent(n, l, Pivoted(w, i), w)
         /\ Echelon(n, w, i) => Echelon(n, Pivoted(w, i), i)
<1>1. CASE Pivoted(w, i) = w
  BY <1>1, EquivalentReflexive
<1>2. ASSUME NEW k \in i .. n - 1, Pivoted(w, i) = swap_rows(w, i, k)
      PROVE  /\ Equivalent(n, l, Pivoted(w, i), w)
             /\ Echelon(n, w, i) => Echelon(n, Pivoted(w, i), i)
  <2> DEFINE v == swap_rows(w, i, k)
  <2>1. k \in 0 .. n - 1
    OBVIOUS
  <2>2. /\ v[i] = w[k] /\ v[k] = w[i]
        /\ \A r \in 0 .. n - 1 : r # i /\ r # k => v[r] = w[r]
    BY <2>1, SwapIs
  <2>3. Equivalent(n, l, v, w)
    BY <2>1, SwapEquivalent
  <2> HIDE DEF v
  <2>4. ASSUME Echelon(n, w, i), NEW j \in 0 .. i - 1, NEW r \in j .. n - 1
        PROVE  v[r][j] = IF r = j THEN 1 ELSE 0
    <3>1. /\ i \in j .. n - 1 /\ k \in j .. n - 1 /\ i # j /\ k # j
          /\ r \in 0 .. n - 1
      BY <2>1
    <3>2. w[i][j] = 0 /\ w[k][j] = 0 /\ w[r][j] = IF r = j THEN 1 ELSE 0
      BY <2>4, <3>1 DEF Echelon
    <3>3. CASE r = i \/ r = k
      BY <2>2, <3>1, <3>2, <3>3
    <3>4. CASE r # i /\ r # k
      BY <2>2, <3>1, <3>2, <3>4
    <3> QED
      BY <3>3, <3>4
  <2>5. Echelon(n, w, i) => Echelon(n, v, i)
    BY <2>4 DEF Echelon
  <2> QED
    BY <1>2, <2>3, <2>5 DEF v
<1> QED
  BY <1>1, <1>2, PivotedIs

LEMMA OneKeeps ==
  ASSUME NEW n \in Nat, NEW l \in Nat, NEW w \in Matrices(n, l), n <= l, NEW i \in 0 .. n - 1,
         w[i][i] # 0, Echelon(n, w, i)
  PROVE  Echelon(n, One(w, i), i) /\ One(w, i)[i][i] = 1
<1> DEFINE v == One(w, i)
<1>1. PICK s \in Byte :
        /\ mul(s, w[i][i]) = 1
        /\ \A r \in 0 .. n - 1 : r # i => v[r] = w[r]
        /\ \A c \in 0 .. l - 1 : v[i][c] = mul(s, w[i][c])
  BY OneIs
<1> HIDE DEF v
<1>2. v[i][i] = 1
  <2>1. i \in 0 .. l - 1
    OBVIOUS
  <2> QED
    BY <1>1, <2>1
<1>3. ASSUME NEW j \in 0 .. i - 1, NEW r \in j .. n - 1
      PROVE  v[r][j] = IF r = j THEN 1 ELSE 0
  <2>1. w[r][j] = IF r = j THEN 1 ELSE 0
    BY DEF Echelon
  <2>2. CASE r = i
    <3>1. r # j /\ j \in 0 .. l - 1
      BY <2>2
    <3>2. v[i][j] = mul(s, 0)
      BY <1>1, <2>1, <2>2, <3>1
    <3> QED
      BY <2>2, <3>1, <3>2, Products
  <2>3. CASE r # i
    <3>1. r \in 0 .. n - 1
      OBVIOUS
    <3> QED
      BY <1>1, <2>1, <2>3, <3>1
  <2> QED
    BY <2>2, <2>3
<1> QED
  BY <1>2, <1>3 DEF Echelon, v

LEMMA ClearedBelow ==
  ASSUME NEW n \in Nat, NEW l \in Nat, NEW w \in Matrices(n, l), n <= l, NEW i \in 0 .. n - 1,
         w[i][i] = 1, Echelon(n, w, i)
  PROVE  Echelon(n, Cleared(w, i + 1 .. n - 1, i), i + 1)
<1> DEFINE rows == i + 1 .. n - 1
           v == Cleared(w, rows, i)
<1>1. /\ \A r \in 0 .. n - 1 : r \notin rows => v[r] = w[r]
      /\ \A r \in 0 .. n - 1 : \A c \in 0 .. l - 1 :
           r \in rows => v[r][c] = add(w[r][c], mul(w[r][i], w[i][c]))
  <2>0. n \in Nat /\ l \in Nat /\ w \in Matrices(n, l) /\ n <= l /\ i \in 0 .. n - 1
    OBVIOUS
  <2> HIDE DEF rows
  <2>1. \A r \in 0 .. n - 1 : r \notin rows => v[r] = w[r]
    BY ONLY <2>0, ClearedIs
  <2>2. \A r \in 0 .. n - 1 : \A c \in 0 .. l - 1 :
          r \in rows => v[r][c] = add(w[r][c], mul(w[r][i], w[i][c]))
    BY ONLY <2>0, ClearedIs
  <2> QED
    BY ONLY <2>1, <2>2
<1> HIDE DEF v
<1>2. ASSUME NEW j \in 0 .. i, NEW r \in j .. n - 1
      PROVE  v[r][j] = IF r = j THEN 1 ELSE 0
  <2>1. r \in 0 .. n - 1 /\ j \in 0 .. l - 1 /\ i \in 0 .. l - 1
    OBVIOUS
  <2>2. w[r][i] \in Byte /\ w[r][j] \in Byte
    BY <2>1, MatrixShape
  <2>3. CASE r <= i
    <3>1. r \notin rows /\ v[r] = w[r]
      BY <1>1, <2>1, <2>3
    <3>2. CASE j = i
      BY <2>3, <3>1, <3>2
    <3>3. CASE j # i
      <4>1. j \in 0 .. i - 1
        BY <3>3
      <4> QED
        BY <3>1, <4>1 DEF Echelon
    <3> QED
      BY <3>2, <3>3
  <2>4. CASE r > i
    <3>1. r \in rows /\ r # j /\ r # i
      BY <2>1, <2>4
    <3>2. v[r][j] = add(w[r][j], mul(w[r][i], w[i][j]))
      BY <1>1, <2>1, <3>1
    <3>3. CASE j = i
      <4>1. mul(w[r][i], 1) = w[r][i] /\ add(w[r][i], w[r][i]) = 0
        BY <2>2, Products, Sums
      <4> QED
        BY <3>1, <3>2, <3>3, <4>1
    <3>4. CASE j # i
      <4>1. j \in 0 .. i - 1 /\ i \in j .. n - 1
        BY <3>4
      <4>2. w[r][j] = 0 /\ w[i][j] = 0
        BY <3>1, <3>4, <4>1 DEF Echelon
      <4>3. mul(w[r][i], 0) = 0 /\ add(0, 0) = 0
        BY <2>2, SmallBytes, Products, Sums
      <4> QED
        BY <3>1, <3>2, <4>2, <4>3
    <3> QED
      BY <3>3, <3>4
  <2> QED
    BY <2>1, <2>3, <2>4
<1>3. \A j \in 0 .. (i + 1) - 1 : j \in 0 .. i
  OBVIOUS
<1> HIDE DEF rows
<1>4. Echelon(n, v, i + 1)
  BY <1>2, <1>3 DEF Echelon
<1> QED
  BY <1>4 DEF v, rows

PivotedTo(m, r) == IF m = Singular THEN m ELSE Pivoted(m, r)

LEMMA SingularIsNone ==
  ASSUME NEW n \in Nat \ {0}, NEW l \in Nat
  PROVE  Singular \notin Matrices(n, l)
<1>1. 0 \in 0 .. n - 1
  OBVIOUS
<1>2. DOMAIN Singular = {}
  BY DEF Singular
<1> QED
  BY <1>1, <1>2 DEF Matrices

\* A step on the way down.
LEMMA EliminatedIs ==
  ASSUME NEW n \in Nat \ {0}, NEW l \in Nat, NEW w \in Matrices(n, l), n <= l, NEW i \in 0 .. n - 1,
         NEW v, v = Eliminated(PivotedTo(w, i), i)
  PROVE  \/ v = Singular /\ Pivoted(w, i)[i][i] = 0
         \/ /\ v \in Matrices(n, l) /\ Equivalent(n, l, v, w)
            /\ Echelon(n, w, i) => Echelon(n, v, i + 1)
<1> DEFINE p == Pivoted(w, i)
           o == One(p, i)
           rows == i + 1 .. n - 1
<1>1. Equivalent(n, l, p, w) /\ (Echelon(n, w, i) => Echelon(n, p, i)) /\ p \in Matrices(n, l)
  BY PivotedKeeps DEF Equivalent
<1>2. PivotedTo(w, i) = p
  BY SingularIsNone DEF PivotedTo
<1> HIDE DEF p
<1>3. CASE p[i][i] = 0
  BY <1>2, <1>3 DEF Eliminated, p
<1>4. CASE p[i][i] # 0
  <2>1. p # Singular /\ Rows(p) = n
    BY <1>1, SingularIsNone, MatrixShape
  <2>2. v = Cleared(o, rows, i)
    BY <1>2, <1>4, <2>1 DEF Eliminated
  <2>3. Equivalent(n, l, o, p) /\ o \in Matrices(n, l)
    BY <1>1, <1>4, OneEquivalent DEF Equivalent
  <2>4. i \notin rows
    OBVIOUS
  <2> HIDE DEF o, rows
  <2>5. Equivalent(n, l, v, o)
    BY <2>2, <2>3, <2>4, ClearedEquivalent
  <2>6. Equivalent(n, l, v, p)
    BY <2>3, <2>5, EquivalentTransitive
  <2>7. Equivalent(n, l, v, w)
    BY <1>1, <2>6, EquivalentTransitive
  <2>8. Echelon(n, w, i) => Echelon(n, v, i + 1)
    <3> SUFFICES ASSUME Echelon(n, w, i) PROVE Echelon(n, v, i + 1)
      OBVIOUS
    <3>1. Echelon(n, o, i) /\ o[i][i] = 1
      BY <1>1, <1>4, OneKeeps DEF o
    <3> QED
      BY <2>2, <2>3, <3>1, ClearedBelow DEF rows
  <2> QED
    BY <2>7, <2>8 DEF Equivalent
<1> QED
  BY <1>3, <1>4

\* The columns below k are those of the identity, and so are the rest of them
\* below the diagonal.
Reduced(n, w, k) ==
  /\ Echelon(n, w, n)
  /\ \A j \in 0 .. k - 1 : \A r \in 0 .. n - 1 : w[r][j] = IF r = j THEN 1 ELSE 0

\* A step on the way up.
LEMMA ClearedAbove ==
  ASSUME NEW n \in Nat, NEW l \in Nat, NEW w \in Matrices(n, l), n <= l, NEW i \in 0 .. n - 1,
         Reduced(n, w, i)
  PROVE  LET v == Cleared(w, 0 .. i - 1, i)
         IN Equivalent(n, l, v, w) /\ Reduced(n, v, i + 1)
<1> DEFINE rows == 0 .. i - 1
           v == Cleared(w, rows, i)
<1>1. i \notin rows
  OBVIOUS
<1>2. /\ \A r \in 0 .. n - 1 : r \notin rows => v[r] = w[r]
      /\ \A r \in 0 .. n - 1 : \A c \in 0 .. l - 1 :
           r \in rows => v[r][c] = add(w[r][c], mul(w[r][i], w[i][c]))
  <2> HIDE DEF rows
  <2> QED
    BY ClearedIs
<1>3. Equivalent(n, l, v, w)
  <2> HIDE DEF rows
  <2> QED
    BY <1>1, ClearedEquivalent
<1> HIDE DEF v
\* In a column before i, row i is zero: nothing changes there.
<1>4. ASSUME NEW j \in 0 .. i - 1, NEW r \in 0 .. n - 1
      PROVE  v[r][j] = w[r][j]
  <2>1. CASE r \in rows
    <3>1. j \in 0 .. n - 1 /\ i \in j .. n - 1 /\ i # j /\ j \in 0 .. l - 1 /\ i \in 0 .. l - 1
      OBVIOUS
    <3>2. w[i][j] = 0
      BY <3>1 DEF Reduced, Echelon
    <3>3. v[r][j] = add(w[r][j], mul(w[r][i], 0))
      BY <1>2, <2>1, <3>1, <3>2
    <3>4. w[r][j] \in Byte /\ w[r][i] \in Byte
      BY <3>1, MatrixShape
    <3>5. mul(w[r][i], 0) = 0 /\ add(w[r][j], 0) = w[r][j]
      BY <3>4, Products, Sums
    <3> QED
      BY <3>3, <3>5
  <2>2. CASE r \notin rows
    BY <1>2, <2>2
  <2> QED
    BY <2>1, <2>2
<1>5. ASSUME NEW r \in 0 .. n - 1
      PROVE  v[r][i] = IF r = i THEN 1 ELSE 0
  <2>1. i \in 0 .. l - 1 /\ i \in 0 .. n - 1 /\ i \in i .. n - 1
    OBVIOUS
  <2>2. w[i][i] = 1
    BY <2>1 DEF Reduced, Echelon
  <2>3. CASE r \in rows
    <3>1. v[r][i] = add(w[r][i], mul(w[r][i], 1)) /\ r # i
      BY <1>1, <1>2, <2>1, <2>2, <2>3
    <3>2. w[r][i] \in Byte
      BY <2>1, MatrixShape
    <3>3. mul(w[r][i], 1) = w[r][i] /\ add(w[r][i], w[r][i]) = 0
      BY <3>2, Products, Sums
    <3> QED
      BY <3>1, <3>3
  <2>4. CASE r \notin rows
    <3>1. v[r] = w[r] /\ r \in i .. n - 1
      BY <1>2, <2>4
    <3> QED
      BY <2>1, <3>1 DEF Reduced, Echelon
  <2> QED
    BY <2>3, <2>4
<1>6. Echelon(n, v, n)
  <2>1. ASSUME NEW j \in 0 .. n - 1, NEW r \in j .. n - 1
        PROVE  v[r][j] = IF r = j THEN 1 ELSE 0
    <3>1. r \in 0 .. n - 1
      OBVIOUS
    <3>2. CASE j < i
      <4>1. v[r][j] = w[r][j]
        BY <1>4, <3>1, <3>2
      <4> QED
        BY <4>1 DEF Reduced, Echelon
    <3>3. CASE j >= i
      <4>1. r \notin rows
        BY <3>3
      <4>2. v[r] = w[r]
        BY <1>2, <3>1, <4>1
      <4> QED
        BY <4>2 DEF Reduced, Echelon
    <3> QED
      BY <3>2, <3>3
  <2> QED
    BY <2>1 DEF Echelon
<1>7. ASSUME NEW j \in 0 .. (i + 1) - 1, NEW r \in 0 .. n - 1
      PROVE  v[r][j] = IF r = j THEN 1 ELSE 0
  <2>1. CASE j = i
    BY <1>5, <2>1
  <2>2. CASE j # i
    <3>1. j \in 0 .. i - 1
      BY <2>2
    <3> QED
      BY <1>4, <3>1 DEF Reduced
  <2> QED
    BY <2>1, <2>2
<1>8. Equivalent(n, l, v, w) /\ Reduced(n, v, i + 1)
  BY <1>3, <1>6, <1>7 DEF Reduced
<1> QED
  BY <1>8 DEF v, rows

DownSteps(mat) ==
  CHOOSE down : down = [r \in 0 .. Rows(mat) |->
    IF r = 0 THEN mat ELSE Eliminated(PivotedTo(down[r - 1], r - 1), r - 1)]

UpSteps(n, m) ==
  CHOOSE up : up = [r \in 0 .. n |->
    IF r = 0 THEN m ELSE Cleared(up[r - 1], 0 .. r - 2, r - 1)]

LEMMA EliminationIs ==
  ASSUME NEW mat
  PROVE  LET n == Rows(mat)
             down == DownSteps(mat)[n]
         IN gaussian_elim(mat) = IF down = Singular THEN Singular ELSE UpSteps(n, down)[n]
BY DEF gaussian_elim, DownSteps, UpSteps, PivotedTo

\* The way down ends at row i, with w: no row is left that has an element other
\* than zero in the next column.
IsStuck(n, l, mat, i, w) ==
  w \in Matrices(n, l) /\ Equivalent(n, l, w, mat) /\ Echelon(n, w, i) /\ Pivoted(w, i)[i][i] = 0

GetsStuck(n, l, mat) == \E i \in 0 .. n - 1 : \E w : IsStuck(n, l, mat, i, w)

\* On the way down, the rows remain combinations of each other's.
LEMMA WayDown ==
  ASSUME NEW n \in Nat \ {0}, NEW l \in Nat, n <= l, NEW mat \in Matrices(n, l),
         NEW v, v = DownSteps(mat)[n]
  PROVE  IF v = Singular THEN GetsStuck(n, l, mat)
         ELSE v \in Matrices(n, l) /\ Equivalent(n, l, v, mat) /\ Echelon(n, v, n)
<1> DEFINE S == Matrices(n, l) \cup {Singular}
           Step(w, i) == Eliminated(PivotedTo(w, i), i)
           g == [i \in 1 .. n |-> [w \in S |-> Step(w, i - 1)]]
           down == DownSteps(mat)
           Fine(i) == \/ down[i] = Singular /\ GetsStuck(n, l, mat)
                      \/ /\ down[i] \in Matrices(n, l) /\ Equivalent(n, l, down[i], mat)
                         /\ Echelon(n, down[i], i)
<1>1. ASSUME NEW w \in S, NEW i \in 0 .. n - 1
      PROVE  Step(w, i) \in S
  <2>1. CASE w = Singular
    BY <2>1 DEF PivotedTo, Eliminated
  <2>2. CASE w \in Matrices(n, l)
    BY <2>2, EliminatedIs
  <2> QED
    BY <2>1, <2>2
<1>2. \A i \in 1 .. n : i - 1 \in 0 .. n - 1
  OBVIOUS
<1> HIDE DEF Step, S
<1>3. g \in [1 .. n -> [S -> S]]
  BY <1>1, <1>2
<1>4. PICK f \in [0 .. n -> S] : IsRun(f, n, mat, g)
  <2> HIDE DEF g
  <2>1. mat \in S
    BY DEF S
  <2> QED
    BY <1>3, <2>1, RunExists
<1>5. f = [r \in 0 .. n |-> IF r = 0 THEN mat ELSE Step(f[r - 1], r - 1)]
  <2>1. ASSUME NEW r \in 0 .. n, r # 0
        PROVE  g[r][f[r - 1]] = Step(f[r - 1], r - 1)
    <3>1. r \in 1 .. n /\ r - 1 \in 0 .. n
      BY <2>1
    <3> QED
      BY <3>1
  <2> HIDE DEF g
  <2> QED
    BY <1>4, <2>1 DEF IsRun
<1>6. down = [r \in 0 .. n |-> IF r = 0 THEN mat ELSE Step(down[r - 1], r - 1)]
  <2>1. Rows(mat) = n
    BY MatrixShape
  <2> QED
    BY <1>5, <2>1 DEF DownSteps, Step
<1> HIDE DEF g, down
<1>7. down[0] = mat /\ \A i \in 0 .. n - 1 : down[i + 1] = Step(down[i], i)
  <2>1. \A i \in 0 .. n - 1 : i + 1 \in 0 .. n /\ i + 1 # 0 /\ (i + 1) - 1 = i
    OBVIOUS
  <2> QED
    BY <1>6, <2>1
<1> DEFINE good == {i \in 0 .. n : Fine(i)}
<1>8. 0 \in good
  <2>1. Echelon(n, mat, 0)
    BY DEF Echelon
  <2> QED
    BY <1>7, <2>1, EquivalentReflexive
<1>9. ASSUME NEW i \in 0 .. n - 1, i \in good
      PROVE  i + 1 \in good
  <2> DEFINE w == down[i]
             u == down[i + 1]
  <2>1. u = Eliminated(PivotedTo(w, i), i) /\ i + 1 \in 0 .. n
    BY <1>7 DEF Step
  <2>2. \/ w = Singular /\ GetsStuck(n, l, mat)
        \/ w \in Matrices(n, l) /\ Equivalent(n, l, w, mat) /\ Echelon(n, w, i)
    BY <1>9
  <2> HIDE DEF w, u
  <2>3. \/ u = Singular /\ GetsStuck(n, l, mat)
        \/ u \in Matrices(n, l) /\ Equivalent(n, l, u, mat) /\ Echelon(n, u, i + 1)
    <3>1. CASE w = Singular
      BY <2>1, <2>2, <3>1, SingularIsNone DEF PivotedTo, Eliminated
    <3>2. CASE w # Singular
      <4>1. w \in Matrices(n, l) /\ Equivalent(n, l, w, mat) /\ Echelon(n, w, i)
        BY <2>2, <3>2
      <4>2. \/ u = Singular /\ Pivoted(w, i)[i][i] = 0
            \/ /\ u \in Matrices(n, l) /\ Equivalent(n, l, u, w)
               /\ Echelon(n, u, i + 1)
        BY <2>1, <4>1, EliminatedIs
      <4>3. Pivoted(w, i)[i][i] = 0 => GetsStuck(n, l, mat)
        BY <4>1 DEF GetsStuck, IsStuck
      <4> QED
        BY <4>1, <4>2, <4>3, EquivalentTransitive
    <3> QED
      BY <3>1, <3>2
  <2> QED
    BY <2>1, <2>3 DEF u
<1> HIDE DEF good
<1>10. \A i \in 0 .. n : i \in good
  BY <1>8, <1>9, UpTo
<1>11. n \in good
  BY <1>10
<1> QED
  BY <1>11, SingularIsNone DEF good, down

\* On the way up, too.
LEMMA WayUp ==
  ASSUME NEW n \in Nat \ {0}, NEW l \in Nat, n <= l, NEW mat \in Matrices(n, l),
         Echelon(n, mat, n), NEW v, v = UpSteps(n, mat)[n]
  PROVE  Equivalent(n, l, v, mat) /\ Reduced(n, v, n)
<1> DEFINE S == Matrices(n, l)
           Step(w, i) == Cleared(w, 0 .. i - 1, i)
           g == [i \in 1 .. n |-> [w \in S |-> Step(w, i - 1)]]
           up == UpSteps(n, mat)
           Fine(i) == Equivalent(n, l, up[i], mat) /\ Reduced(n, up[i], i)
<1>1. ASSUME NEW w \in S, NEW i \in 0 .. n - 1
      PROVE  Step(w, i) \in S
  BY ClearedIs
<1>2. \A i \in 1 .. n : i - 1 \in 0 .. n - 1
  OBVIOUS
<1> HIDE DEF Step, S
<1>3. g \in [1 .. n -> [S -> S]]
  BY <1>1, <1>2
<1>4. PICK f \in [0 .. n -> S] : IsRun(f, n, mat, g)
  <2> HIDE DEF g
  <2>1. mat \in S
    BY DEF S
  <2> QED
    BY <1>3, <2>1, RunExists
<1>5. f = [r \in 0 .. n |-> IF r = 0 THEN mat ELSE Step(f[r - 1], r - 1)]
  <2>1. ASSUME NEW r \in 0 .. n, r # 0
        PROVE  g[r][f[r - 1]] = Step(f[r - 1], r - 1)
    <3>1. r \in 1 .. n /\ r - 1 \in 0 .. n
      BY <2>1
    <3> QED
      BY <3>1
  <2> HIDE DEF g
  <2> QED
    BY <1>4, <2>1 DEF IsRun
<1>6. up = [r \in 0 .. n |-> IF r = 0 THEN mat ELSE Step(up[r - 1], r - 1)]
  <2>1. \A r \in 0 .. n : (r - 1) - 1 = r - 2
    OBVIOUS
  <2>2. f = [r \in 0 .. n |-> IF r = 0 THEN mat ELSE Cleared(f[r - 1], 0 .. r - 2, r - 1)]
    BY <1>5, <2>1 DEF Step
  <2>3. up = [r \in 0 .. n |-> IF r = 0 THEN mat ELSE Cleared(up[r - 1], 0 .. r - 2, r - 1)]
    BY <2>2 DEF UpSteps
  <2> HIDE DEF up
  <2> QED
    BY <2>1, <2>3 DEF Step
<1> HIDE DEF g, up
<1>7. up[0] = mat /\ \A i \in 0 .. n - 1 : up[i + 1] = Step(up[i], i)
  <2>1. \A i \in 0 .. n - 1 : i + 1 \in 0 .. n /\ i + 1 # 0 /\ (i + 1) - 1 = i
    OBVIOUS
  <2> QED
    BY <1>6, <2>1
<1> DEFINE good == {i \in 0 .. n : Fine(i)}
<1>8. 0 \in good
  <2>1. Reduced(n, mat, 0)
    BY DEF Reduced
  <2> QED
    BY <1>7, <2>1, EquivalentReflexive
<1>9. ASSUME NEW i \in 0 .. n - 1, i \in good
      PROVE  i + 1 \in good
  <2> DEFINE w == up[i]
             u == up[i + 1]
  <2>1. u = Cleared(w, 0 .. i - 1, i) /\ i + 1 \in 0 .. n
    BY <1>7 DEF Step
  <2>2. Equivalent(n, l, w, mat) /\ Reduced(n, w, i)
    BY <1>9
  <2> HIDE DEF w, u
  <2>3. Equivalent(n, l, u, w) /\ Reduced(n, u, i + 1)
    BY <2>1, <2>2, ClearedAbove DEF Equivalent
  <2>4. Equivalent(n, l, u, mat)
    BY <2>2, <2>3, EquivalentTransitive
  <2> QED
    BY <2>1, <2>3, <2>4 DEF u
<1> HIDE DEF good
<1>10. \A i \in 0 .. n : i \in good
  BY <1>8, <1>9, UpTo
<1>11. n \in good
  BY <1>10
<1> QED
  BY <1>11 DEF good, up

LEMMA DotUnit ==
  ASSUME NEW n \in Nat, NEW x, IsVector(n, x), NEW e, NEW i \in 0 .. n - 1,
         \A k \in 0 .. n - 1 : e[k] = IF k = i THEN 1 ELSE 0
  PROVE  Dot(n, x, e) = x[i] /\ Dot(n, e, x) = x[i] /\ IsVector(n, e)
<1>1. IsVector(n, e)
  BY SmallBytes DEF IsVector
<1>2. x[i] \in Byte
  BY DEF IsVector
<1>3. \A k \in 0 .. n - 1 : mul(x[k], 0) = 0
  BY Products DEF IsVector
<1>4. \A k \in 0 .. n - 1 : k # i => mul(x[k], e[k]) = 0
  BY <1>3
<1>5. Dot(n, x, e) = mul(x[i], e[i])
  BY <1>1, <1>4, DotPick
<1>6. mul(x[i], 1) = x[i]
  BY <1>2, Products
<1>7. e[i] = 1
  OBVIOUS
<1>8. Dot(n, e, x) = Dot(n, x, e)
  BY <1>1, DotCommutes
<1> QED
  BY <1>1, <1>5, <1>6, <1>7, <1>8

LEMMA IdentityIs ==
  ASSUME NEW n \in Nat
  PROVE  /\ identity(n) \in Matrices(n, n)
         /\ \A r \in 0 .. n - 1 : \A c \in 0 .. n - 1 : identity(n)[r][c] = IF r = c THEN 1 ELSE 0
BY SmallBytes DEF identity, Matrices

LEMMA MultiplyIs ==
  ASSUME NEW h \in Nat, NEW n \in Nat \ {0}, NEW l \in Nat,
         NEW v \in Matrices(h, n), NEW w \in Matrices(n, l)
  PROVE  /\ multiply(v, w) \in Matrices(h, l)
         /\ \A r \in 0 .. h - 1 : \A c \in 0 .. l - 1 :
              multiply(v, w)[r][c] = Dot(n, v[r], Column(n, w, c))
<1>1. DOMAIN v = 0 .. h - 1 /\ DOMAIN w = 0 .. n - 1
  BY MatrixShape
<1>2. Rows(w) = n /\ Cols(w) = l
  BY MatrixShape
<1>3. multiply(v, w) =
        [r \in 0 .. h - 1 |-> [c \in 0 .. l - 1 |-> Dot(n, v[r], Column(n, w, c))]]
  BY <1>1, <1>2 DEF multiply, Column
<1>4. ASSUME NEW r \in 0 .. h - 1, NEW c \in 0 .. l - 1
      PROVE  Dot(n, v[r], Column(n, w, c)) \in Byte
  <2>1. IsVector(n, v[r]) /\ IsVector(n, Column(n, w, c))
    BY ColumnsAndRows
  <2> QED
    BY <2>1, DotInByte
<1> QED
  BY <1>3, <1>4 DEF Matrices

LEMMA ProductIs ==
  ASSUME NEW d \in Nat \ {0}, NEW v \in Matrices(d, d), NEW w \in Matrices(d, d)
  PROVE  \A r \in 0 .. d - 1 : \A c \in 0 .. d - 1 :
           multiply(v, w)[r][c] = Dot(d, v[r], Column(d, w, c))
<1>1. DOMAIN v = 0 .. d - 1 /\ DOMAIN w = 0 .. d - 1 /\ Rows(w) = d /\ Cols(w) = d
  BY MatrixShape
<1>2. multiply(v, w) =
        [r \in 0 .. d - 1 |-> [c \in 0 .. d - 1 |-> Dot(d, v[r], Column(d, w, c))]]
  BY <1>1 DEF multiply, Column
<1> QED
  BY <1>2

LEMMA AugmentIs ==
  ASSUME NEW n \in Nat \ {0}, NEW m \in Matrices(n, n)
  PROVE  LET W == augment(m, identity(n))
         IN /\ W \in Matrices(n, 2 * n)
            /\ \A r, c \in 0 .. n - 1 : /\ W[r][c] = m[r][c]
                                        /\ W[r][n + c] = IF r = c THEN 1 ELSE 0
<1> DEFINE W == augment(m, identity(n))
<1>1. /\ DOMAIN m = 0 .. n - 1 /\ Cols(m) = n
      /\ \A r, c \in 0 .. n - 1 : m[r][c] \in Byte
  BY MatrixShape
<1>2. /\ identity(n) \in Matrices(n, n)
      /\ \A r, c \in 0 .. n - 1 : identity(n)[r][c] = IF r = c THEN 1 ELSE 0
  BY IdentityIs
<1>3. Cols(identity(n)) = n
  BY <1>2, MatrixShape
<1>4. n + n - 1 = 2 * n - 1
  OBVIOUS
<1>5. W = [r \in 0 .. n - 1 |-> [c \in 0 .. 2 * n - 1 |->
             IF c < n THEN m[r][c] ELSE identity(n)[r][c - n]]]
  BY <1>1, <1>3, <1>4 DEF augment
<1>6. ASSUME NEW r \in 0 .. n - 1, NEW c \in 0 .. 2 * n - 1
      PROVE  (IF c < n THEN m[r][c] ELSE identity(n)[r][c - n]) \in Byte
  <2>1. CASE c < n
    <3>1. c \in 0 .. n - 1
      BY <2>1
    <3> QED
      BY <1>1, <2>1, <3>1
  <2>2. CASE ~(c < n)
    <3>1. c - n \in 0 .. n - 1
      BY <2>2
    <3> QED
      BY <1>2, <2>2, <3>1, SmallBytes
  <2> QED
    BY <2>1, <2>2
<1>7. W \in Matrices(n, 2 * n)
  <2> DEFINE Entry(r, c) == IF c < n THEN m[r][c] ELSE identity(n)[r][c - n]
             width == 0 .. 2 * n - 1
  <2>1. W = [r \in 0 .. n - 1 |-> [c \in width |-> Entry(r, c)]]
    BY <1>5
  <2>2. \A r \in 0 .. n - 1 : \A c \in width : Entry(r, c) \in Byte
    BY <1>6
  <2> HIDE DEF W, Entry
  <2>3. W \in [0 .. n - 1 -> [width -> Byte]]
    <3> HIDE DEF width
    <3> QED
      BY ONLY <2>1, <2>2
  <2> QED
    BY <2>3 DEF Matrices
<1>8. ASSUME NEW r \in 0 .. n - 1, NEW c \in 0 .. n - 1
      PROVE  W[r][c] = m[r][c] /\ W[r][n + c] = IF r = c THEN 1 ELSE 0
  <2>1. /\ c \in 0 .. 2 * n - 1 /\ n + c \in 0 .. 2 * n - 1
        /\ c < n /\ ~(n + c < n) /\ (n + c) - n = c
    OBVIOUS
  <2> HIDE DEF W
  <2> QED
    BY <1>2, <1>5, <2>1
<1> QED
  BY <1>7, <1>8

\* What invert (matrix.rs) returns without an error is an inverse, from the
\* left and from the right, of a matrix of any size.
THEOREM InvertInverts ==
  ASSUME NEW n \in Nat \ {0}, NEW m \in Matrices(n, n), invert(m) # Singular
  PROVE  /\ invert(m) \in Matrices(n, n)
         /\ multiply(invert(m), m) = identity(n)
         /\ multiply(m, invert(m)) = identity(n)
<1> DEFINE W == augment(m, identity(n))
           down == DownSteps(W)[n]
           work == UpSteps(n, down)[n]
           B == invert(m)
           l == 2 * n
<1>0. Rows(m) = n /\ n <= l /\ l \in Nat /\ n \in Nat
  BY MatrixShape
<1>1. /\ W \in Matrices(n, l)
      /\ \A r, c \in 0 .. n - 1 : W[r][c] = m[r][c] /\ W[r][n + c] = IF r = c THEN 1 ELSE 0
  BY AugmentIs
<1>2. Rows(W) = n
  BY <1>0, <1>1, MatrixShape
<1>3. /\ gaussian_elim(W) = IF down = Singular THEN Singular ELSE work
      /\ B = IF gaussian_elim(W) = Singular THEN Singular
             ELSE sub_matrix(gaussian_elim(W), 0, n, n, 2 * n)
  BY <1>0, <1>2, EliminationIs DEF invert
<1>4. down # Singular /\ B = sub_matrix(work, 0, n, n, 2 * n)
  BY <1>3
<1> HIDE DEF W, B, l
<1>5. down \in Matrices(n, l) /\ Equivalent(n, l, down, W) /\ Echelon(n, down, n)
  <2> HIDE DEF down
  <2> QED
    BY <1>0, <1>1, <1>4, WayDown DEF down
<1>6. Equivalent(n, l, work, down) /\ Reduced(n, work, n)
  <2> HIDE DEF down
  <2> QED
    BY <1>0, <1>5, WayUp
<1> HIDE DEF down, work
<1>7. Equivalent(n, l, work, W) /\ work \in Matrices(n, l)
  BY <1>0, <1>5, <1>6, EquivalentTransitive DEF Equivalent
<1>8. \A r, c \in 0 .. n - 1 : work[r][c] = IF r = c THEN 1 ELSE 0
  BY <1>6 DEF Reduced
<1>9. B = [r \in 0 .. n - 1 |-> [c \in 0 .. n - 1 |-> work[r][n + c]]]
  <2>1. /\ n - 0 - 1 = n - 1 /\ 2 * n - n - 1 = n - 1
        /\ \A r \in 0 .. n - 1 : 0 + r = r
    OBVIOUS
  <2> QED
    BY <1>4, <2>1 DEF sub_matrix
<1>i. \A c \in 0 .. n - 1 : c \in 0 .. l - 1 /\ n + c \in 0 .. l - 1
  BY DEF l
<1>10. B \in Matrices(n, n) /\ \A r, c \in 0 .. n - 1 : B[r][c] = work[r][n + c]
  <2>1. \A r, c \in 0 .. n - 1 : work[r][n + c] \in Byte
    BY <1>0, <1>7, <1>i, MatrixShape
  <2> QED
    BY <1>9, <2>1 DEF Matrices
\* The identity, next to B, is made of m, next to the identity.
<1>11. multiply(B, m) = identity(n)
  <2>1. PICK C \in Matrices(n, n) :
          \A r \in 0 .. n - 1 : \A c \in 0 .. l - 1 : work[r][c] = Dot(n, C[r], Column(n, W, c))
    BY <1>7 DEF Equivalent, IsOf
  <2>2. ASSUME NEW r \in 0 .. n - 1, NEW c \in 0 .. n - 1
        PROVE  B[r][c] = C[r][c]
    <3>1. IsVector(n, C[r])
      BY <1>0, ColumnsAndRows
    <3> DEFINE e == Column(n, W, n + c)
    <3>2. \A k \in 0 .. n - 1 : e[k] = IF k = c THEN 1 ELSE 0
      BY <1>1 DEF Column
    <3> HIDE DEF e
    <3>3. Dot(n, C[r], e) = C[r][c]
      BY <1>0, <3>1, <3>2, DotUnit
    <3>4. work[r][n + c] = Dot(n, C[r], e)
      BY <1>i, <2>1 DEF e
    <3> QED
      BY <1>10, <3>3, <3>4
  <2>3. B = C
    <3>1. n \in Nat /\ B \in Matrices(n, n) /\ C \in Matrices(n, n)
      BY <1>0, <1>10
    <3> QED
      BY ONLY <2>2, <3>1, SameMatrices
  <2>4. ASSUME NEW r \in 0 .. n - 1, NEW c \in 0 .. n - 1
        PROVE  multiply(B, m)[r][c] = identity(n)[r][c]
    <3>1. multiply(B, m)[r][c] = Dot(n, B[r], Column(n, m, c))
      BY <1>0, <1>10, MultiplyIs
    <3>2. Column(n, W, c) = Column(n, m, c)
      BY <1>1 DEF Column
    <3>3. work[r][c] = Dot(n, C[r], Column(n, W, c))
      BY <1>i, <2>1
    <3>4. identity(n)[r][c] = IF r = c THEN 1 ELSE 0
      BY <1>0, IdentityIs
    <3> QED
      BY <1>8, <2>3, <3>1, <3>2, <3>3, <3>4
  <2>5. multiply(B, m) \in Matrices(n, n) /\ identity(n) \in Matrices(n, n)
    BY <1>0, <1>10, MultiplyIs, IdentityIs
  <2> QED
    BY <1>0, <2>4, <2>5, SameMatrices
\* And the other way round.
<1>12. multiply(m, B) = identity(n)
  <2>1. PICK C \in Matrices(n, n) :
          \A r \in 0 .. n - 1 : \A c \in 0 .. l - 1 : W[r][c] = Dot(n, C[r], Column(n, work, c))
    BY <1>7 DEF Equivalent, IsOf
  <2>2. ASSUME NEW r \in 0 .. n - 1, NEW c \in 0 .. n - 1
        PROVE  m[r][c] = C[r][c]
    <3>1. IsVector(n, C[r])
      BY <1>0, ColumnsAndRows
    <3> DEFINE e == Column(n, work, c)
    <3>2. \A k \in 0 .. n - 1 : e[k] = IF k = c THEN 1 ELSE 0
      BY <1>8 DEF Column
    <3> HIDE DEF e
    <3>3. Dot(n, C[r], e) = C[r][c]
      BY <1>0, <3>1, <3>2, DotUnit
    <3>4. W[r][c] = Dot(n, C[r], e)
      BY <1>i, <2>1 DEF e
    <3> QED
      BY <1>1, <3>3, <3>4
  <2>3. m = C
    BY <1>0, <2>2, SameMatrices
  <2>4. ASSUME NEW r \in 0 .. n - 1, NEW c \in 0 .. n - 1
        PROVE  multiply(m, B)[r][c] = identity(n)[r][c]
    <3>1. multiply(m, B)[r][c] = Dot(n, m[r], Column(n, B, c))
      BY <1>0, <1>10, MultiplyIs
    <3>2. Column(n, work, n + c) = Column(n, B, c)
      BY <1>10 DEF Column
    <3>3. W[r][n + c] = Dot(n, C[r], Column(n, work, n + c))
      BY <1>i, <2>1
    <3>4. identity(n)[r][c] = IF r = c THEN 1 ELSE 0
      BY <1>0, IdentityIs
    <3> QED
      BY <1>1, <2>3, <3>1, <3>2, <3>3, <3>4
  <2>5. multiply(m, B) \in Matrices(n, n) /\ identity(n) \in Matrices(n, n)
    BY <1>0, <1>10, MultiplyIs, IdentityIs
  <2> QED
    BY <1>0, <2>4, <2>5, SameMatrices
<1> QED
  BY <1>10, <1>11, <1>12 DEF B

(* ------------------------- the encoding matrices ------------------------- *)

\* A matrix with the identity on top.
IsSystematic(E, d, total) ==
  /\ E \in Matrices(total, d)
  /\ \A r, c \in 0 .. d - 1 : E[r][c] = IF r = c THEN 1 ELSE 0

LEMMA NthIs == \A n \in Nat : nth(n) \in Byte
BY BytesAre DEF nth, FIELD_SIZE

LEMMA ExpIs ==
  ASSUME NEW x \in Byte, NEW n \in Nat
  PROVE  exp(x, n) \in Byte
<1>1. CASE n = 0
  BY <1>1, SmallBytes DEF exp
<1>2. CASE n # 0 /\ x = 0
  BY <1>2, SmallBytes DEF exp
<1>3. CASE n # 0 /\ x # 0
  <2>1. PICK i \in 0 .. 254 : i = LOG_TABLE[x]
    BY <1>3, Logarithms DEF NonZero
  <2>2. i * n \in Nat
    OBVIOUS
  <2>3. \A y \in Nat : y % 255 \in 0 .. 254
    OBVIOUS
  <2>4. (i * n) % 255 \in 0 .. 254
    BY ONLY <2>2, <2>3
  <2>5. exp(x, n) = EXP_TABLE[(i * n) % 255]
    BY <1>3, <2>1 DEF exp
  <2>6. \A e \in 0 .. 254 : EXP_TABLE[e] \in Byte
    BY TablesAssumption
  <2> QED
    BY <2>4, <2>5, <2>6
<1> QED
  BY <1>1, <1>2, <1>3

LEMMA VandermondeIs ==
  ASSUME NEW d \in Nat, NEW total \in Nat
  PROVE  vandermonde(total, d) \in Matrices(total, d)
<1>1. ASSUME NEW r \in 0 .. total - 1, NEW c \in 0 .. d - 1
      PROVE  exp(nth(r), c) \in Byte
  <2>1. r \in Nat /\ c \in Nat
    OBVIOUS
  <2> QED
    BY <2>1, NthIs, ExpIs
<1> QED
  BY <1>1 DEF vandermonde, Matrices

LEMMA VandermondeSystematic ==
  ASSUME NEW d \in Nat \ {0}, NEW total \in Nat, d <= total,
         NEW E, E = build_matrix(d, total), E # InvalidCustomMatrix
  PROVE  IsSystematic(E, d, total)
<1> DEFINE v == vandermonde(total, d)
           top == sub_matrix(v, 0, 0, d, d)
           B == invert(top)
<1>1. v \in Matrices(total, d)
  BY VandermondeIs
<1>2. E = multiply(v, B) /\ B # Singular
  BY DEF build_matrix, Systematic
<1>3. top = [r \in 0 .. d - 1 |-> [c \in 0 .. d - 1 |-> v[r][c]]]
  <2>1. d - 0 - 1 = d - 1 /\ \A r \in 0 .. d - 1 : 0 + r = r
    OBVIOUS
  <2> HIDE DEF v
  <2> QED
    BY <2>1 DEF sub_matrix
<1> HIDE DEF v, top, B
<1>4. /\ top \in Matrices(d, d)
      /\ \A r, c \in 0 .. d - 1 : top[r][c] = v[r][c]
  <2>1. \A r \in 0 .. d - 1 : r \in 0 .. total - 1
    OBVIOUS
  <2>2. \A r, c \in 0 .. d - 1 : v[r][c] \in Byte
    BY <1>1, <2>1, MatrixShape
  <2> QED
    BY <1>3, <2>2 DEF Matrices
<1>5. B \in Matrices(d, d) /\ multiply(top, B) = identity(d)
  BY <1>2, <1>4, InvertInverts DEF B
<1>6. E \in Matrices(total, d)
  BY <1>1, <1>2, <1>5, MultiplyIs
<1>7. ASSUME NEW r \in 0 .. d - 1, NEW c \in 0 .. d - 1
      PROVE  E[r][c] = IF r = c THEN 1 ELSE 0
  <2>1. r \in 0 .. total - 1
    OBVIOUS
  <2>2. E[r][c] = Dot(d, v[r], Column(d, B, c))
    BY <1>1, <1>2, <1>5, <2>1, MultiplyIs, SMTT(30)
  <2>3. multiply(top, B)[r][c] = Dot(d, top[r], Column(d, B, c))
    <3>1. d \in Nat \ {0} /\ top \in Matrices(d, d) /\ B \in Matrices(d, d)
      BY <1>4, <1>5
    <3>2. \A i \in 0 .. d - 1 : \A j \in 0 .. d - 1 :
            multiply(top, B)[i][j] = Dot(d, top[i], Column(d, B, j))
      BY ONLY <3>1, ProductIs
    <3> QED
      BY <3>2
  <2>4. Dot(d, v[r], Column(d, B, c)) = Dot(d, top[r], Column(d, B, c))
    <3>1. IsVector(d, top[r]) /\ IsVector(d, Column(d, B, c))
      BY <1>4, <1>5, ColumnsAndRows
    <3>2. \A k \in 0 .. d - 1 : v[r][k] = top[r][k]
      BY <1>4
    <3> DEFINE col == Column(d, B, c)
    <3>3. Dot(d, v[r], col) = Dot(d, top[r], col)
      <4> HIDE DEF col
      <4>1. IsVector(d, col)
        BY <3>1 DEF col
      <4> QED
        BY <3>1, <3>2, <4>1, DotSame
    <3> QED
      BY <3>3
  <2>5. identity(d)[r][c] = IF r = c THEN 1 ELSE 0
    BY IdentityIs
  <2> QED
    BY <1>5, <2>2, <2>3, <2>4, <2>5
<1> QED
  BY <1>6, <1>7 DEF IsSystematic

LEMMA CauchySystematic ==
  ASSUME NEW d \in Nat \ {0}, NEW total \in Nat, d <= total,
         NEW E, E = build_cauchy_matrix(d, total), E # InvalidCustomMatrix
  PROVE  IsSystematic(E, d, total)
<1> DEFINE Entry(r, c) == div(1, add(nth(r), nth(c)))
           row(r) == IF r < d THEN identity(d)[r] ELSE [c \in 0 .. d - 1 |-> Entry(r, c)]
<1>1. E = [r \in 0 .. total - 1 |-> row(r)]
  BY DEF build_cauchy_matrix
<1>2. ASSUME NEW r \in 0 .. total - 1, NEW c \in 0 .. d - 1
      PROVE  Entry(r, c) \in Byte
  <2>1. nth(r) \in Byte /\ nth(c) \in Byte
    BY NthIs
  <2> QED
    BY <2>1, SmallBytes, Sums, Quotients
<1>3. identity(d) \in Matrices(d, d)
  BY IdentityIs
<1> HIDE DEF Entry
<1>4. ASSUME NEW r \in 0 .. total - 1
      PROVE  row(r) \in [0 .. d - 1 -> Byte]
  <2>1. r < d => r \in 0 .. d - 1
    OBVIOUS
  <2> QED
    BY <1>2, <1>3, <2>1, MatrixShape
<1>5. ASSUME NEW r \in 0 .. d - 1, NEW c \in 0 .. d - 1
      PROVE  E[r][c] = IF r = c THEN 1 ELSE 0
  <2>1. r \in 0 .. total - 1 /\ r < d
    OBVIOUS
  <2> QED
    BY <1>1, <2>1, IdentityIs
<1> HIDE DEF row
<1>6. E \in Matrices(total, d)
  BY <1>1, <1>4 DEF Matrices
<1> QED
  BY <1>5, <1>6 DEF IsSystematic

\* The rows that build_custom_matrix is given.
AreRows(custom) ==
  /\ IsFiniteSet(DOMAIN custom) /\ DOMAIN custom = 0 .. Rows(custom) - 1
  /\ \A r \in DOMAIN custom :
       LET row == custom[r]
       IN /\ IsFiniteSet(DOMAIN row)
          /\ DOMAIN row = 0 .. Cardinality(DOMAIN row) - 1
          /\ \A k \in DOMAIN row : row[k] \in Byte

LEMMA CustomSystematic ==
  ASSUME NEW d \in Nat \ {0}, NEW total \in Nat, d <= total, NEW custom, AreRows(custom),
         NEW E, E = build_custom_matrix(d, total, custom), E # InvalidCustomMatrix
  PROVE  IsSystematic(E, d, total)
<1> DEFINE row(r) == IF r < d THEN identity(d)[r] ELSE [c \in 0 .. d - 1 |-> custom[r - d][c]]
<1>1. /\ E = [r \in 0 .. total - 1 |-> row(r)]
      /\ \A r \in 0 .. total - d - 1 : ~(Cardinality(DOMAIN custom[r]) < d)
  BY DEF build_custom_matrix
<1>2. Rows(custom) \in Nat
  BY FS_CardinalityType DEF AreRows, Rows
<1>3. ASSUME NEW r \in d .. total - 1, NEW c \in 0 .. d - 1
      PROVE  custom[r - d][c] \in Byte
  <2>1. PICK i \in 0 .. total - d - 1 : i = r - d
    OBVIOUS
  <2>2. ~(Rows(custom) < total - d)
    BY <1>2 DEF build_custom_matrix
  <2>3. i \in DOMAIN custom
    BY <1>2, <2>2 DEF AreRows
  <2> DEFINE given == custom[i]
             len == Cardinality(DOMAIN given)
  <2>4. /\ IsFiniteSet(DOMAIN given) /\ DOMAIN given = 0 .. len - 1
        /\ \A k \in DOMAIN given : given[k] \in Byte
    BY <2>3 DEF AreRows
  <2>5. ~(len < d)
    BY <1>1
  <2> HIDE DEF given
  <2>6. len \in Nat
    BY <2>4, FS_CardinalityType
  <2> HIDE DEF len
  <2>7. c \in DOMAIN given
    BY <2>4, <2>5, <2>6
  <2> QED
    BY <2>1, <2>4, <2>7 DEF given
<1>4. identity(d) \in Matrices(d, d)
  BY IdentityIs
<1>5. ASSUME NEW r \in 0 .. total - 1
      PROVE  row(r) \in [0 .. d - 1 -> Byte]
  <2>1. CASE r < d
    <3>1. r \in 0 .. d - 1
      BY <2>1
    <3> QED
      BY <1>4, <2>1, <3>1, MatrixShape
  <2>2. CASE ~(r < d)
    <3>1. r \in d .. total - 1
      BY <2>2
    <3> QED
      BY <1>3, <2>2, <3>1
  <2> QED
    BY <2>1, <2>2
<1>6. ASSUME NEW r \in 0 .. d - 1, NEW c \in 0 .. d - 1
      PROVE  E[r][c] = IF r = c THEN 1 ELSE 0
  <2>1. r \in 0 .. total - 1 /\ r < d
    OBVIOUS
  <2> QED
    BY <1>1, <2>1, IdentityIs
<1> HIDE DEF row
<1>7. E \in Matrices(total, d)
  BY <1>1, <1>5 DEF Matrices
<1> QED
  BY <1>6, <1>7 DEF IsSystematic

\* The first i rows are those of the identity.
TopIs(m, i, d) == \A r \in 0 .. i - 1 : \A c \in 0 .. d - 1 : m[r][c] = IF r = c THEN 1 ELSE 0

LEMMA IdentityAtIs ==
  ASSUME NEW d \in Nat, NEW total \in Nat, d <= total, NEW m \in Matrices(total, d),
         NEW i \in 0 .. d - 1, m[i][i] # 0
  PROVE  /\ IdentityAt(m, i) \in Matrices(total, d)
         /\ TopIs(m, i, d) => TopIs(IdentityAt(m, i), i + 1, d)
<1> DEFINE one == div(1, m[i][i])
           scaled == [r \in 0 .. total - 1 |-> mul(m[r][i], one)]
           Entry(r, j) == IF j = i THEN scaled[r] ELSE add(m[r][j], mul(m[i][j], scaled[r]))
           E == IdentityAt(m, i)
<1>1. /\ DOMAIN m = 0 .. total - 1
      /\ \A r \in 0 .. total - 1 : DOMAIN m[r] = 0 .. d - 1 /\ \A c \in 0 .. d - 1 : m[r][c] \in Byte
  BY MatrixShape
<1>2. E = [r \in 0 .. total - 1 |-> [j \in 0 .. d - 1 |-> Entry(r, j)]]
  BY <1>1 DEF IdentityAt
<1>i. i \in 0 .. total - 1
  OBVIOUS
<1>3. one \in Byte /\ mul(m[i][i], one) = 1
  BY <1>1, <1>i, Inverses
<1> HIDE DEF one
<1>4. ASSUME NEW r \in 0 .. total - 1
      PROVE  scaled[r] \in Byte /\ scaled[r] = mul(m[r][i], one)
  BY <1>1, <1>3, Products
<1>5. ASSUME NEW r \in 0 .. total - 1, NEW j \in 0 .. d - 1
      PROVE  Entry(r, j) \in Byte
  <2>1. mul(m[i][j], scaled[r]) \in Byte
    BY <1>1, <1>4, <1>i, Products
  <2> QED
    BY <1>1, <1>4, <2>1, Sums
<1> HIDE DEF scaled, E
<1>6. E \in Matrices(total, d)
  <2> HIDE DEF Entry
  <2> QED
    BY <1>2, <1>5 DEF Matrices
<1>7. ASSUME TopIs(m, i, d), NEW r \in 0 .. i, NEW c \in 0 .. d - 1
      PROVE  E[r][c] = IF r = c THEN 1 ELSE 0
  <2>1. r \in 0 .. total - 1 /\ E[r][c] = Entry(r, c)
    BY <1>2
  <2>2. m[r][c] \in Byte /\ m[i][c] \in Byte
    BY <1>1, <1>i, <2>1
  <2>3. CASE r = i
    <3>1. scaled[r] = 1
      BY <1>3, <1>4, <2>1, <2>3
    <3>2. CASE c = i
      BY <2>1, <2>3, <3>1, <3>2
    <3>3. CASE c # i
      <4>1. mul(m[i][c], 1) = m[i][c] /\ add(m[i][c], m[i][c]) = 0
        BY <2>2, Products, Sums
      <4> QED
        BY <2>1, <2>3, <3>1, <3>3, <4>1
    <3> QED
      BY <3>2, <3>3
  <2>4. CASE r # i
    <3>1. r \in 0 .. i - 1 /\ i # r
      BY <2>4
    <3>2. m[r][i] = 0 /\ m[r][c] = IF r = c THEN 1 ELSE 0
      BY <1>7, <3>1 DEF TopIs
    <3>3. scaled[r] = 0
      BY <1>3, <1>4, <2>1, <3>2, Products
    <3>4. CASE c = i
      BY <2>1, <2>4, <3>3, <3>4
    <3>5. CASE c # i
      <4>1. mul(m[i][c], 0) = 0 /\ add(m[r][c], 0) = m[r][c]
        BY <2>2, Products, Sums
      <4> QED
        BY <2>1, <3>2, <3>3, <3>5, <4>1
    <3> QED
      BY <3>4, <3>5
  <2> QED
    BY <2>3, <2>4
<1>8. \A r \in 0 .. (i + 1) - 1 : r \in 0 .. i
  OBVIOUS
<1>9. TopIs(m, i, d) => TopIs(E, i + 1, d)
  BY <1>7, <1>8 DEF TopIs
<1> QED
  BY <1>6, <1>9 DEF E

LEMMA PivotedTop ==
  ASSUME NEW d \in Nat, NEW total \in Nat, d <= total, NEW m \in Matrices(total, d),
         NEW i \in 0 .. d - 1
  PROVE  /\ Pivoted(m, i) \in Matrices(total, d)
         /\ TopIs(m, i, d) => TopIs(Pivoted(m, i), i, d)
<1>i. i \in 0 .. total - 1
  OBVIOUS
<1>1. CASE Pivoted(m, i) = m
  BY <1>1
<1>2. ASSUME NEW k \in i .. total - 1, Pivoted(m, i) = swap_rows(m, i, k)
      PROVE  /\ Pivoted(m, i) \in Matrices(total, d)
             /\ TopIs(m, i, d) => TopIs(Pivoted(m, i), i, d)
  <2>1. k \in 0 .. total - 1 /\ \A r \in 0 .. i - 1 : r \in 0 .. total - 1 /\ r # i /\ r # k
    OBVIOUS
  <2>2. /\ swap_rows(m, i, k) \in Matrices(total, d)
        /\ \A r \in 0 .. i - 1 : swap_rows(m, i, k)[r] = m[r]
    BY <1>i, <2>1, SwapIs
  <2> QED
    BY <1>2, <2>2 DEF TopIs
<1> QED
  BY <1>1, <1>2, <1>i, PivotedIs

IdentityTo(m, i) ==
  IF m = InvalidCustomMatrix \/ m[i][i] = 0 THEN InvalidCustomMatrix ELSE IdentityAt(m, i)

TopSteps(d, total) ==
  CHOOSE top : top = [i \in 0 .. d |->
    IF i = 0 THEN ExtendedVandermonde(d, total)
    ELSE IdentityTo(PivotedTo(top[i - 1], i - 1), i - 1)]

LEMMA JerasureLikeIs ==
  ASSUME NEW d, NEW total
  PROVE  build_jerasure_like_matrix(d, total)
           = FirstColumnOnes(FirstRowOnes(TopSteps(d, total)[d], d), d)
BY DEF build_jerasure_like_matrix, TopSteps, IdentityTo, PivotedTo, InvalidCustomMatrix, Singular

LEMMA ExtendedIs ==
  ASSUME NEW d \in Nat \ {0}, NEW total \in Nat
  PROVE  ExtendedVandermonde(d, total) \in Matrices(total, d)
<1> DEFINE row(r) == CASE r = total - 1 -> [c \in 0 .. d - 1 |-> IF c = d - 1 THEN 1 ELSE 0]
                       [] r # total - 1 /\ r = 0 -> [c \in 0 .. d - 1 |-> IF c = 0 THEN 1 ELSE 0]
                       [] OTHER -> vandermonde(total, d)[r]
<1>1. ASSUME NEW r \in 0 .. total - 1
      PROVE  row(r) \in [0 .. d - 1 -> Byte]
  <2>1. CASE r = total - 1
    BY <2>1, SmallBytes
  <2>2. CASE r # total - 1 /\ r = 0
    BY <2>2, SmallBytes
  <2>3. CASE r # total - 1 /\ r # 0
    <3>1. vandermonde(total, d)[r] \in [0 .. d - 1 -> Byte]
      BY VandermondeIs DEF Matrices
    <3> QED
      BY <2>3, <3>1
  <2> QED
    BY <2>1, <2>2, <2>3
<1>2. ExtendedVandermonde(d, total) = [r \in 0 .. total - 1 |-> row(r)]
  BY DEF ExtendedVandermonde
<1> HIDE DEF row
<1> QED
  BY <1>1, <1>2 DEF Matrices

LEMMA TopStepIs ==
  ASSUME NEW d \in Nat \ {0}, NEW total \in Nat, d <= total, NEW i \in 0 .. d - 1,
         NEW w \in Matrices(total, d) \cup {InvalidCustomMatrix}, NEW v, v = IdentityTo(PivotedTo(w, i), i)
  PROVE  /\ v \in Matrices(total, d) \cup {InvalidCustomMatrix}
         /\ v # InvalidCustomMatrix => /\ w # InvalidCustomMatrix
                                       /\ TopIs(w, i, d) => TopIs(v, i + 1, d)
<1>s. Singular = InvalidCustomMatrix
  BY DEF Singular, InvalidCustomMatrix
<1>1. CASE w = InvalidCustomMatrix
  BY <1>s, <1>1 DEF IdentityTo, PivotedTo
<1>2. CASE w \in Matrices(total, d) /\ w # InvalidCustomMatrix
  <2> DEFINE p == Pivoted(w, i)
  <2>1. p \in Matrices(total, d) /\ (TopIs(w, i, d) => TopIs(p, i, d))
    BY <1>2, PivotedTop
  <2>2. v = IdentityTo(p, i)
    BY <1>s, <1>2 DEF PivotedTo
  <2> HIDE DEF p
  <2>3. CASE p = InvalidCustomMatrix \/ p[i][i] = 0
    BY <2>2, <2>3 DEF IdentityTo
  <2>4. CASE ~(p = InvalidCustomMatrix \/ p[i][i] = 0)
    <3>1. v = IdentityAt(p, i) /\ p[i][i] # 0
      BY <2>2, <2>4 DEF IdentityTo
    <3>2. v \in Matrices(total, d) /\ (TopIs(p, i, d) => TopIs(v, i + 1, d))
      BY <2>1, <3>1, IdentityAtIs
    <3> QED
      BY <1>2, <2>1, <3>2
  <2> QED
    BY <2>3, <2>4
<1> QED
  BY <1>1, <1>2

LEMMA TopStepsRun ==
  ASSUME NEW d \in Nat \ {0}, NEW total \in Nat, d <= total,
         NEW top, top = TopSteps(d, total)
  PROVE  /\ top[0] = ExtendedVandermonde(d, total)
         /\ \A i \in 0 .. d - 1 : top[i + 1] = IdentityTo(PivotedTo(top[i], i), i)
         /\ \A i \in 0 .. d : top[i] \in Matrices(total, d) \cup {InvalidCustomMatrix}
<1> DEFINE S == Matrices(total, d) \cup {InvalidCustomMatrix}
           Step(w, i) == IdentityTo(PivotedTo(w, i), i)
           g == [i \in 1 .. d |-> [w \in S |-> Step(w, i - 1)]]
           start == ExtendedVandermonde(d, total)
<1>1. ASSUME NEW w \in S, NEW i \in 0 .. d - 1
      PROVE  Step(w, i) \in S
  BY TopStepIs
<1>2. \A i \in 1 .. d : i - 1 \in 0 .. d - 1
  OBVIOUS
<1>u. start \in S
  BY ExtendedIs
<1> HIDE DEF Step, start
<1>3. g \in [1 .. d -> [S -> S]]
  <2> HIDE DEF S
  <2> QED
    BY <1>1, <1>2
<1>4. PICK f \in [0 .. d -> S] : IsRun(f, d, start, g)
  <2> HIDE DEF g, S
  <2> QED
    BY <1>3, <1>u, RunExists
<1>5. f = [i \in 0 .. d |-> IF i = 0 THEN start ELSE Step(f[i - 1], i - 1)]
  <2> HIDE DEF S
  <2>1. ASSUME NEW i \in 0 .. d, i # 0
        PROVE  g[i][f[i - 1]] = Step(f[i - 1], i - 1)
    <3>1. i \in 1 .. d /\ i - 1 \in 0 .. d
      BY <2>1
    <3> QED
      BY <3>1
  <2> HIDE DEF g
  <2> QED
    BY <1>4, <2>1 DEF IsRun
<1>6. top = [i \in 0 .. d |-> IF i = 0 THEN start ELSE Step(top[i - 1], i - 1)]
  BY <1>5 DEF TopSteps, Step, start
<1> HIDE DEF g
<1>7. top[0] = start /\ \A i \in 0 .. d - 1 : top[i + 1] = Step(top[i], i)
  <2>1. \A i \in 0 .. d - 1 : i + 1 \in 0 .. d /\ i + 1 # 0 /\ (i + 1) - 1 = i
    OBVIOUS
  <2>2. 0 \in 0 .. d
    OBVIOUS
  <2>3. top[0] = start
    BY ONLY <1>6, <2>2
  <2>4. ASSUME NEW i \in 0 .. d - 1
        PROVE  top[i + 1] = Step(top[i], i)
    <3>1. i + 1 \in 0 .. d /\ i + 1 # 0 /\ (i + 1) - 1 = i
      BY <2>1
    <3>2. top[i + 1] = Step(top[(i + 1) - 1], (i + 1) - 1)
      BY ONLY <1>6, <3>1
    <3> QED
      BY ONLY <3>1, <3>2
  <2> QED
    BY <2>3, <2>4
<1> DEFINE good == {i \in 0 .. d : top[i] \in S}
<1> HIDE DEF S
<1>8. 0 \in good
  BY <1>7, <1>u
<1>9. ASSUME NEW i \in 0 .. d - 1, i \in good
      PROVE  i + 1 \in good
  <2>1. i + 1 \in 0 .. d
    OBVIOUS
  <2> QED
    BY <1>1, <1>7, <1>9, <2>1
<1> HIDE DEF good
<1>10. \A i \in 0 .. d : i \in good
  BY <1>8, <1>9, UpTo
<1> QED
  BY <1>7, <1>10 DEF good, start, Step, S

LEMMA TopStepsAre ==
  ASSUME NEW d \in Nat \ {0}, NEW total \in Nat, d <= total,
         NEW m, m = TopSteps(d, total)[d], m # InvalidCustomMatrix
  PROVE  m \in Matrices(total, d) /\ TopIs(m, d, d)
<1> DEFINE top == TopSteps(d, total)
           good == {i \in 0 .. d : top[i] # InvalidCustomMatrix => TopIs(top[i], i, d)}
<1>1. /\ \A i \in 0 .. d - 1 : top[i + 1] = IdentityTo(PivotedTo(top[i], i), i)
      /\ \A i \in 0 .. d : top[i] \in Matrices(total, d) \cup {InvalidCustomMatrix}
  BY TopStepsRun
<1> HIDE DEF top
<1>2. 0 \in good
  BY DEF TopIs
<1>3. ASSUME NEW i \in 0 .. d - 1, i \in good
      PROVE  i + 1 \in good
  <2>1. i \in 0 .. d /\ i + 1 \in 0 .. d
    OBVIOUS
  <2>2. top[i + 1] # InvalidCustomMatrix =>
          top[i] # InvalidCustomMatrix /\ (TopIs(top[i], i, d) => TopIs(top[i + 1], i + 1, d))
    BY <1>1, <2>1, TopStepIs
  <2> QED
    BY <1>3, <2>1, <2>2
<1> HIDE DEF good
<1>4. \A i \in 0 .. d : i \in good
  BY <1>2, <1>3, UpTo
<1>5. d \in good /\ d \in 0 .. d
  BY <1>4
<1> QED
  BY <1>1, <1>5 DEF good, top

LEMMA FirstOnesKeep ==
  ASSUME NEW d \in Nat \ {0}, NEW total \in Nat, d < total, NEW m \in Matrices(total, d),
         TopIs(m, d, d)
  PROVE  /\ FirstRowOnes(m, d) = InvalidCustomMatrix \/ IsSystematic(FirstRowOnes(m, d), d, total)
         /\ FirstColumnOnes(m, d) = InvalidCustomMatrix \/ IsSystematic(FirstColumnOnes(m, d), d, total)
<1>0. /\ DOMAIN m = 0 .. total - 1 /\ m \in [0 .. total - 1 -> [0 .. d - 1 -> Byte]]
      /\ \A r \in 0 .. total - 1 : DOMAIN m[r] = 0 .. d - 1 /\ \A c \in 0 .. d - 1 : m[r][c] \in Byte
  BY MatrixShape DEF Matrices
<1>d. d \in 0 .. total - 1 /\ 0 \in 0 .. d - 1 /\ \A r \in 0 .. d - 1 : r \in 0 .. total - 1 /\ r < d
  OBVIOUS
<1>1. ASSUME FirstRowOnes(m, d) # InvalidCustomMatrix
      PROVE  IsSystematic(FirstRowOnes(m, d), d, total)
  <2> DEFINE E == FirstRowOnes(m, d)
             Entry(r, c) == mul(m[r][c], div(1, m[d][c]))
  <2>1. E = [r \in 0 .. total - 1 |-> IF r < d THEN m[r] ELSE [c \in 0 .. d - 1 |-> Entry(r, c)]]
    BY <1>0, <1>1 DEF FirstRowOnes
  <2>2. ASSUME NEW r \in 0 .. total - 1, NEW c \in 0 .. d - 1
        PROVE  Entry(r, c) \in Byte
    <3>1. m[r][c] \in Byte /\ div(1, m[d][c]) \in Byte
      BY <1>0, <1>d, SmallBytes, Quotients
    <3> QED
      BY <3>1, Products
  <2> HIDE DEF E, Entry
  <2>3. E \in Matrices(total, d)
    BY <1>0, <2>1, <2>2 DEF Matrices
  <2>4. \A r \in 0 .. d - 1 : E[r] = m[r]
    BY <1>d, <2>1
  <2> QED
    BY <2>3, <2>4 DEF IsSystematic, TopIs, E
<1>2. ASSUME FirstColumnOnes(m, d) # InvalidCustomMatrix
      PROVE  IsSystematic(FirstColumnOnes(m, d), d, total)
  <2> DEFINE E == FirstColumnOnes(m, d)
             Entry(r, c) == mul(div(1, m[r][0]), m[r][c])
  <2>1. E = [r \in 0 .. total - 1 |-> IF r <= d THEN m[r] ELSE [c \in 0 .. d - 1 |-> Entry(r, c)]]
    BY <1>0, <1>2 DEF FirstColumnOnes, Scaled
  <2>2. ASSUME NEW r \in 0 .. total - 1, NEW c \in 0 .. d - 1
        PROVE  Entry(r, c) \in Byte
    <3>1. m[r][c] \in Byte /\ div(1, m[r][0]) \in Byte
      BY <1>0, <1>d, SmallBytes, Quotients
    <3> QED
      BY <3>1, Products
  <2> HIDE DEF E, Entry
  <2>3. E \in Matrices(total, d)
    BY <1>0, <2>1, <2>2 DEF Matrices
  <2>4. \A r \in 0 .. d - 1 : E[r] = m[r]
    BY <1>d, <2>1
  <2> QED
    BY <2>3, <2>4 DEF IsSystematic, TopIs, E
<1> QED
  BY <1>1, <1>2

LEMMA JerasureLikeSystematic ==
  ASSUME NEW d \in Nat \ {0}, NEW total \in Nat, d < total,
         NEW E, E = build_jerasure_like_matrix(d, total), E # InvalidCustomMatrix
  PROVE  IsSystematic(E, d, total)
<1> DEFINE top == TopSteps(d, total)[d]
           first == FirstRowOnes(top, d)
<1>1. E = FirstColumnOnes(first, d)
  BY JerasureLikeIs
<1> HIDE DEF first
<1>2. first # InvalidCustomMatrix
  BY <1>1 DEF FirstColumnOnes
<1> HIDE DEF top
<1>3. top # InvalidCustomMatrix
  BY <1>2 DEF first, FirstRowOnes
<1>4. top \in Matrices(total, d) /\ TopIs(top, d, d)
  BY <1>3, TopStepsAre DEF top
<1>5. IsSystematic(first, d, total)
  BY <1>2, <1>4, FirstOnesKeep DEF first
<1>6. first \in Matrices(total, d) /\ TopIs(first, d, d)
  BY <1>5 DEF IsSystematic, TopIs
<1> QED
  BY <1>1, <1>6, FirstOnesKeep

\* The matrix of every codec that exists has the identity on top: the data
\* shards are part of the codeword as they are (with_options, core/codec.rs).
THEOREM MatricesAreSystematic ==
  \A c \in Codecs : EncodingMatrix[c] # InvalidCustomMatrix =>
                      IsSystematic(EncodingMatrix[c], c.d, Total(c))
<1> SUFFICES ASSUME NEW c \in Codecs, EncodingMatrix[c] # InvalidCustomMatrix
             PROVE  IsSystematic(EncodingMatrix[c], c.d, Total(c))
  OBVIOUS
<1> DEFINE d == c.d
           total == Total(c)
           E == EncodingMatrix[c]
<1>1. /\ d \in Nat \ {0} /\ c.p \in Nat \ {0}
      /\ c.mode \in {"Vandermonde", "Cauchy", "JerasureLike", "Custom"}
      /\ c.mode = "Custom" => AreRows(c.custom)
  BY IdxAssumption DEF AreRows
<1>2. total \in Nat /\ d < total /\ d <= total
  BY <1>1 DEF Total
<1>3. E = IF c.mode = "Custom" THEN build_custom_matrix(d, total, c.custom)
          ELSE build_matrix_with_options(d, total, c.mode)
  BY DEF EncodingMatrix
<1> HIDE DEF d, total, E
<1>e. E # InvalidCustomMatrix
  BY DEF E
<1>4. CASE c.mode = "Vandermonde"
  <2>1. E = build_matrix(d, total)
    BY <1>3, <1>4 DEF build_matrix_with_options
  <2>2. IsSystematic(E, d, total)
    BY <1>1, <1>2, <1>e, <2>1, VandermondeSystematic
  <2> QED
    BY <2>2 DEF E, d, total
<1>5. CASE c.mode = "Cauchy"
  <2>1. E = build_cauchy_matrix(d, total)
    BY <1>3, <1>5 DEF build_matrix_with_options
  <2>2. IsSystematic(E, d, total)
    BY <1>1, <1>2, <1>e, <2>1, CauchySystematic
  <2> QED
    BY <2>2 DEF E, d, total
<1>6. CASE c.mode = "JerasureLike"
  <2>1. E = build_jerasure_like_matrix(d, total)
    BY <1>3, <1>6 DEF build_matrix_with_options
  <2>2. IsSystematic(E, d, total)
    BY <1>1, <1>2, <1>e, <2>1, JerasureLikeSystematic
  <2> QED
    BY <2>2 DEF E, d, total
<1>7. CASE c.mode = "Custom"
  <2>1. E = build_custom_matrix(d, total, c.custom)
    BY <1>3, <1>7
  <2>2. IsSystematic(E, d, total)
    BY <1>1, <1>2, <1>7, <1>e, <2>1, CustomSystematic
  <2> QED
    BY <2>2 DEF E, d, total
<1> QED
  BY <1>1, <1>4, <1>5, <1>6, <1>7

(* ------------------------- members of a set by rank ---------------------- *)

Below(S, i) == {j \in S : j < i}

LEMMA RanksExist ==
  ASSUME NEW S, S \subseteq Nat, IsFiniteSet(S), NEW k \in Nat, k < Cardinality(S)
  PROVE  \E i \in S : Cardinality(Below(S, i)) = k
<1> DEFINE good == {r \in 0 .. k : \E i \in S : Cardinality(Below(S, i)) = r}
<1>c. Cardinality(S) \in Nat
  BY FS_CardinalityType
<1>1. 0 \in good
  <2>1. S # {}
    BY <1>c, FS_EmptySet
  <2>2. PICK m \in S : \A j \in S : m <= j
    BY <2>1, LeastNat
  <2>3. Below(S, m) = {}
    <3>1. \A j \in S : ~(j < m)
      <4>1. m \in Nat /\ \A j \in S : j \in Nat
        OBVIOUS
      <4> QED
        BY <2>2, <4>1
    <3> QED
      BY <3>1 DEF Below
  <2>4. Cardinality(Below(S, m)) = 0
    BY <2>3, FS_EmptySet
  <2> QED
    BY <2>4
<1>2. ASSUME NEW r \in 0 .. k - 1, r \in good
      PROVE  r + 1 \in good
  <2>1. PICK i \in S : Cardinality(Below(S, i)) = r
    BY <1>2
  <2> DEFINE A == Below(S, i) \cup {i}
  <2>2. IsFiniteSet(Below(S, i)) /\ i \notin Below(S, i)
    <3>1. Below(S, i) \subseteq S
      BY DEF Below
    <3> QED
      BY <3>1, FS_Subset DEF Below
  <2>3. Cardinality(A) = r + 1
    BY <2>1, <2>2, FS_AddElement
  <2>4. S \ A # {}
    <3>1. S \ A = {} => A = S
      BY DEF Below
    <3>2. r + 1 # Cardinality(S)
      BY <1>c
    <3> QED
      BY <2>3, <3>1, <3>2
  <2>5. PICK m \in S \ A : \A j \in S \ A : m <= j
    <3>1. S \ A \subseteq Nat
      OBVIOUS
    <3> HIDE DEF A
    <3> QED
      BY <2>4, <3>1, LeastNat
  <2>6. Below(S, m) = A
    <3>1. i < m
      <4>1. m \in Nat /\ i \in Nat
        BY <2>5
      <4>2. ~(m < i) /\ m # i
        BY <2>5 DEF Below
      <4> QED
        BY <4>1, <4>2
    <3>2. ASSUME NEW j \in S PROVE (j < m) <=> (j \in A)
      <4>1. j \in Nat /\ i \in Nat /\ m \in Nat
        BY <2>5
      <4>2. CASE j \in A
        <5>1. j < i \/ j = i
          BY <4>2 DEF Below
        <5> QED
          BY <3>1, <4>1, <4>2, <5>1
      <4>3. CASE j \notin A
        <5>1. m <= j
          BY <2>5, <4>3
        <5> QED
          BY <4>1, <4>3, <5>1
      <4> QED
        BY <4>2, <4>3
    <3>3. A \subseteq S
      BY DEF Below
    <3> HIDE DEF A
    <3> QED
      BY <3>2, <3>3 DEF Below
  <2>7. Cardinality(Below(S, m)) = r + 1 /\ m \in S /\ r + 1 \in 0 .. k
    BY <2>3, <2>5, <2>6
  <2> QED
    BY <2>7
<1> HIDE DEF good
<1>3. \A r \in 0 .. k : r \in good
  BY <1>1, <1>2, UpTo
<1> QED
  BY <1>3 DEF good

LEMMA NthIsIn ==
  ASSUME NEW S, S \subseteq Nat, IsFiniteSet(S), NEW k \in Nat, k < Cardinality(S)
  PROVE  Nth(S, k) \in S /\ Cardinality(Below(S, Nth(S, k))) = k
<1>1. \E i \in S : Cardinality({j \in S : j < i}) = k
  BY RanksExist DEF Below
<1> QED
  BY <1>1 DEF Nth, Below

\* The first member is the least one.
LEMMA FirstIsLeast ==
  ASSUME NEW S, S \subseteq Nat, IsFiniteSet(S), S # {}
  PROVE  Nth(S, 0) \in S /\ \A j \in S : ~(j < Nth(S, 0))
<1>1. 0 \in Nat /\ 0 < Cardinality(S)
  <2>1. Cardinality(S) \in Nat /\ Cardinality(S) # 0
    BY FS_CardinalityType, FS_EmptySet
  <2> QED
    BY <2>1
<1>2. Nth(S, 0) \in S /\ Cardinality(Below(S, Nth(S, 0))) = 0
  BY <1>1, NthIsIn
<1>3. IsFiniteSet(Below(S, Nth(S, 0)))
  <2>1. Below(S, Nth(S, 0)) \subseteq S
    BY DEF Below
  <2> QED
    BY <2>1, FS_Subset
<1>4. Below(S, Nth(S, 0)) = {}
  BY <1>2, <1>3, FS_EmptySet
<1> QED
  BY <1>2, <1>4 DEF Below

(* ------------------------------- the codecs ------------------------------ *)

\* Every codec of a caller's matrix exists: with_options (core/codec.rs) returns
\* the error of a matrix that cannot be built, and no codec.
CustomsAreBuilt ==
  \A c \in Codecs : c.mode = "Custom" => EncodingMatrix[c] # InvalidCustomMatrix

LEMMA CodecShape ==
  ASSUME NEW c \in Codecs
  PROVE  /\ c.d \in Nat \ {0} /\ c.d \in Nat /\ Total(c) \in Nat /\ c.d < Total(c)
         /\ Total(c) <= 256
         /\ Shards(c) = 0 .. Total(c) - 1 /\ IsFiniteSet(Shards(c)) /\ Shards(c) \subseteq Nat
         /\ 0 .. c.d - 1 \subseteq Shards(c)
         /\ Expectations(c) \subseteq SUBSET Shards(c)
         /\ Arrivals(c) \subseteq SUBSET Shards(c)
         /\ Allocations(c) \subseteq [Shards(c) -> Seq({0})]
<1>1. /\ c.d \in Nat \ {0} /\ c.p \in Nat \ {0} /\ Total(c) <= FIELD_SIZE
      /\ Expectations(c) \subseteq SUBSET Shards(c)
      /\ Arrivals(c) \subseteq SUBSET Shards(c)
      /\ Allocations(c) \subseteq [Shards(c) -> Seq({0})]
  BY IdxAssumption
<1>2. Total(c) \in Nat /\ c.d < Total(c)
  BY <1>1 DEF Total
<1>3. IsFiniteSet(0 .. Total(c) - 1)
  BY <1>2, FS_Interval
<1>4. 0 .. Total(c) - 1 \subseteq Nat /\ 0 .. c.d - 1 \subseteq 0 .. Total(c) - 1
  BY <1>1, <1>2
<1> QED
  BY <1>1, <1>2, <1>3, <1>4 DEF Shards, FIELD_SIZE

(* ------------------------- any d rows are enough ------------------------- *)

Vectors(n) == [0 .. n - 1 -> Byte]

\* A vector with one element changed.
LEMMA DotWithOneMore ==
  ASSUME NEW n \in Nat, NEW a, NEW x, IsVector(n, a), IsVector(n, x),
         NEW j \in 0 .. n - 1, NEW s \in Byte, NEW y,
         \A k \in 0 .. n - 1 : y[k] = IF k = j THEN add(x[k], s) ELSE x[k]
  PROVE  Dot(n, a, y) = add(Dot(n, a, x), mul(a[j], s))
<1> DEFINE e == [k \in 0 .. n - 1 |-> IF k = j THEN s ELSE 0]
<1>1. IsVector(n, e)
  BY SmallBytes DEF IsVector
<1>2. e[j] = s /\ \A k \in 0 .. n - 1 : k # j => e[k] = 0
  OBVIOUS
<1>3. \A k \in 0 .. n - 1 : x[k] \in Byte /\ a[k] \in Byte
  BY DEF IsVector
<1> HIDE DEF e
<1>4. \A k \in 0 .. n - 1 : y[k] = add(x[k], e[k])
  BY <1>2, <1>3, Sums
<1>5. IsVector(n, y)
  BY <1>1, <1>3, <1>4, Sums DEF IsVector
<1>6. \A k \in 0 .. n - 1 : k # j => mul(e[k], a[k]) = 0
  BY <1>2, <1>3, Products
<1>7. Dot(n, e, a) = mul(e[j], a[j])
  BY ONLY n \in Nat, j \in 0 .. n - 1, IsVector(n, a), <1>1, <1>6, DotPick
<1>8. Dot(n, y, a) = add(Dot(n, x, a), Dot(n, e, a))
  BY <1>1, <1>4, DotOfASum
<1>9. Dot(n, a, y) = Dot(n, y, a) /\ Dot(n, a, x) = Dot(n, x, a)
  BY <1>5, DotCommutes
<1>10. mul(s, a[j]) = mul(a[j], s)
  BY <1>3, Products
<1> QED
  BY <1>2, <1>7, <1>8, <1>9, <1>10

\* No row is left with an element other than zero in column i.
LEMMA NothingToPivot ==
  ASSUME NEW n \in Nat, NEW l \in Nat, NEW w \in Matrices(n, l), NEW i \in 0 .. n - 1,
         Pivoted(w, i)[i][i] = 0
  PROVE  \A r \in i .. n - 1 : w[r][i] = 0
<1> DEFINE usable == {r \in DOMAIN w : r >= i /\ w[r][i] # 0}
           k == CHOOSE r \in usable : \A j \in usable : r <= j
<1>1. DOMAIN w = 0 .. n - 1
  BY DEF Matrices
<1>2. CASE usable = {}
  BY <1>1, <1>2
<1>3. CASE usable # {}
  <2>1. Pivoted(w, i) = swap_rows(w, i, k)
    BY <1>3 DEF Pivoted
  <2>2. k \in usable
    <3>1. usable \subseteq Nat
      BY <1>1
    <3> HIDE DEF usable
    <3>2. \E r \in usable : \A j \in usable : r <= j
      BY <1>3, <3>1, LeastNat
    <3> QED
      BY <3>2
  <2> HIDE DEF k
  <2>3. k \in 0 .. n - 1 /\ w[k][i] # 0
    BY <1>1, <2>2
  <2>4. swap_rows(w, i, k)[i] = w[k]
    BY <2>3, SwapIs
  <2> QED
    BY <2>1, <2>3, <2>4
<1> QED
  BY <1>2, <1>3

\* Where the way down ends early, the rows have a vector in common that all of
\* them take to zero.
LEMMA StuckHasKernel ==
  ASSUME NEW n \in Nat, NEW l \in Nat, n <= l, NEW w \in Matrices(n, l), NEW i \in 0 .. n - 1,
         Echelon(n, w, i), Pivoted(w, i)[i][i] = 0
  PROVE  \E x \in Vectors(n) : x[i] = 1 /\ \A r \in 0 .. n - 1 : Dot(n, w[r], x) = 0
<1> DEFINE ZeroFrom(x, k) == x[i] = 1 /\ \A r \in i - k .. n - 1 : Dot(n, w[r], x) = 0
           good == {k \in 0 .. i : \E x \in Vectors(n) : ZeroFrom(x, k)}
<1>0. i \in Nat
  OBVIOUS
<1>1. \A r \in i .. n - 1 : w[r][i] = 0
  BY NothingToPivot
<1>2. \A r \in 0 .. n - 1 : IsVector(n, w[r])
  BY MatrixShape DEF IsVector
<1>3. 0 \in good
  <2> DEFINE e == [k \in 0 .. n - 1 |-> IF k = i THEN 1 ELSE 0]
  <2>1. e \in Vectors(n) /\ e[i] = 1
    BY SmallBytes DEF Vectors
  <2>2. \A k \in 0 .. n - 1 : e[k] = IF k = i THEN 1 ELSE 0
    OBVIOUS
  <2> HIDE DEF e
  <2>3. ASSUME NEW r \in i - 0 .. n - 1
        PROVE  Dot(n, w[r], e) = 0
    <3>1. r \in i .. n - 1 /\ r \in 0 .. n - 1
      OBVIOUS
    <3>2. Dot(n, w[r], e) = w[r][i]
      <4>1. IsVector(n, w[r])
        BY <1>2, <3>1
      <4> QED
        BY ONLY n \in Nat, i \in 0 .. n - 1, <2>2, <4>1, DotUnit
    <3> QED
      BY <1>1, <3>1, <3>2
  <2> QED
    BY <2>1, <2>3
<1>4. ASSUME NEW k \in 0 .. i - 1, k \in good
      PROVE  k + 1 \in good
  <2> DEFINE j == i - (k + 1)
  <2>1. j \in 0 .. n - 1 /\ j # i /\ j \in 0 .. i - 1 /\ k + 1 \in 0 .. i
    OBVIOUS
  <2>2. PICK x \in Vectors(n) : ZeroFrom(x, k)
    BY <1>4
  <2>3. IsVector(n, x)
    BY DEF Vectors, IsVector
  <2> DEFINE s == Dot(n, w[j], x)
             y == [c \in 0 .. n - 1 |-> IF c = j THEN add(x[c], s) ELSE x[c]]
  <2> HIDE DEF j
  <2>4. s \in Byte
    BY <1>2, <2>1, <2>3, DotInByte
  <2>5. y \in Vectors(n) /\ y[i] = 1
    <3>1. \A c \in 0 .. n - 1 : x[c] \in Byte /\ add(x[c], s) \in Byte
      BY <2>3, <2>4, Sums DEF IsVector
    <3> HIDE DEF s
    <3> QED
      BY <2>1, <2>2, <3>1 DEF Vectors
  <2>6. \A c \in 0 .. n - 1 : y[c] = IF c = j THEN add(x[c], s) ELSE x[c]
    OBVIOUS
  <2>s. s = Dot(n, w[j], x)
    OBVIOUS
  <2> HIDE DEF y, s
  <2>7. ASSUME NEW r \in j .. n - 1
        PROVE  Dot(n, w[r], y) = 0
    <3>1. r \in 0 .. n - 1
      BY <2>1
    <3>2. Dot(n, w[r], y) = add(Dot(n, w[r], x), mul(w[r][j], s))
      <4>1. IsVector(n, w[r])
        BY <1>2, <3>1
      <4> QED
        BY ONLY n \in Nat, <2>1, <2>3, <2>4, <2>6, <4>1, DotWithOneMore
    <3>3. w[r][j] = IF r = j THEN 1 ELSE 0
      BY <2>1 DEF Echelon
    <3>4. CASE r = j
      <4>1. mul(1, s) = s /\ add(s, s) = 0
        BY <2>4, Products, Sums
      <4> QED
        BY <2>s, <3>2, <3>3, <3>4, <4>1
    <3>5. CASE r # j
      <4>1. r \in i - k .. n - 1
        BY <3>5 DEF j
      <4>2. Dot(n, w[r], x) = 0
        BY <2>2, <4>1
      <4>3. mul(0, s) = 0 /\ add(0, 0) = 0
        BY <2>4, SmallBytes, Products, Sums
      <4> QED
        BY <3>2, <3>3, <3>5, <4>2, <4>3
    <3> QED
      BY <3>4, <3>5
  <2>8. ZeroFrom(y, k + 1)
    BY <2>5, <2>7 DEF j
  <2> QED
    BY <2>1, <2>5, <2>8
<1> HIDE DEF good
<1>5. \A k \in 0 .. i : k \in good
  BY <1>0, <1>3, <1>4, UpTo
<1>6. i \in good
  BY <1>0, <1>5
<1>7. PICK x \in Vectors(n) : ZeroFrom(x, i)
  BY <1>6 DEF good
<1>8. i - i = 0
  OBVIOUS
<1> QED
  BY <1>7, <1>8

\* Only zero is taken to zero by all rows of m.
NoKernel(n, m) ==
  \A x \in Vectors(n) :
    (\A r \in 0 .. n - 1 : Dot(n, m[r], x) = 0) => \A k \in 0 .. n - 1 : x[k] = 0
\* A matrix for which the way down ends early takes a vector to zero.
LEMMA NoKernelInverts ==
  ASSUME NEW n \in Nat \ {0}, NEW m \in Matrices(n, n), NoKernel(n, m)
  PROVE  invert(m) # Singular
<1> DEFINE W == augment(m, identity(n))
           down == DownSteps(W)[n]
           work == UpSteps(n, down)[n]
           l == 2 * n
<1>0. Rows(m) = n /\ n <= l /\ l \in Nat /\ n \in Nat
  BY MatrixShape
<1>1. /\ W \in Matrices(n, l)
      /\ \A r, c \in 0 .. n - 1 : W[r][c] = m[r][c] /\ W[r][n + c] = IF r = c THEN 1 ELSE 0
  BY AugmentIs
<1>2. Rows(W) = n
  BY <1>0, <1>1, MatrixShape
<1>3. /\ gaussian_elim(W) = IF down = Singular THEN Singular ELSE work
      /\ invert(m) = IF gaussian_elim(W) = Singular THEN Singular
                     ELSE sub_matrix(gaussian_elim(W), 0, n, n, 2 * n)
  BY <1>0, <1>2, EliminationIs DEF invert
<1> HIDE DEF W, l
<1>4. IF down = Singular THEN GetsStuck(n, l, W)
      ELSE down \in Matrices(n, l) /\ Equivalent(n, l, down, W) /\ Echelon(n, down, n)
  <2> HIDE DEF down
  <2> QED
    BY <1>0, <1>1, WayDown DEF down
<1>5. CASE down # Singular
  <2>1. Equivalent(n, l, work, down)
    <3> HIDE DEF down
    <3> QED
      BY <1>0, <1>4, <1>5, WayUp
  <2> HIDE DEF down, work
  <2>2. work # Singular
    BY <1>0, <2>1, SingularIsNone DEF Equivalent
  <2>3. invert(m) = sub_matrix(work, 0, n, n, 2 * n)
    BY <1>3, <1>5, <2>2
  <2>4. DOMAIN sub_matrix(work, 0, n, n, 2 * n) = 0 .. n - 0 - 1
    BY DEF sub_matrix
  <2>5. 0 \in 0 .. n - 0 - 1 /\ DOMAIN Singular = {}
    BY DEF Singular
  <2> QED
    BY <2>3, <2>4, <2>5
<1>6. CASE down = Singular
  <2> HIDE DEF down, work
  <2>0. PICK i \in 0 .. n - 1 : \E w : IsStuck(n, l, W, i, w)
    BY <1>4, <1>6 DEF GetsStuck
  <2>1. PICK w : IsStuck(n, l, W, i, w)
    BY <2>0
  <2>2. w \in Matrices(n, l) /\ IsOf(n, l, W, w) /\ Echelon(n, w, i) /\ Pivoted(w, i)[i][i] = 0
    BY <2>1 DEF IsStuck, Equivalent
  <2>3. PICK x \in Vectors(n) : x[i] = 1 /\ \A r \in 0 .. n - 1 : Dot(n, w[r], x) = 0
    BY <1>0, <2>2, StuckHasKernel
  <2>4. PICK C \in Matrices(n, n) :
          \A r \in 0 .. n - 1 : \A c \in 0 .. l - 1 : W[r][c] = Dot(n, C[r], Column(n, w, c))
    BY <2>2 DEF IsOf
  <2>5. ASSUME NEW r \in 0 .. n - 1
        PROVE  Dot(n, m[r], x) = 0
    <3> DEFINE inner == [k \in 0 .. n - 1 |-> 0]
               row == C[r]
               outer == m[r]
    <3>1. IsVector(n, row) /\ IsVector(n, x) /\ IsVector(n, inner)
      BY <1>0, ColumnsAndRows, SmallBytes DEF Vectors, IsVector
    <3>2. \A k \in 0 .. n - 1 : IsVector(n, w[k])
      <4>1. \A k \in 0 .. n - 1 : IsVector(l, w[k])
        BY <1>0, <2>2, ColumnsAndRows
      <4> QED
        BY <1>0, <4>1 DEF IsVector
    <3>3. \A k \in 0 .. n - 1 : inner[k] = Dot(n, w[k], x)
      BY <2>3
    <3>4. \A j \in 0 .. n - 1 : outer[j] = Dot(n, row, Column(n, w, j))
      BY <1>0, <1>1, <2>4
    <3>5. \A k \in 0 .. n - 1 : inner[k] = 0
      OBVIOUS
    <3> HIDE DEF inner, outer, row
    <3>6. Dot(n, row, inner) = Dot(n, outer, x)
      <4>1. n \in Nat /\ IsVector(n, row) /\ IsVector(n, x)
        BY ONLY <1>0, <3>1
      <4> QED
        BY ONLY <4>1, <3>2, <3>3, <3>4, DotsExchange
    <3>7. \A k \in 0 .. n - 1 : mul(row[k], inner[k]) = 0
      BY <3>1, <3>5, Products DEF IsVector
    <3>8. Dot(n, row, inner) = 0
      BY ONLY <1>0, <3>1, <3>7, DotOfZeros
    <3> QED
      BY <3>6, <3>8 DEF outer
  <2> QED
    BY <2>3, <2>5 DEF NoKernel
<1> QED
  BY <1>5, <1>6

\* Every member of a set has its rank.
LEMMA EveryMemberIsNth ==
  ASSUME NEW S, S \subseteq Nat, IsFiniteSet(S), NEW i \in S
  PROVE  \E k \in 0 .. Cardinality(S) - 1 : Nth(S, k) = i
<1> DEFINE k == Cardinality(Below(S, i))
<1>1. \A j \in S : Below(S, j) \subseteq S /\ j \notin Below(S, j) /\ IsFiniteSet(Below(S, j))
  <2>1. \A j \in S : Below(S, j) \subseteq S /\ j \notin Below(S, j)
    BY DEF Below
  <2> QED
    BY <2>1, FS_Subset
<1>2. k \in Nat /\ k < Cardinality(S) /\ Cardinality(S) \in Nat
  <2>1. Cardinality(Below(S, i) \cup {i}) = k + 1 /\ k \in Nat
    BY <1>1, FS_AddElement, FS_CardinalityType
  <2>2. Below(S, i) \cup {i} \subseteq S
    BY <1>1
  <2>3. Cardinality(Below(S, i) \cup {i}) <= Cardinality(S)
    BY <2>2, FS_Subset
  <2>4. Cardinality(S) \in Nat
    BY FS_CardinalityType
  <2> QED
    BY <2>1, <2>3, <2>4
<1>3. Nth(S, k) \in S /\ Cardinality(Below(S, Nth(S, k))) = k
  <2> HIDE DEF k
  <2> QED
    BY <1>2, NthIsIn
<1> DEFINE j == Nth(S, k)
<1>4. ASSUME NEW a \in S, NEW b \in S, a < b
      PROVE  Cardinality(Below(S, a)) < Cardinality(Below(S, b))
  <2>1. Below(S, a) \cup {a} \subseteq Below(S, b)
    <3>1. ASSUME NEW h \in Below(S, a) \cup {a} PROVE h \in S /\ h < b
      <4>1. h \in S /\ (h < a \/ h = a)
        BY DEF Below
      <4>2. h \in Nat /\ a \in Nat /\ b \in Nat
        BY <4>1
      <4> QED
        BY <1>4, <4>1, <4>2
    <3> QED
      BY <3>1 DEF Below
  <2>2. Cardinality(Below(S, a) \cup {a}) = Cardinality(Below(S, a)) + 1
    BY <1>1, FS_AddElement
  <2>3. /\ Cardinality(Below(S, a) \cup {a}) <= Cardinality(Below(S, b))
        /\ Cardinality(Below(S, a)) \in Nat /\ Cardinality(Below(S, b)) \in Nat
    BY <1>1, <2>1, FS_Subset, FS_CardinalityType
  <2> QED
    BY <2>2, <2>3
<1>5. j \in S /\ i \in S /\ Cardinality(Below(S, j)) = Cardinality(Below(S, i))
  BY <1>3
<1> HIDE DEF j
<1>6. ~(j < i) /\ ~(i < j)
  <2>1. Cardinality(Below(S, j)) \in Nat
    BY <1>1, <1>5, FS_CardinalityType
  <2> QED
    BY <1>4, <1>5, <2>1
<1>7. j = i
  <2>1. j \in Nat /\ i \in Nat
    BY <1>5
  <2> QED
    BY <1>6, <2>1
<1>8. k \in 0 .. Cardinality(S) - 1
  <2> HIDE DEF k
  <2> QED
    BY <1>2
<1> QED
  BY <1>7, <1>8 DEF j

\* Any d rows have only zero in common that they take to zero.
AnyRows(E, d, total) ==
  \A S \in SUBSET (0 .. total - 1) : \A x \in Vectors(d) :
    Cardinality(S) = d /\ (\A r \in S : Dot(d, E[r], x) = 0) => \A k \in 0 .. d - 1 : x[k] = 0

LEMMA SelectionInverts ==
  ASSUME NEW d \in Nat \ {0}, NEW total \in Nat, NEW E \in Matrices(total, d), AnyRows(E, d, total),
         NEW S \in SUBSET (0 .. total - 1), Cardinality(S) = d,
         NEW m, m = [k \in 0 .. d - 1 |-> E[Nth(S, k)]]
  PROVE  invert(m) # Singular
<1>1. IsFiniteSet(S) /\ S \subseteq Nat
  <2>1. IsFiniteSet(0 .. total - 1) /\ 0 .. total - 1 \subseteq Nat
    BY FS_Interval
  <2> QED
    BY <2>1, FS_Subset
<1>2. \A k \in 0 .. d - 1 : Nth(S, k) \in S
  <2>1. \A k \in 0 .. d - 1 : k \in Nat /\ k < d
    OBVIOUS
  <2> QED
    BY <1>1, <2>1, NthIsIn
<1>3. m \in Matrices(d, d)
  <2>1. \A i \in S : E[i] \in [0 .. d - 1 -> Byte]
    BY DEF Matrices
  <2> QED
    BY <1>2, <2>1 DEF Matrices
<1>4. NoKernel(d, m)
  <2> SUFFICES ASSUME NEW x \in Vectors(d), \A r \in 0 .. d - 1 : Dot(d, m[r], x) = 0
               PROVE  \A k \in 0 .. d - 1 : x[k] = 0
    BY DEF NoKernel
  <2>1. ASSUME NEW r \in S
        PROVE  Dot(d, E[r], x) = 0
    <3>1. PICK k \in 0 .. d - 1 : Nth(S, k) = r
      BY <1>1, EveryMemberIsNth
    <3>2. m[k] = E[r]
      BY <3>1
    <3> QED
      BY <3>2
  <2> QED
    BY <2>1 DEF AnyRows
<1> QED
  BY <1>3, <1>4, NoKernelInverts

\* One part of a sum, added once more.
LEMMA SumsCancelPart ==
  ASSUME NEW x \in Byte, NEW y \in Byte, NEW z \in Byte
  PROVE  add(add(x, add(y, z)), y) = add(x, z)
<1>1. add(y, z) \in Byte /\ add(z, y) \in Byte /\ add(y, z) = add(z, y)
  BY Sums
<1>2. add(add(x, add(y, z)), y) = add(x, add(add(z, y), y))
  BY <1>1, SumsAssociate
<1>3. add(add(z, y), y) = z
  BY SumsCancel
<1> QED
  BY <1>2, <1>3

\* The powers of an element, one after the other.
LEMMA PowersNext ==
  ASSUME NEW x \in Byte, NEW j \in Nat
  PROVE  exp(x, 0) = 1 /\ exp(x, j + 1) = mul(x, exp(x, j))
<1>1. exp(x, 0) = 1
  BY DEF exp
<1>j. j + 1 > 0 /\ j + 1 # 0
  OBVIOUS
<1>2. CASE x = 0
  <2>1. exp(x, j + 1) = 0
    BY <1>2, <1>j DEF exp
  <2>2. exp(x, j) \in Byte
    BY ExpIs
  <2> QED
    BY <1>1, <1>2, <2>1, <2>2, Products
<1>3. CASE x # 0
  <2>1. PICK i \in 0 .. 254 : i = LOG_TABLE[x]
    BY <1>3, Logarithms DEF NonZero
  <2>2. x \in NonZero
    BY <1>3 DEF NonZero
  <2>3. exp(x, j + 1) = EXP_TABLE[(i * (j + 1)) % 255]
    BY <1>3, <1>j, <2>1 DEF exp
  <2> DEFINE y == i * j
  <2>4. y \in Nat /\ i * (j + 1) = y + i
    OBVIOUS
  <2>5. exp(x, j) = EXP_TABLE[y % 255]
    <3>1. CASE j = 0
      <4>1. y % 255 = 0
        BY <3>1
      <4>2. EXP_TABLE[0] = 1
        BY SmallBytes, Logarithms, TablesAssumption DEF NonZero
      <4> QED
        BY <1>1, <3>1, <4>1, <4>2
    <3>2. CASE j # 0
      BY <1>3, <2>1, <3>2 DEF exp
    <3> QED
      BY <3>1, <3>2
  <2> HIDE DEF y
  <2>6. y % 255 \in 0 .. 254 /\ (y + i) % 255 \in 0 .. 254 /\ (i + (y % 255)) % 255 = (y + i) % 255
    BY <2>4
  <2> DEFINE e == y % 255
             power == EXP_TABLE[e]
             next == (y + i) % 255
  <2>7. e \in 0 .. 254 /\ next \in 0 .. 254 /\ (i + e) % 255 = next
    BY <2>6
  <2> HIDE DEF e, next
  <2>8. power \in NonZero /\ LOG_TABLE[power] = e
    BY <2>7, TablesAssumption DEF NonZero
  <2>9. EXP_TABLE[next] \in NonZero /\ LOG_TABLE[EXP_TABLE[next]] = next
    BY <2>7, TablesAssumption DEF NonZero
  <2> HIDE DEF power
  <2>10. mul(x, power) \in NonZero /\ LOG_TABLE[mul(x, power)] = (i + e) % 255
    BY <2>1, <2>2, <2>8, NonZeroProducts
  <2>11. mul(x, power) = EXP_TABLE[next]
    <3> DEFINE right == EXP_TABLE[next]
    <3>1. right \in NonZero /\ LOG_TABLE[right] = next
      BY <2>9
    <3> HIDE DEF right
    <3>2. mul(x, power) = right
      BY <2>7, <2>10, <3>1, SameLogarithm
    <3> QED
      BY <3>2 DEF right
  <2>12. exp(x, j + 1) = EXP_TABLE[next]
    BY ONLY <2>3, <2>4 DEF next
  <2>13. exp(x, j) = power
    BY ONLY <2>5 DEF power, e
  <2> QED
    BY <1>1, <2>11, <2>12, <2>13
<1> QED
  BY <1>1, <1>2, <1>3

\* The row of a Vandermonde matrix for element t.
PowerRow(n, t) == [j \in 0 .. n - 1 |-> exp(t, j)]

LEMMA PowerRowIs ==
  ASSUME NEW n \in Nat, NEW t \in Byte
  PROVE  IsVector(n, PowerRow(n, t))
<1>1. \A j \in 0 .. n - 1 : j \in Nat
  OBVIOUS
<1> QED
  BY <1>1, ExpIs DEF PowerRow, IsVector

\* What Horner's rule makes of polynomial x: the rest of a division by (t + a),
\* and the quotient after it.
IsDivision(n, x, a, h) ==
  /\ h \in [0 .. n -> Byte] /\ h[n] = 0
  /\ \A j \in 0 .. n - 1 : h[j] = add(x[j], mul(a, h[j + 1]))

Quotient(n, h) == [j \in 0 .. n - 1 |-> h[j + 1]]

LEMMA DivisionExists ==
  ASSUME NEW n \in Nat, NEW x \in Vectors(n), NEW a \in Byte
  PROVE  \E h : IsDivision(n, x, a, h)
<1> DEFINE g == [i \in 1 .. n |-> [y \in Byte |-> add(x[n - i], mul(a, y))]]
<1>1. g \in [1 .. n -> [Byte -> Byte]]
  <2>1. ASSUME NEW i \in 1 .. n, NEW y \in Byte
        PROVE  add(x[n - i], mul(a, y)) \in Byte
    <3>1. n - i \in 0 .. n - 1
      OBVIOUS
    <3>2. x[n - i] \in Byte
      BY <3>1 DEF Vectors
    <3> QED
      BY <3>2, Products, Sums
  <2> QED
    BY <2>1
<1>2. PICK f \in [0 .. n -> Byte] : IsRun(f, n, 0, g)
  <2> HIDE DEF g
  <2> QED
    BY <1>1, SmallBytes, RunExists
<1>3. f[0] = 0 /\ \A i \in 1 .. n : f[i] = add(x[n - i], mul(a, f[i - 1]))
  <2>1. \A i \in 0 .. n : f[i] = IF i = 0 THEN 0 ELSE g[i][f[i - 1]]
    <3> HIDE DEF g
    <3> QED
      BY <1>2 DEF IsRun
  <2>2. ASSUME NEW i \in 1 .. n
        PROVE  f[i] = add(x[n - i], mul(a, f[i - 1]))
    <3>1. i \in 0 .. n /\ i # 0 /\ i - 1 \in 0 .. n
      OBVIOUS
    <3>2. f[i - 1] \in Byte
      BY <3>1
    <3>3. f[i] = g[i][f[i - 1]]
      BY ONLY <2>1, <3>1
    <3> QED
      BY ONLY <3>2, <3>3, i \in 1 .. n
  <2>3. 0 \in 0 .. n
    OBVIOUS
  <2>4. f[0] = 0
    BY ONLY <2>1, <2>3
  <2> QED
    BY ONLY <2>2, <2>4
<1> HIDE DEF g
<1> DEFINE h == [j \in 0 .. n |-> f[n - j]]
<1>4. h \in [0 .. n -> Byte]
  BY <1>2
<1>5. h[n] = 0
  BY <1>3
<1>6. ASSUME NEW j \in 0 .. n - 1
      PROVE  h[j] = add(x[j], mul(a, h[j + 1]))
  <2>1. n - j \in 1 .. n /\ n - (n - j) = j /\ (n - j) - 1 = n - (j + 1) /\ j \in 0 .. n /\ j + 1 \in 0 .. n
    OBVIOUS
  <2>2. f[n - j] = add(x[j], mul(a, f[n - (j + 1)]))
    BY <1>3, <2>1
  <2> QED
    BY <2>1, <2>2
<1> HIDE DEF h
<1> QED
  BY <1>4, <1>5, <1>6 DEF IsDivision

\* The value of the polynomial is that of the quotient times (t + a), plus the
\* rest, for every t.
LEMMA DivisionIs ==
  ASSUME NEW n \in Nat, NEW x \in Vectors(n), NEW a \in Byte, NEW h, IsDivision(n, x, a, h),
         NEW t \in Byte
  PROVE  Dot(n, PowerRow(n, t), x)
           = add(h[0], mul(add(t, a), Dot(n, PowerRow(n, t), Quotient(n, h))))
<1> DEFINE v == PowerRow(n, t)
           q == Quotient(n, h)
           u == add(t, a)
           Sum(k) == Dot(k, v, x)
           Part(k) == Dot(k, v, q)
           Right(k) == add(h[0], add(mul(u, Part(k)), mul(exp(t, k), h[k])))
           good == {k \in 0 .. n : Sum(k) = Right(k)}
<1>h. /\ h \in [0 .. n -> Byte] /\ h[n] = 0
      /\ \A j \in 0 .. n - 1 : h[j] = add(x[j], mul(a, h[j + 1]))
  BY DEF IsDivision
<1>q. \A j \in 0 .. n - 1 : q[j] = h[j + 1]
  BY DEF Quotient
<1> HIDE DEF q
<1>1. IsVector(n, v)
  BY PowerRowIs
<1>2. IsVector(n, x) /\ IsVector(n, q)
  BY <1>h, <1>q DEF Vectors, IsVector
<1>3. \A k \in 0 .. n : h[k] \in Byte /\ exp(t, k) \in Byte
  BY <1>h, ExpIs
<1>4. \A k \in 0 .. n - 1 : v[k] = exp(t, k)
  BY DEF PowerRow
<1>u. u \in Byte
  BY Sums
<1> HIDE DEF v, u
<1>5. 0 \in good
  <2>1. Sum(0) = 0 /\ Part(0) = 0
    BY <1>1, <1>2, DotSteps
  <2>2. exp(t, 0) = 1 /\ 0 \in 0 .. n
    BY DEF exp
  <2>3. /\ h[0] \in Byte
        /\ mul(u, 0) = 0 /\ mul(1, h[0]) = h[0] /\ add(0, h[0]) = h[0] /\ add(h[0], h[0]) = 0
    BY <1>3, <1>u, <2>2, SmallBytes, Products, Sums
  <2> QED
    BY <2>1, <2>2, <2>3
<1>6. ASSUME NEW k \in 0 .. n - 1, k \in good
      PROVE  k + 1 \in good
  <2>1. k \in 0 .. n /\ k + 1 \in 0 .. n /\ k \in Nat
    OBVIOUS
  <2>2. Sum(k + 1) = add(Sum(k), mul(v[k], x[k]))
    BY ONLY n \in Nat, k \in 0 .. n - 1, <1>1, <1>2, DotNext
  <2>3. Part(k + 1) = add(Part(k), mul(v[k], q[k]))
    BY ONLY n \in Nat, k \in 0 .. n - 1, <1>1, <1>2, DotNext
  <2>4. Part(k) \in Byte
    BY ONLY n \in Nat, <1>1, <1>2, <2>1, DotSteps
  <2>5. Sum(k) = Right(k)
    BY <1>6
  <2>6. exp(t, k + 1) = mul(t, exp(t, k))
    BY <2>1, PowersNext
  <2> DEFINE p == exp(t, k)
             hk == h[k]
             g == h[k + 1]
             z == Part(k)
             xk == x[k]
             h0 == h[0]
  <2>7. h0 \in Byte /\ z \in Byte /\ p \in Byte /\ g \in Byte /\ xk \in Byte /\ hk = add(xk, mul(a, g))
    <3>1. 0 \in 0 .. n
      OBVIOUS
    <3> QED
      BY <1>h, <1>3, <2>1, <2>4, <3>1 DEF Vectors
  <2>8. add(add(h0, add(mul(add(t, a), z), mul(p, hk))), mul(p, xk))
          = add(h0, add(mul(add(t, a), add(z, mul(p, g))), mul(mul(t, p), g)))
    <3> HIDE DEF p, hk, g, z, xk, h0
    <3> DEFINE uu == add(t, a)
               hh == add(xk, mul(a, g))
               b == mul(uu, z)
               c == mul(p, xk)
               pg == mul(p, g)
               e == mul(a, pg)
               w == mul(t, pg)
    <3>0. /\ t \in Byte /\ a \in Byte /\ h0 \in Byte /\ z \in Byte /\ p \in Byte /\ g \in Byte
          /\ xk \in Byte
      BY <2>7
    <3>1. uu \in Byte /\ c \in Byte /\ pg \in Byte
      BY ONLY <3>0, Sums, Products
    <3>2. b \in Byte /\ e \in Byte /\ w \in Byte
      BY ONLY <3>0, <3>1, Products
    <3>3. mul(p, hh) = add(c, e)
      <4>1. mul(a, g) \in Byte
        BY ONLY <3>0, Products
      <4>2. mul(p, hh) = add(mul(p, xk), mul(p, mul(a, g)))
        BY ONLY <3>0, <4>1, Distributes
      <4>3. mul(p, mul(a, g)) = mul(mul(p, a), g) /\ mul(mul(a, p), g) = mul(a, mul(p, g))
        BY ONLY <3>0, ProductsAssociate
      <4>4. mul(p, a) = mul(a, p)
        BY ONLY <3>0, Products
      <4> QED
        BY <4>2, <4>3, <4>4
    <3>4. mul(mul(t, p), g) = w
      BY ONLY <3>0, ProductsAssociate
    <3>5. mul(uu, pg) = add(w, e)
      BY ONLY <3>0, <3>1, Distributes
    <3>6. mul(uu, add(z, pg)) = add(b, add(w, e))
      <4> HIDE DEF uu, pg, w, e
      <4> QED
        BY ONLY <3>0, <3>1, <3>5, Distributes
    <3> HIDE DEF uu, b, c, pg, e, w, hh
    <3>7. add(add(h0, add(b, add(c, e))), c) = add(h0, add(b, e))
      <4>1. add(c, e) \in Byte /\ add(b, add(c, e)) \in Byte
        BY ONLY <3>1, <3>2, Sums
      <4>2. add(add(h0, add(b, add(c, e))), c) = add(h0, add(add(b, add(c, e)), c))
        BY ONLY <3>0, <3>1, <3>2, <4>1, SumsAssociate
      <4>3. add(add(b, add(c, e)), c) = add(b, e)
        BY ONLY <3>1, <3>2, SumsCancelPart
      <4> QED
        BY <4>2, <4>3
    <3>8. add(add(b, add(w, e)), w) = add(b, e)
      BY ONLY <3>2, SumsCancelPart
    <3>9. add(add(h0, add(b, mul(p, hh))), c) = add(h0, add(mul(uu, add(z, pg)), w))
      BY ONLY <3>3, <3>6, <3>7, <3>8
    <3> QED
      BY ONLY <2>7, <3>4, <3>9 DEF uu, b, c, pg, hh
  <2>9. Sum(k + 1) = Right(k + 1)
    <3>1. Sum(k + 1) = add(add(h0, add(mul(u, z), mul(p, hk))), mul(p, xk))
      BY ONLY <2>2, <2>5, <1>4, k \in 0 .. n - 1
    <3>2. q[k] = g
      BY <1>q
    <3>3. Right(k + 1) = add(h0, add(mul(u, add(z, mul(p, g))), mul(mul(t, p), g)))
      BY ONLY <2>3, <2>6, <1>4, <3>2, k \in 0 .. n - 1
    <3> QED
      BY ONLY <2>8, <3>1, <3>3 DEF u
  <2> QED
    BY <2>1, <2>9
<1> HIDE DEF good
<1>7. \A k \in 0 .. n : k \in good
  BY <1>5, <1>6, UpTo
<1>8. n \in good
  BY <1>7
<1>9. Sum(n) = Right(n)
  BY <1>8 DEF good
<1>10. Part(n) \in Byte
  BY <1>1, <1>2, DotInByte
<1>11. mul(exp(t, n), 0) = 0 /\ mul(u, Part(n)) \in Byte
  BY <1>3, <1>10, <1>u, Products
<1>12. add(mul(u, Part(n)), 0) = mul(u, Part(n))
  BY <1>11, Sums
<1> QED
  BY <1>h, <1>9, <1>11, <1>12 DEF u, v, q

\* A polynomial of degree below n that is zero at n elements is zero.
LEMMA RootsAreFew ==
  ASSUME NEW n \in Nat, NEW x \in Vectors(n), NEW A \in SUBSET Byte, Cardinality(A) = n,
         \A t \in A : Dot(n, PowerRow(n, t), x) = 0
  PROVE  \A k \in 0 .. n - 1 : x[k] = 0
<1> DEFINE Vanish(m) ==
             \A y \in Vectors(m) : \A B \in SUBSET Byte :
               Cardinality(B) = m /\ (\A t \in B : Dot(m, PowerRow(m, t), y) = 0)
                 => \A k \in 0 .. m - 1 : y[k] = 0
           good == {m \in 0 .. n : Vanish(m)}
<1>1. 0 \in good
  OBVIOUS
<1>2. ASSUME NEW m \in 0 .. n - 1, m \in good
      PROVE  m + 1 \in good
  <2> DEFINE l == m + 1
  <2>1. l \in Nat /\ l \in 0 .. n /\ m \in Nat /\ l - 1 = m /\ m \in 0 .. l - 1
    OBVIOUS
  <2>2. Vanish(m)
    BY <1>2
  <2> HIDE DEF l
  <2>3. ASSUME NEW y \in Vectors(l), NEW B \in SUBSET Byte, Cardinality(B) = l,
               \A t \in B : Dot(l, PowerRow(l, t), y) = 0
        PROVE  \A k \in 0 .. l - 1 : y[k] = 0
    <3>1. IsFiniteSet(B)
      <4>1. IsFiniteSet(0 .. 255)
        BY 0 \in Int, 255 \in Int, FS_Interval
      <4>2. IsFiniteSet(Byte)
        BY <4>1, BytesAre
      <4> QED
        BY <4>2, FS_Subset
    <3>2. PICK a \in B : TRUE
      BY <2>1, <2>3, FS_EmptySet DEF l
    <3> DEFINE C == B \ {a}
    <3>3. Cardinality(C) = m /\ C \in SUBSET Byte
      <4>1. Cardinality(C) = Cardinality(B) - 1
        BY <3>1, <3>2, FS_RemoveElement
      <4> QED
        BY <2>1, <2>3, <4>1 DEF l
    <3>a. a \in Byte
      BY <3>2
    <3>p. PICK h : IsDivision(l, y, a, h)
      BY ONLY <2>1, <3>a, y \in Vectors(l), DivisionExists
    <3>4. /\ h \in [0 .. l -> Byte] /\ h[l] = 0
          /\ \A j \in 0 .. l - 1 : h[j] = add(y[j], mul(a, h[j + 1]))
      BY <3>p DEF IsDivision
    <3> DEFINE q == [j \in 0 .. m - 1 |-> h[j + 1]]
               r == Quotient(l, h)
    <3>5. q \in Vectors(m) /\ IsVector(m, q)
      BY <2>1, <3>4 DEF Vectors, IsVector
    <3>6. ASSUME NEW t \in Byte
          PROVE  Dot(l, PowerRow(l, t), y) = add(h[0], mul(add(t, a), Dot(m, PowerRow(m, t), q)))
      <4>1. \A j \in 0 .. l - 1 : r[j] = h[j + 1]
        BY DEF Quotient
      <4>2. IsVector(l, r) /\ r[m] = 0
        BY <2>1, <3>4, <4>1 DEF IsVector, l
      <4>3. \A j \in 0 .. m - 1 : r[j] = q[j] /\ PowerRow(l, t)[j] = PowerRow(m, t)[j]
        BY <2>1, <4>1 DEF PowerRow, l
      <4>4. Dot(l, PowerRow(l, t), y) = add(h[0], mul(add(t, a), Dot(l, PowerRow(l, t), r)))
        BY ONLY <2>1, y \in Vectors(l), <3>a, <3>p, t \in Byte, DivisionIs
      <4> HIDE DEF q, r
      <4> DEFINE v == PowerRow(l, t)
                 w == PowerRow(m, t)
      <4>5. IsVector(l, v) /\ IsVector(m, w)
        BY <2>1, PowerRowIs
      <4>6. \A j \in 0 .. m - 1 : r[j] = q[j] /\ v[j] = w[j]
        BY <4>3
      <4>7. v[m] \in Byte
        BY <2>1, <4>5 DEF IsVector
      <4> HIDE DEF v, w
      <4>8. Dot(m, v, r) = Dot(m, w, q)
        BY ONLY <2>1, <3>5, <4>5, <4>6, DotSame
      <4>9. Dot(m + 1, v, r) = add(Dot(m, v, r), mul(v[m], r[m]))
        BY ONLY <2>1, <4>2, <4>5, DotNext
      <4>10. Dot(m, w, q) \in Byte
        BY ONLY <2>1, <3>5, <4>5, DotInByte
      <4>11. mul(v[m], 0) = 0 /\ add(Dot(m, w, q), 0) = Dot(m, w, q)
        BY <4>7, <4>10, Products, Sums
      <4>12. Dot(l, v, r) = Dot(m, w, q)
        BY <4>2, <4>8, <4>9, <4>11 DEF l
      <4> QED
        BY <4>4, <4>12 DEF v, w
    <3>7. \A t \in Byte : Dot(m, PowerRow(m, t), q) \in Byte
      BY <2>1, <3>5, PowerRowIs, DotInByte
    <3>8. h[0] = 0
      <4>1. 0 \in 0 .. l
        BY <2>1
      <4>2. h[0] \in Byte
        BY <3>4, <4>1
      <4> DEFINE z == Dot(m, PowerRow(m, a), q)
      <4>3. z \in Byte
        BY <3>7, <3>a
      <4>4. 0 = add(h[0], mul(add(a, a), z))
        BY <2>3, <3>2, <3>6, <3>a
      <4> HIDE DEF z
      <4>5. add(a, a) = 0 /\ mul(0, z) = 0 /\ add(h[0], 0) = h[0]
        BY <3>a, <4>2, <4>3, Products, Sums
      <4> QED
        BY <4>4, <4>5
    <3>9. ASSUME NEW t \in C
          PROVE  Dot(m, PowerRow(m, t), q) = 0
      <4>1. t \in B /\ t \in Byte /\ t # a
        OBVIOUS
      <4> DEFINE z == Dot(m, PowerRow(m, t), q)
      <4>2. z \in Byte
        BY <3>7, <4>1
      <4>3. 0 = add(0, mul(add(t, a), z))
        BY <2>3, <3>6, <3>8, <4>1
      <4> HIDE DEF z
      <4>4. add(t, a) \in Byte /\ add(t, a) # 0
        BY <3>a, <4>1, Sums, SumsCancel
      <4>5. mul(add(t, a), z) \in Byte /\ (mul(add(t, a), z) = 0 => z = 0)
        BY <4>2, <4>4, Products
      <4>6. add(0, mul(add(t, a), z)) = mul(add(t, a), z)
        BY <4>5, Sums
      <4>7. z = 0
        BY <4>3, <4>5, <4>6
      <4> QED
        BY <4>7 DEF z
    <3>10. \A k \in 0 .. m - 1 : q[k] = 0
      <4> HIDE DEF q, C
      <4> QED
        BY <2>2, <3>3, <3>5, <3>9
    <3>11. \A j \in 0 .. l : h[j] = 0
      <4>1. ASSUME NEW j \in 0 .. l PROVE h[j] = 0
        <5>1. CASE j = 0
          BY <3>8, <5>1
        <5>2. CASE j = l
          BY <3>4, <5>2
        <5>3. CASE j # 0 /\ j # l
          <6>1. j - 1 \in 0 .. m - 1 /\ (j - 1) + 1 = j
            BY <2>1, <5>3 DEF l
          <6>2. q[j - 1] = h[j]
            BY <6>1
          <6> QED
            BY <3>10, <6>1, <6>2
        <5> QED
          BY <5>1, <5>2, <5>3
      <4> QED
        BY <4>1
    <3>12. ASSUME NEW k \in 0 .. l - 1
           PROVE  y[k] = 0
      <4>1. k \in 0 .. l /\ k + 1 \in 0 .. l
        BY <2>1
      <4>2. y[k] \in Byte
        BY DEF Vectors
      <4>3. 0 = add(y[k], mul(a, 0))
        BY <3>4, <3>11, <4>1
      <4>4. mul(a, 0) = 0 /\ add(y[k], 0) = y[k]
        BY <3>a, <4>2, Products, Sums
      <4> QED
        BY <4>3, <4>4
    <3> QED
      BY <3>12
  <2>4. Vanish(l)
    BY <2>3
  <2> QED
    BY <2>1, <2>4 DEF l
<1> HIDE DEF good
<1>3. \A m \in 0 .. n : m \in good
  BY <1>1, <1>2, UpTo
<1>4. n \in good
  BY <1>3
<1>5. Vanish(n)
  BY <1>4 DEF good
<1> QED
  BY <1>5

LEMMA SmallNth ==
  ASSUME NEW r \in 0 .. 255
  PROVE  nth(r) = r /\ r \in Byte
BY BytesAre DEF nth, FIELD_SIZE

LEMMA VandermondeAnyRows ==
  ASSUME NEW d \in Nat, NEW total \in Nat, total <= 256
  PROVE  AnyRows(vandermonde(total, d), d, total)
<1> SUFFICES ASSUME NEW S \in SUBSET (0 .. total - 1), NEW x \in Vectors(d), Cardinality(S) = d,
                    \A r \in S : Dot(d, vandermonde(total, d)[r], x) = 0
             PROVE  \A k \in 0 .. d - 1 : x[k] = 0
  BY DEF AnyRows
<1>1. \A r \in S : r \in 0 .. 255
  OBVIOUS
<1>2. S \in SUBSET Byte
  BY <1>1, SmallNth
<1>3. ASSUME NEW r \in S
      PROVE  Dot(d, PowerRow(d, r), x) = 0
  <2>1. vandermonde(total, d)[r] = [c \in 0 .. d - 1 |-> exp(nth(r), c)]
    BY DEF vandermonde
  <2>2. vandermonde(total, d)[r] = PowerRow(d, r)
    BY <1>1, <2>1, SmallNth DEF PowerRow
  <2> QED
    BY <2>2
<1> QED
  BY <1>2, <1>3, RootsAreFew

\* The vector that a matrix takes x to.
Image(d, m, x) == [k \in 0 .. d - 1 |-> Dot(d, m[k], x)]

LEMMA ImageIs ==
  ASSUME NEW d \in Nat, NEW m \in Matrices(d, d), NEW x \in Vectors(d)
  PROVE  Image(d, m, x) \in Vectors(d)
<1>1. \A k \in 0 .. d - 1 : IsVector(d, m[k])
  BY ColumnsAndRows
<1>2. IsVector(d, x)
  BY DEF Vectors, IsVector
<1>3. \A k \in 0 .. d - 1 : Dot(d, m[k], x) \in Byte
  BY <1>1, <1>2, DotInByte
<1> QED
  BY <1>3 DEF Image, Vectors

LEMMA DotWithImage ==
  ASSUME NEW d \in Nat, NEW m \in Matrices(d, d), NEW x \in Vectors(d),
         NEW row, IsVector(d, row), NEW outer,
         \A j \in 0 .. d - 1 : outer[j] = Dot(d, row, Column(d, m, j))
  PROVE  Dot(d, outer, x) = Dot(d, row, Image(d, m, x))
<1> DEFINE inner == Image(d, m, x)
<1>1. \A k \in 0 .. d - 1 : IsVector(d, m[k])
  BY ColumnsAndRows
<1>2. IsVector(d, x)
  BY DEF Vectors, IsVector
<1>3. \A k \in 0 .. d - 1 : inner[k] = Dot(d, m[k], x)
  BY DEF Image
<1> HIDE DEF inner
<1>4. Dot(d, row, inner) = Dot(d, outer, x)
  BY ONLY d \in Nat, IsVector(d, row), <1>1, <1>2, <1>3,
          \A j \in 0 .. d - 1 : outer[j] = Dot(d, row, Column(d, m, j)), DotsExchange
<1> QED
  BY <1>4 DEF inner

LEMMA DotWithZero ==
  ASSUME NEW d \in Nat, NEW row, IsVector(d, row), NEW x, \A k \in 0 .. d - 1 : x[k] = 0
  PROVE  Dot(d, row, x) = 0
<1>1. IsVector(d, x)
  BY SmallBytes DEF IsVector
<1>2. \A k \in 0 .. d - 1 : mul(row[k], x[k]) = 0
  BY Products DEF IsVector
<1> QED
  BY <1>1, <1>2, DotOfZeros

\* Any d rows of the matrix that build_matrix (core/codec.rs) makes.
LEMMA BuildMatrixAnyRows ==
  ASSUME NEW d \in Nat \ {0}, NEW total \in Nat, d <= total, total <= 256,
         NEW E, E = build_matrix(d, total)
  PROVE  E # InvalidCustomMatrix /\ AnyRows(E, d, total)
<1> DEFINE v == vandermonde(total, d)
           top == sub_matrix(v, 0, 0, d, d)
           B == invert(top)
<1>0. d \in Nat
  OBVIOUS
<1>1. v \in Matrices(total, d) /\ AnyRows(v, d, total)
  BY VandermondeIs, VandermondeAnyRows
<1>2. E = Systematic(v, B)
  BY DEF build_matrix
<1>3. top = [r \in 0 .. d - 1 |-> [c \in 0 .. d - 1 |-> v[r][c]]]
  <2>1. d - 0 - 1 = d - 1 /\ \A r \in 0 .. d - 1 : 0 + r = r
    OBVIOUS
  <2> HIDE DEF v
  <2> QED
    BY <2>1 DEF sub_matrix
<1> HIDE DEF v, top, B
<1>4. \A r \in 0 .. d - 1 : top[r] = v[r] /\ r \in 0 .. total - 1 /\ v[r] \in [0 .. d - 1 -> Byte]
  <2>1. \A r \in 0 .. d - 1 : r \in 0 .. total - 1
    OBVIOUS
  <2>2. \A r \in 0 .. d - 1 : v[r] \in [0 .. d - 1 -> Byte]
    BY <1>1, <2>1 DEF Matrices
  <2> QED
    BY <1>3, <2>1, <2>2
<1>5. top \in Matrices(d, d)
  BY <1>3, <1>4 DEF Matrices
<1>6. NoKernel(d, top)
  <2> SUFFICES ASSUME NEW x \in Vectors(d), \A r \in 0 .. d - 1 : Dot(d, top[r], x) = 0
               PROVE  \A k \in 0 .. d - 1 : x[k] = 0
    BY DEF NoKernel
  <2>1. \A r \in 0 .. d - 1 : Dot(d, v[r], x) = 0
    BY <1>4
  <2>2. 0 .. d - 1 \in SUBSET (0 .. total - 1) /\ Cardinality(0 .. d - 1) = d
    BY <1>4, CountFromZero
  <2> QED
    BY <1>1, <2>1, <2>2 DEF AnyRows
<1>7. B # Singular
  BY <1>5, <1>6, NoKernelInverts DEF B
<1>8. B \in Matrices(d, d) /\ multiply(top, B) = identity(d)
  BY <1>5, <1>7, InvertInverts DEF B
<1>9. E = multiply(v, B)
  BY <1>2, <1>7 DEF Systematic
<1>10. E # InvalidCustomMatrix
  <2>1. E \in Matrices(total, d) /\ total \in Nat \ {0} /\ Singular = InvalidCustomMatrix
    BY <1>0, <1>1, <1>8, <1>9, MultiplyIs DEF Singular, InvalidCustomMatrix
  <2> QED
    BY <1>0, <2>1, SingularIsNone
<1>11. AnyRows(E, d, total)
  <2> SUFFICES ASSUME NEW S \in SUBSET (0 .. total - 1), NEW x \in Vectors(d), Cardinality(S) = d,
                      \A r \in S : Dot(d, E[r], x) = 0
               PROVE  \A k \in 0 .. d - 1 : x[k] = 0
    BY DEF AnyRows
  <2> DEFINE y == Image(d, B, x)
  <2>1. y \in Vectors(d)
    BY <1>0, <1>8, ImageIs
  <2>2. ASSUME NEW r \in S
        PROVE  Dot(d, v[r], y) = 0
    <3>1. r \in 0 .. total - 1 /\ IsVector(d, v[r])
      BY <1>0, <1>1, ColumnsAndRows
    <3>2. \A j \in 0 .. d - 1 : multiply(v, B)[r][j] = Dot(d, v[r], Column(d, B, j))
      BY ONLY <1>0, d \in Nat \ {0}, total \in Nat, <1>1, <1>8, <3>1, MultiplyIs, SMTT(30)
    <3> DEFINE row == v[r]
               outer == E[r]
    <3>3. \A j \in 0 .. d - 1 : outer[j] = Dot(d, row, Column(d, B, j))
      BY <1>9, <3>2
    <3>4. IsVector(d, row) /\ Dot(d, outer, x) = 0
      BY <3>1
    <3> HIDE DEF row, outer
    <3>5. Dot(d, outer, x) = Dot(d, row, Image(d, B, x))
      BY ONLY <1>0, <1>8, x \in Vectors(d), <3>3, <3>4, DotWithImage
    <3> QED
      BY <3>4, <3>5 DEF row
  <2> HIDE DEF y
  <2>3. \A k \in 0 .. d - 1 : y[k] = 0
    BY <1>1, <2>1, <2>2 DEF AnyRows
  <2>4. ASSUME NEW i \in 0 .. d - 1
        PROVE  x[i] = 0
    <3>1. IsVector(d, top[i]) /\ IsVector(d, x)
      BY <1>0, <1>5, ColumnsAndRows DEF Vectors, IsVector
    <3>2. \A j \in 0 .. d - 1 : multiply(top, B)[i][j] = Dot(d, top[i], Column(d, B, j))
      <4>1. \A r \in 0 .. d - 1 : \A j \in 0 .. d - 1 :
              multiply(top, B)[r][j] = Dot(d, top[r], Column(d, B, j))
        BY ONLY d \in Nat \ {0}, <1>5, <1>8, ProductIs
      <4> QED
        BY ONLY <4>1, i \in 0 .. d - 1
    <3> DEFINE row == top[i]
               outer == identity(d)[i]
    <3>3. \A j \in 0 .. d - 1 : outer[j] = Dot(d, row, Column(d, B, j))
      BY <1>8, <3>2
    <3>4. \A j \in 0 .. d - 1 : outer[j] = IF j = i THEN 1 ELSE 0
      BY <1>0, IdentityIs
    <3>5. IsVector(d, row)
      BY <3>1
    <3> HIDE DEF row, outer
    <3>6. Dot(d, outer, x) = Dot(d, row, y)
      BY ONLY <1>0, <1>8, x \in Vectors(d), <3>3, <3>5, DotWithImage DEF y
    <3>7. Dot(d, outer, x) = x[i]
      <4>1. IsVector(d, x)
        BY <3>1
      <4> QED
        BY ONLY <1>0, <4>1, <3>4, i \in 0 .. d - 1, DotUnit
    <3>8. Dot(d, row, y) = 0
      BY ONLY <1>0, <2>3, <3>5, DotWithZero
    <3> QED
      BY <3>6, <3>7, <3>8
  <2> QED
    BY <2>4
<1> QED
  BY <1>10, <1>11

\* Sums of the same products are the same.
LEMMA DotOfProducts ==
  ASSUME NEW n \in Nat, NEW a, NEW b, NEW u, NEW v,
         IsVector(n, a), IsVector(n, b), IsVector(n, u), IsVector(n, v),
         \A k \in 0 .. n - 1 : mul(u[k], v[k]) = mul(a[k], b[k])
  PROVE  Dot(n, u, v) = Dot(n, a, b)
<1> DEFINE good == {k \in 0 .. n : Dot(k, u, v) = Dot(k, a, b)}
<1>1. 0 \in good
  <2>1. Dot(0, u, v) = 0 /\ Dot(0, a, b) = 0 /\ 0 \in 0 .. n
    BY DotSteps
  <2> QED
    BY <2>1
<1>2. ASSUME NEW k \in 0 .. n - 1, k \in good
      PROVE  k + 1 \in good
  <2>1. k + 1 \in 0 .. n
    OBVIOUS
  <2>2. Dot(k + 1, u, v) = add(Dot(k, u, v), mul(u[k], v[k]))
    BY DotNext
  <2>3. Dot(k + 1, a, b) = add(Dot(k, a, b), mul(a[k], b[k]))
    BY DotNext
  <2> QED
    BY <1>2, <2>1, <2>2, <2>3
<1> HIDE DEF good
<1>3. \A k \in 0 .. n : k \in good
  BY <1>1, <1>2, UpTo
<1> QED
  BY <1>3 DEF good

\* Two products of three factors each with the same factors.
LEMMA ProductsMove ==
  ASSUME NEW x \in Byte, NEW y \in Byte, NEW z \in Byte
  PROVE  /\ mul(x, mul(y, z)) = mul(y, mul(x, z))
         /\ mul(mul(x, y), z) = mul(x, mul(y, z))
         /\ mul(mul(x, y), z) = mul(mul(x, z), y)
<1>1. mul(x, y) \in Byte /\ mul(x, z) \in Byte /\ mul(y, z) \in Byte
  BY Products
<1>2. mul(mul(x, y), z) = mul(x, mul(y, z)) /\ mul(mul(y, x), z) = mul(y, mul(x, z))
  BY ProductsAssociate
<1>3. mul(mul(x, z), y) = mul(x, mul(z, y))
  BY ProductsAssociate
<1>4. mul(x, y) = mul(y, x) /\ mul(z, y) = mul(y, z)
  BY Products
<1> QED
  BY <1>2, <1>3, <1>4

\* The row of a Cauchy matrix for element a.
CauchyRow(d, a) == [c \in 0 .. d - 1 |-> div(1, add(a, c))]

LEMMA CauchyRowIs ==
  ASSUME NEW d \in Nat, d <= 256, NEW a \in Byte, a >= d
  PROVE  /\ IsVector(d, CauchyRow(d, a))
         /\ \A c \in 0 .. d - 1 :
              /\ c \in Byte /\ add(a, c) \in Byte /\ add(a, c) # 0
              /\ CauchyRow(d, a)[c] # 0
              /\ mul(add(a, c), CauchyRow(d, a)[c]) = 1
<1>1. \A c \in 0 .. d - 1 : c \in Byte /\ a # c
  <2>1. \A c \in 0 .. d - 1 : c \in 0 .. 255 /\ a # c
    BY BytesAre
  <2> QED
    BY <2>1, BytesAre
<1>2. \A c \in 0 .. d - 1 : add(a, c) \in Byte /\ add(a, c) # 0
  BY <1>1, Sums, SumsCancel
<1>3. \A c \in 0 .. d - 1 : CauchyRow(d, a)[c] = div(1, add(a, c))
  BY DEF CauchyRow
<1>4. \A c \in 0 .. d - 1 :
        /\ CauchyRow(d, a)[c] \in Byte /\ CauchyRow(d, a)[c] # 0
        /\ mul(add(a, c), CauchyRow(d, a)[c]) = 1
  BY <1>2, <1>3, Inverses
<1> QED
  BY <1>1, <1>2, <1>4 DEF IsVector

\* i and j are the inverses of (a + c) and (q + c): the elements of two rows of
\* a Cauchy matrix in one column.
InOneColumn(a, q, c, e, i, j) ==
  /\ a \in Byte /\ q \in Byte /\ c \in Byte /\ e \in Byte /\ i \in Byte /\ j \in Byte
  /\ mul(add(a, c), i) = 1 /\ mul(add(q, c), j) = 1

LEMMA CauchyStep ==
  ASSUME NEW a, NEW q, NEW c, NEW e, NEW i, NEW j, InOneColumn(a, q, c, e, i, j)
  PROVE  add(mul(add(a, e), i), mul(add(q, e), j))
           = mul(add(a, q), mul(i, mul(add(c, e), j)))
<1> DEFINE f == add(c, e)
           s == add(a, c)
           t == add(q, c)
<1>t. /\ a \in Byte /\ q \in Byte /\ c \in Byte /\ e \in Byte /\ i \in Byte /\ j \in Byte
      /\ mul(s, i) = 1 /\ mul(t, j) = 1
  BY DEF InOneColumn
<1>0. f \in Byte /\ s \in Byte /\ t \in Byte /\ 1 \in Byte
  BY <1>t, SmallBytes, Sums
<1>1. add(a, e) = add(s, f) /\ add(q, e) = add(t, f) /\ add(a, q) = add(s, t)
  <2>1. ASSUME NEW x \in Byte, NEW y \in Byte
        PROVE  add(add(x, c), add(c, y)) = add(x, y)
    <3>1. add(c, y) \in Byte /\ add(c, c) = 0 /\ add(0, y) = y
      BY <1>t, Sums
    <3>2. add(add(x, c), add(c, y)) = add(x, add(c, add(c, y)))
      BY <1>t, <3>1, SumsAssociate
    <3>3. add(c, add(c, y)) = add(add(c, c), y)
      BY <1>t, SumsAssociate
    <3> QED
      BY <3>1, <3>2, <3>3
  <2>2. add(c, q) = add(q, c)
    BY <1>t, Sums
  <2> QED
    BY <1>t, <2>1, <2>2
<1> HIDE DEF f, s, t
<1>2. mul(add(s, f), i) = add(1, mul(f, i)) /\ mul(add(t, f), j) = add(1, mul(f, j))
  BY <1>0, <1>t, Distributes
<1>3. add(add(1, mul(f, i)), add(1, mul(f, j))) = add(mul(f, i), mul(f, j))
  <2> DEFINE x == mul(f, i)
             y == mul(f, j)
  <2>1. x \in Byte /\ y \in Byte
    BY <1>0, <1>t, Products
  <2> HIDE DEF x, y
  <2>2. add(add(1, x), add(1, y)) = add(add(1, 1), add(x, y))
    BY <1>0, <2>1, SumsExchange
  <2>3. add(1, 1) = 0 /\ add(x, y) \in Byte
    BY <1>0, <2>1, Sums
  <2>4. add(0, add(x, y)) = add(x, y)
    BY <2>3, Sums
  <2>5. add(add(1, x), add(1, y)) = add(x, y)
    BY <2>2, <2>3, <2>4
  <2> QED
    BY <2>5 DEF x, y
<1>4. add(mul(f, i), mul(f, j)) = mul(f, add(i, j))
  BY <1>0, <1>t, Distributes
<1>5. add(i, j) = mul(add(s, t), mul(i, j))
  <2>1. mul(i, j) \in Byte
    BY <1>t, Products
  <2>2. mul(add(s, t), mul(i, j)) = add(mul(s, mul(i, j)), mul(t, mul(i, j)))
    BY <1>0, <1>t, <2>1, Distributes
  <2>3. mul(s, mul(i, j)) = mul(mul(s, i), j) /\ mul(t, mul(i, j)) = mul(i, mul(t, j))
    BY <1>0, <1>t, ProductsMove
  <2>4. mul(1, j) = j /\ mul(i, 1) = i /\ add(j, i) = add(i, j)
    BY <1>t, Products, Sums
  <2> QED
    BY <1>t, <2>2, <2>3, <2>4
<1>6. mul(f, mul(add(s, t), mul(i, j))) = mul(add(s, t), mul(i, mul(f, j)))
  <2>1. mul(i, j) \in Byte /\ add(s, t) \in Byte
    BY <1>0, <1>t, Products, Sums
  <2>2. mul(f, mul(add(s, t), mul(i, j))) = mul(add(s, t), mul(f, mul(i, j)))
    BY <1>0, <1>t, <2>1, ProductsMove
  <2>3. mul(f, mul(i, j)) = mul(i, mul(f, j))
    BY <1>0, <1>t, ProductsMove
  <2> QED
    BY <2>2, <2>3
<1>7. add(mul(add(s, f), i), mul(add(t, f), j)) = mul(add(s, t), mul(i, mul(f, j)))
  BY <1>2, <1>3, <1>4, <1>5, <1>6
<1> QED
  BY <1>1, <1>7 DEF f

\* Row a of a Cauchy matrix with row q and column e taken out of the equations:
\* each element of x is scaled by one of these factors.
Scaling(d, q, e) == [c \in 0 .. d - 1 |-> mul(add(c, e), CauchyRow(d, q)[c])]

Reduction(d, x, q, e) == [c \in 0 .. d - 1 |-> mul(Scaling(d, q, e)[c], x[c])]

LEMMA ReductionIs ==
  ASSUME NEW d \in Nat, d <= 256, NEW x \in Vectors(d), NEW q \in Byte, q >= d, NEW e \in 0 .. d - 1
  PROVE  /\ IsVector(d, Scaling(d, q, e)) /\ Reduction(d, x, q, e) \in Vectors(d)
         /\ Reduction(d, x, q, e)[e] = 0
         /\ \A c \in 0 .. d - 1 : x[c] = 0 => Reduction(d, x, q, e)[c] = 0
         /\ \A c \in 0 .. d - 1 : c # e /\ Reduction(d, x, q, e)[c] = 0 => x[c] = 0
<1> DEFINE row == CauchyRow(d, q)
           s == Scaling(d, q, e)
           y == Reduction(d, x, q, e)
<1>1. \A c \in 0 .. d - 1 : c \in Byte /\ row[c] \in Byte /\ row[c] # 0
  BY CauchyRowIs DEF IsVector
<1>2. \A c \in 0 .. d - 1 : s[c] = mul(add(c, e), row[c])
  BY DEF Scaling
<1>3. \A c \in 0 .. d - 1 : y[c] = mul(s[c], x[c])
  BY DEF Reduction
<1>x. \A c \in 0 .. d - 1 : x[c] \in Byte
  BY DEF Vectors
<1>y. y = [c \in 0 .. d - 1 |-> y[c]]
  BY DEF Reduction
<1> HIDE DEF row, s, y
<1>4. \A c \in 0 .. d - 1 : add(c, e) \in Byte /\ (c # e => add(c, e) # 0) /\ add(e, e) = 0
  BY <1>1, Sums, SumsCancel
<1>5. \A c \in 0 .. d - 1 : s[c] \in Byte /\ (c # e => s[c] # 0)
  BY <1>1, <1>2, <1>4, Products
<1>6. s[e] = 0
  <2>1. mul(0, row[e]) = 0
    BY <1>1, Products
  <2> QED
    BY <1>2, <1>4, <2>1
<1>7. \A c \in 0 .. d - 1 : y[c] \in Byte /\ (x[c] = 0 => y[c] = 0)
  BY <1>3, <1>5, <1>x, Products
<1>8. y[e] = 0
  <2>1. mul(0, x[e]) = 0
    BY <1>x, Products
  <2> QED
    BY <1>3, <1>6, <2>1
<1>9. \A c \in 0 .. d - 1 : c # e /\ y[c] = 0 => x[c] = 0
  BY <1>3, <1>5, <1>x, Products
<1>10. y \in Vectors(d)
  BY <1>7, <1>y DEF Vectors
<1>11. IsVector(d, s)
  BY <1>5 DEF IsVector
<1> QED
  BY <1>7, <1>8, <1>9, <1>10, <1>11 DEF s, y

LEMMA ReducedEquation ==
  ASSUME NEW d \in Nat, d <= 256, NEW x \in Vectors(d), NEW q \in Byte, q >= d, NEW e \in 0 .. d - 1,
         NEW a \in Byte, a >= d, a # q,
         Dot(d, CauchyRow(d, a), x) = 0, Dot(d, CauchyRow(d, q), x) = 0
  PROVE  Dot(d, CauchyRow(d, a), Reduction(d, x, q, e)) = 0
<1> DEFINE i == CauchyRow(d, a)
           j == CauchyRow(d, q)
           s == Scaling(d, q, e)
           y == Reduction(d, x, q, e)
           g == add(a, e)
           h == add(q, e)
           k == add(a, q)
           u == [c \in 0 .. d - 1 |-> mul(g, i[c])]
           v == [c \in 0 .. d - 1 |-> mul(h, j[c])]
           m == [c \in 0 .. d - 1 |-> mul(i[c], s[c])]
           w == [c \in 0 .. d - 1 |-> mul(k, m[c])]
<1>1. /\ IsVector(d, i) /\ IsVector(d, j) /\ IsVector(d, s)
      /\ \A c \in 0 .. d - 1 : mul(add(a, c), i[c]) = 1 /\ mul(add(q, c), j[c]) = 1 /\ c \in Byte
  <2>1. IsVector(d, i) /\ \A c \in 0 .. d - 1 : mul(add(a, c), i[c]) = 1 /\ c \in Byte
    BY CauchyRowIs
  <2>2. IsVector(d, j) /\ \A c \in 0 .. d - 1 : mul(add(q, c), j[c]) = 1
    BY CauchyRowIs
  <2> QED
    BY <2>1, <2>2, ReductionIs
<1>2. \A c \in 0 .. d - 1 : s[c] = mul(add(c, e), j[c])
  BY DEF Scaling
<1>3. \A c \in 0 .. d - 1 : y[c] = mul(s[c], x[c])
  BY DEF Reduction
<1>x. IsVector(d, x) /\ y \in Vectors(d) /\ IsVector(d, y)
  BY ReductionIs DEF Vectors, IsVector
<1>z. Dot(d, i, x) = 0 /\ Dot(d, j, x) = 0
  OBVIOUS
<1> HIDE DEF i, j, s, y
<1>4. e \in Byte /\ g \in Byte /\ h \in Byte /\ k \in Byte /\ k # 0
  BY <1>1, Sums, SumsCancel
<1> HIDE DEF g, h, k
<1>5. IsVector(d, u) /\ \A c \in 0 .. d - 1 : u[c] = mul(g, i[c])
  BY <1>1, <1>4, Products DEF IsVector
<1>6. IsVector(d, v) /\ \A c \in 0 .. d - 1 : v[c] = mul(h, j[c])
  BY <1>1, <1>4, Products DEF IsVector
<1>7. IsVector(d, m) /\ \A c \in 0 .. d - 1 : m[c] = mul(i[c], s[c])
  BY <1>1, Products DEF IsVector
<1> HIDE DEF m
<1>8. IsVector(d, w) /\ \A c \in 0 .. d - 1 : w[c] = mul(k, m[c])
  BY <1>4, <1>7, Products DEF IsVector
<1> HIDE DEF u, v, w
<1>9. ASSUME NEW c \in 0 .. d - 1
      PROVE  w[c] = add(u[c], v[c])
  <2> DEFINE ic == i[c]
             jc == j[c]
  <2>1. ic \in Byte /\ jc \in Byte /\ c \in Byte /\ mul(add(a, c), ic) = 1 /\ mul(add(q, c), jc) = 1
    BY <1>1 DEF IsVector
  <2>2. u[c] = mul(add(a, e), ic) /\ v[c] = mul(add(q, e), jc)
        /\ w[c] = mul(add(a, q), mul(ic, mul(add(c, e), jc)))
    BY <1>2, <1>5, <1>6, <1>7, <1>8 DEF g, h, k
  <2> HIDE DEF ic, jc
  <2>5. InOneColumn(a, q, c, e, ic, jc)
    BY <1>4, <2>1 DEF InOneColumn
  <2>3. add(mul(add(a, e), ic), mul(add(q, e), jc))
           = mul(add(a, q), mul(ic, mul(add(c, e), jc)))
    BY ONLY <2>5, CauchyStep
  <2> QED
    BY <2>2, <2>3
<1>10. Dot(d, u, x) = 0
  <2>1. Dot(d, u, x) = mul(g, Dot(d, i, x))
    BY ONLY d \in Nat, <1>1, <1>4, <1>5, <1>x, DotOfAMultiple
  <2>2. mul(g, 0) = 0
    BY <1>4, Products
  <2> QED
    BY <1>z, <2>1, <2>2
<1>11. Dot(d, v, x) = 0
  <2>1. Dot(d, v, x) = mul(h, Dot(d, j, x))
    BY ONLY d \in Nat, <1>1, <1>4, <1>6, <1>x, DotOfAMultiple
  <2>2. mul(h, 0) = 0
    BY <1>4, Products
  <2> QED
    BY <1>z, <2>1, <2>2
<1>12. Dot(d, w, x) = 0
  <2>1. Dot(d, w, x) = add(Dot(d, u, x), Dot(d, v, x))
    BY ONLY d \in Nat, <1>5, <1>6, <1>x, <1>9, DotOfASum
  <2>2. add(0, 0) = 0
    BY SmallBytes, Sums
  <2> QED
    BY <1>10, <1>11, <2>1, <2>2
<1>13. Dot(d, m, x) = 0
  <2>1. Dot(d, w, x) = mul(k, Dot(d, m, x))
    BY ONLY d \in Nat, <1>4, <1>7, <1>8, <1>x, DotOfAMultiple
  <2>2. Dot(d, m, x) \in Byte
    BY ONLY d \in Nat, <1>7, <1>x, DotInByte
  <2>3. mul(k, Dot(d, m, x)) = 0 => k = 0 \/ Dot(d, m, x) = 0
    BY ONLY <1>4, <2>2, Products
  <2> QED
    BY <1>4, <1>12, <2>1, <2>3
<1>14. Dot(d, i, y) = Dot(d, m, x)
  <2>1. ASSUME NEW c \in 0 .. d - 1
        PROVE  mul(i[c], y[c]) = mul(m[c], x[c])
    <3> DEFINE ic == i[c]
               sc == s[c]
               xc == x[c]
    <3>1. ic \in Byte /\ sc \in Byte /\ xc \in Byte
      BY <1>1, <1>x DEF IsVector
    <3>2. y[c] = mul(sc, xc) /\ m[c] = mul(ic, sc)
      BY <1>3, <1>7
    <3> HIDE DEF ic, sc, xc
    <3>3. mul(mul(ic, sc), xc) = mul(ic, mul(sc, xc))
      BY <3>1, ProductsAssociate
    <3>4. mul(ic, y[c]) = mul(m[c], xc)
      BY <3>2, <3>3
    <3> QED
      BY <3>4 DEF ic, xc
  <2> QED
    BY ONLY d \in Nat, <1>1, <1>7, <1>x, <2>1, DotOfProducts
<1>15. Dot(d, i, y) = 0
  BY <1>13, <1>14
<1> QED
  BY <1>15 DEF i, y

\* As many equations as there are unknowns: only zero fulfils them.
CauchySystem(d, n, x, C, A) ==
  /\ x \in Vectors(d)
  /\ C \subseteq 0 .. d - 1 /\ Cardinality(C) = n
  /\ A \subseteq d .. 255 /\ Cardinality(A) = n
  /\ \A c \in (0 .. d - 1) \ C : x[c] = 0
  /\ \A a \in A : Dot(d, CauchyRow(d, a), x) = 0

LEMMA CauchyZero ==
  ASSUME NEW d \in Nat, d <= 256, NEW n \in Nat, NEW x, NEW C, NEW A, CauchySystem(d, n, x, C, A)
  PROVE  \A c \in 0 .. d - 1 : x[c] = 0
<1> DEFINE Vanish(k) ==
             \A y, D, B : CauchySystem(d, k, y, D, B) => \A c \in 0 .. d - 1 : y[c] = 0
           good == {k \in 0 .. n : Vanish(k)}
<1>f. ASSUME NEW D \in SUBSET (0 .. d - 1) PROVE IsFiniteSet(D)
  <2>1. IsFiniteSet(0 .. d - 1)
    BY FS_Interval
  <2> QED
    BY <2>1, FS_Subset
<1>g. ASSUME NEW B \in SUBSET (d .. 255) PROVE IsFiniteSet(B) /\ B \subseteq Byte
  <2>1. IsFiniteSet(d .. 255)
    <3>1. 255 \in Int /\ d \in Int
      OBVIOUS
    <3> QED
      BY ONLY <3>1, FS_Interval
  <2>2. d .. 255 \subseteq Byte
    BY BytesAre
  <2>3. IsFiniteSet(B)
    BY <2>1, FS_Subset
  <2> QED
    BY <2>2, <2>3
<1>1. 0 \in good
  <2>1. ASSUME NEW y, NEW D, NEW B, CauchySystem(d, 0, y, D, B)
        PROVE  \A c \in 0 .. d - 1 : y[c] = 0
    <3>1. D \in SUBSET (0 .. d - 1) /\ Cardinality(D) = 0 /\ \A c \in (0 .. d - 1) \ D : y[c] = 0
      BY <2>1 DEF CauchySystem
    <3>2. IsFiniteSet(D)
      BY <1>f, <3>1
    <3>3. D = {}
      BY <3>1, <3>2, FS_EmptySet
    <3> QED
      BY <3>1, <3>3
  <2>2. Vanish(0)
    BY <2>1
  <2> QED
    BY <2>2
<1>2. ASSUME NEW k \in 0 .. n - 1, k \in good
      PROVE  k + 1 \in good
  <2>0. k \in Nat /\ k + 1 \in 0 .. n /\ (k + 1) - 1 = k /\ k + 1 # 0
    OBVIOUS
  <2>1. Vanish(k)
    BY <1>2
  <2>2. ASSUME NEW y, NEW D, NEW B, CauchySystem(d, k + 1, y, D, B)
        PROVE  \A c \in 0 .. d - 1 : y[c] = 0
    <3>0. /\ y \in Vectors(d) /\ D \in SUBSET (0 .. d - 1) /\ B \in SUBSET (d .. 255)
          /\ Cardinality(D) = k + 1 /\ Cardinality(B) = k + 1
          /\ \A c \in (0 .. d - 1) \ D : y[c] = 0
          /\ \A a \in B : Dot(d, CauchyRow(d, a), y) = 0
      BY <2>2 DEF CauchySystem
    <3>1. IsFiniteSet(D) /\ IsFiniteSet(B) /\ B \subseteq Byte
      BY <1>f, <1>g, <3>0
    <3>2. PICK e \in D, q \in B : TRUE
      <4>1. D # {} /\ B # {}
        BY <2>0, <3>0, FS_EmptySet
      <4> QED
        BY <4>1
    <3> DEFINE F == D \ {e}
               H == B \ {q}
               z == Reduction(d, y, q, e)
    <3>3. Cardinality(F) = k /\ Cardinality(H) = k
      <4>1. Cardinality(F) = Cardinality(D) - 1
        BY <3>1, <3>2, FS_RemoveElement
      <4>2. Cardinality(H) = Cardinality(B) - 1
        BY <3>1, <3>2, FS_RemoveElement
      <4> QED
        BY <2>0, <3>0, <4>1, <4>2
    <3>4. e \in 0 .. d - 1 /\ q \in Byte /\ q >= d
      BY <3>0, <3>1, <3>2
    <3>5. /\ z \in Vectors(d) /\ z[e] = 0
          /\ \A c \in 0 .. d - 1 : y[c] = 0 => z[c] = 0
          /\ \A c \in 0 .. d - 1 : c # e /\ z[c] = 0 => y[c] = 0
      BY ONLY d \in Nat, d <= 256, <3>0, <3>4, ReductionIs
    <3>6. ASSUME NEW a \in H
          PROVE  Dot(d, CauchyRow(d, a), z) = 0
      <4>1. a \in Byte /\ a >= d /\ a # q
        BY <3>0, <3>1, <3>2
      <4>2. Dot(d, CauchyRow(d, a), y) = 0 /\ Dot(d, CauchyRow(d, q), y) = 0
        BY <3>0, <3>2
      <4> QED
        BY ONLY d \in Nat, d <= 256, <3>0, <3>4, <4>1, <4>2, ReducedEquation
    <3> HIDE DEF z
    <3>7. \A c \in (0 .. d - 1) \ F : z[c] = 0
      BY <3>0, <3>5
    <3>8. F \subseteq 0 .. d - 1 /\ H \subseteq d .. 255
      BY <3>0
    <3> HIDE DEF F, H
    <3>9. \A c \in 0 .. d - 1 : z[c] = 0
      <4>1. CauchySystem(d, k, z, F, H)
        BY <3>3, <3>5, <3>6, <3>7, <3>8 DEF CauchySystem
      <4> QED
        BY <2>1, <4>1
    <3>10. \A c \in 0 .. d - 1 : c # e => y[c] = 0
      BY <3>5, <3>9
    <3>11. y[e] = 0
      <4> DEFINE row == CauchyRow(d, q)
      <4>1. IsVector(d, row) /\ row[e] # 0
        BY <3>4, CauchyRowIs
      <4>2. Dot(d, row, y) = 0
        BY <3>0, <3>2
      <4>3. IsVector(d, y)
        BY <3>0 DEF Vectors, IsVector
      <4> HIDE DEF row
      <4>4. \A c \in 0 .. d - 1 : c # e => mul(row[c], y[c]) = 0
        <5>1. \A c \in 0 .. d - 1 : mul(row[c], 0) = 0
          BY <4>1, Products DEF IsVector
        <5> QED
          BY <3>10, <5>1
      <4>5. Dot(d, row, y) = mul(row[e], y[e])
        BY ONLY d \in Nat, <3>4, <4>1, <4>3, <4>4, DotPick
      <4>6. row[e] \in Byte /\ y[e] \in Byte
        BY <3>4, <4>1, <4>3 DEF IsVector
      <4>7. mul(row[e], y[e]) = 0 => row[e] = 0 \/ y[e] = 0
        BY ONLY <4>6, Products
      <4> QED
        BY <4>1, <4>2, <4>5, <4>7
    <3> QED
      BY <3>10, <3>11
  <2>3. Vanish(k + 1)
    BY <2>2
  <2> QED
    BY <2>0, <2>3
<1> HIDE DEF good
<1>3. \A k \in 0 .. n : k \in good
  BY <1>1, <1>2, UpTo
<1>4. n \in good
  BY <1>3
<1>5. Vanish(n)
  BY <1>4 DEF good
<1> QED
  BY <1>5

\* Any d rows of the matrix that build_cauchy_matrix (core/codec.rs) makes.
LEMMA CauchyAnyRows ==
  ASSUME NEW d \in Nat \ {0}, NEW total \in Nat, d <= total, total <= 256,
         NEW E, E = build_cauchy_matrix(d, total)
  PROVE  E # InvalidCustomMatrix /\ AnyRows(E, d, total)
<1> DEFINE D == 0 .. d - 1
           rows == [r \in 0 .. total - 1 |->
                     IF r < d THEN identity(d)[r] ELSE [c \in 0 .. d - 1 |-> div(1, add(nth(r), nth(c)))]]
<1>0. d \in Nat /\ d <= 256
  OBVIOUS
<1>1. ASSUME NEW r \in d .. total - 1
      PROVE  /\ nth(r) = r /\ r \in Byte /\ r >= d
             /\ \A c \in 0 .. d - 1 : nth(c) = c /\ add(nth(r), nth(c)) # 0
  <2>1. r \in 0 .. 255 /\ \A c \in 0 .. d - 1 : c \in 0 .. 255
    OBVIOUS
  <2>2. nth(r) = r /\ r \in Byte /\ \A c \in 0 .. d - 1 : nth(c) = c
    BY <2>1, SmallNth
  <2>3. \A c \in 0 .. d - 1 : add(r, c) # 0
    BY <1>0, <2>2, CauchyRowIs
  <2> QED
    BY <2>2, <2>3
<1>2. E = rows
  BY <1>1 DEF build_cauchy_matrix
<1>3. \A r \in 0 .. d - 1 : E[r] = identity(d)[r] /\ r \in 0 .. total - 1
  BY <1>2
<1>4. ASSUME NEW r \in d .. total - 1
      PROVE  E[r] = CauchyRow(d, r)
  <2>1. E[r] = [c \in 0 .. d - 1 |-> div(1, add(nth(r), nth(c)))]
    <3>1. r \in 0 .. total - 1 /\ ~(r < d)
      OBVIOUS
    <3> QED
      BY <1>2, <3>1
  <2>2. \A c \in 0 .. d - 1 : div(1, add(nth(r), nth(c))) = div(1, add(r, c))
    BY <1>1
  <2> QED
    BY <2>1, <2>2 DEF CauchyRow
<1>5. E # InvalidCustomMatrix
  <2>1. DOMAIN E = 0 .. total - 1 /\ 0 \in 0 .. total - 1
    BY <1>2
  <2>2. DOMAIN InvalidCustomMatrix = {}
    BY DEF InvalidCustomMatrix
  <2> QED
    BY <2>1, <2>2
<1> HIDE DEF rows
<1>6. AnyRows(E, d, total)
  <2> SUFFICES ASSUME NEW S \in SUBSET (0 .. total - 1), NEW x \in Vectors(d), Cardinality(S) = d,
                      \A r \in S : Dot(d, E[r], x) = 0
               PROVE  \A k \in 0 .. d - 1 : x[k] = 0
    BY DEF AnyRows
  <2> DEFINE R == S \ D
             C == D \ S
  <2>1. IsFiniteSet(S) /\ IsFiniteSet(D) /\ Cardinality(D) = d
    <3>1. IsFiniteSet(0 .. total - 1) /\ IsFiniteSet(D)
      BY FS_Interval
    <3>2. IsFiniteSet(S)
      BY <3>1, FS_Subset
    <3> QED
      BY <1>0, <3>1, <3>2, CountFromZero
  <2>2. Cardinality(R) = Cardinality(C) /\ Cardinality(R) \in Nat
    <3> HIDE DEF D
    <3>1. Cardinality(R) = Cardinality(S) - Cardinality(S \cap D) /\ IsFiniteSet(R)
      BY <2>1, FS_Difference
    <3>2. Cardinality(C) = Cardinality(D) - Cardinality(D \cap S)
      BY <2>1, FS_Difference
    <3>3. S \cap D = D \cap S
      OBVIOUS
    <3>4. Cardinality(R) \in Nat
      BY <3>1, FS_CardinalityType
    <3> QED
      BY <2>1, <3>1, <3>2, <3>3, <3>4
  <2>3. R \subseteq d .. total - 1 /\ R \subseteq d .. 255 /\ C \subseteq 0 .. d - 1
    OBVIOUS
  <2>4. ASSUME NEW r \in R
        PROVE  Dot(d, CauchyRow(d, r), x) = 0
    BY <1>4, <2>3
  <2>5. ASSUME NEW i \in D \ C
        PROVE  x[i] = 0
    <3>1. i \in 0 .. d - 1 /\ i \in S
      OBVIOUS
    <3> DEFINE row == E[i]
    <3>2. \A j \in 0 .. d - 1 : row[j] = IF j = i THEN 1 ELSE 0
      BY <1>0, <1>3, <3>1, IdentityIs
    <3>3. Dot(d, row, x) = 0
      BY <3>1
    <3>4. IsVector(d, x)
      BY DEF Vectors, IsVector
    <3> HIDE DEF row
    <3>5. Dot(d, row, x) = x[i]
      BY ONLY <1>0, <3>1, <3>2, <3>4, DotUnit
    <3> QED
      BY <3>3, <3>5
  <2> HIDE DEF R, C
  <2>6. CauchySystem(d, Cardinality(R), x, C, R)
    BY <2>2, <2>3, <2>4, <2>5 DEF CauchySystem
  <2> QED
    BY ONLY <1>0, <2>2, <2>6, CauchyZero
<1> QED
  BY <1>5, <1>6

\* Any d rows of a Vandermonde matrix with the row of the greatest power below it.
LEMMA ExtendedAnyRows ==
  ASSUME NEW d \in Nat \ {0}, NEW total \in Nat, d < total, total <= 256
  PROVE  AnyRows(ExtendedVandermonde(d, total), d, total)
<1> DEFINE E == ExtendedVandermonde(d, total)
           last == total - 1
           e == d - 1
<1>0. d \in Nat /\ e \in Nat /\ e + 1 = d /\ e \in 0 .. d - 1 /\ last \in 0 .. total - 1 /\ last # 0
  OBVIOUS
<1>1. ASSUME NEW r \in 0 .. total - 1, r # last
      PROVE  r \in Byte /\ E[r] = PowerRow(d, r)
  <2>1. nth(r) = r /\ r \in Byte
    BY SmallNth
  <2>2. CASE r = 0
    <3>1. E[r] = [c \in 0 .. d - 1 |-> IF c = 0 THEN 1 ELSE 0]
      BY <1>1, <2>2 DEF ExtendedVandermonde
    <3>2. \A c \in 0 .. d - 1 : exp(0, c) = IF c = 0 THEN 1 ELSE 0
      BY DEF exp
    <3> QED
      BY <2>1, <2>2, <3>1, <3>2 DEF PowerRow
  <2>3. CASE r # 0
    <3>1. E[r] = vandermonde(total, d)[r]
      BY <1>1, <2>3 DEF ExtendedVandermonde
    <3>2. E[r] = [c \in 0 .. d - 1 |-> exp(nth(r), c)]
      BY <3>1 DEF vandermonde
    <3> QED
      BY <2>1, <3>2 DEF PowerRow
  <2> QED
    BY <2>1, <2>2, <2>3
<1>2. E[last] = [c \in 0 .. d - 1 |-> IF c = d - 1 THEN 1 ELSE 0]
  BY <1>0 DEF ExtendedVandermonde
<1> HIDE DEF E, last
<1> SUFFICES ASSUME NEW S \in SUBSET (0 .. total - 1), NEW x \in Vectors(d), Cardinality(S) = d,
                    \A r \in S : Dot(d, E[r], x) = 0
             PROVE  \A k \in 0 .. d - 1 : x[k] = 0
  BY DEF AnyRows, E
<1>s. IsFiniteSet(S)
  <2>1. IsFiniteSet(0 .. total - 1)
    BY FS_Interval
  <2> QED
    BY <2>1, FS_Subset
<1>v. IsVector(d, x)
  BY DEF Vectors, IsVector
<1>3. CASE last \notin S
  <2>1. ASSUME NEW r \in S
        PROVE  r \in Byte /\ Dot(d, PowerRow(d, r), x) = 0
    BY <1>1, <1>3
  <2>2. S \in SUBSET Byte
    BY <2>1
  <2> QED
    BY ONLY <1>0, x \in Vectors(d), Cardinality(S) = d, <2>1, <2>2, RootsAreFew
<1>4. CASE last \in S
  <2> DEFINE A == S \ {last}
             y == [k \in 0 .. e - 1 |-> x[k]]
             row == E[last]
  <2>1. x[e] = 0
    <3>1. \A k \in 0 .. d - 1 : row[k] = IF k = e THEN 1 ELSE 0
      BY <1>2
    <3>2. Dot(d, row, x) = 0
      BY <1>4
    <3> HIDE DEF row
    <3>3. Dot(d, row, x) = x[e]
      BY ONLY <1>0, <1>v, <3>1, DotUnit
    <3> QED
      BY <3>2, <3>3
  <2>2. y \in Vectors(e) /\ IsVector(e, y)
    <3>1. \A k \in 0 .. e - 1 : x[k] \in Byte
      BY DEF Vectors
    <3> QED
      BY <3>1 DEF Vectors, IsVector
  <2>3. Cardinality(A) = e
    BY <1>s, <1>4, FS_RemoveElement
  <2>4. ASSUME NEW r \in A
        PROVE  r \in Byte /\ Dot(e, PowerRow(e, r), y) = 0
    <3> DEFINE long == PowerRow(d, r)
               short == PowerRow(e, r)
    <3>1. r \in 0 .. total - 1 /\ r # last /\ r \in S
      OBVIOUS
    <3>2. r \in Byte /\ Dot(d, long, x) = 0
      BY <1>1, <3>1
    <3>3. IsVector(d, long) /\ IsVector(e, short) /\ \A k \in 0 .. e - 1 : long[k] = short[k]
      <4>1. \A k \in 0 .. d - 1 : exp(r, k) \in Byte
        BY <3>2, ExpIs
      <4>2. \A k \in 0 .. e - 1 : k \in 0 .. d - 1
        BY <1>0
      <4> QED
        BY <4>1, <4>2 DEF PowerRow, IsVector
    <3> HIDE DEF long, short
    <3>4. Dot(d, long, x) = add(Dot(e, long, x), mul(long[e], x[e]))
      <4>1. Dot(e + 1, long, x) = add(Dot(e, long, x), mul(long[e], x[e]))
        BY ONLY <1>0, <1>v, <3>3, DotNext
      <4> QED
        BY <1>0, <4>1
    <3>5. Dot(e, long, x) = Dot(e, short, y)
      <4>1. \A k \in 0 .. e - 1 : long[k] = short[k] /\ x[k] = y[k]
        BY <3>3
      <4> QED
        BY ONLY <1>0, <2>2, <3>3, <4>1, DotSame
    <3>6. mul(long[e], x[e]) = 0
      <4>1. long[e] \in Byte
        BY <1>0, <3>3 DEF IsVector
      <4> QED
        BY <2>1, <4>1, Products
    <3>7. Dot(e, short, y) \in Byte
      BY ONLY <1>0, <2>2, <3>3, DotInByte
    <3>8. add(Dot(e, short, y), 0) = Dot(e, short, y)
      BY ONLY <3>7, Sums
    <3> QED
      BY <3>2, <3>4, <3>5, <3>6, <3>8 DEF short
  <2>5. A \in SUBSET Byte
    BY <2>4
  <2> HIDE DEF A, y
  <2>6. \A k \in 0 .. e - 1 : y[k] = 0
    BY ONLY <1>0, <2>2, <2>3, <2>4, <2>5, RootsAreFew
  <2>7. \A k \in 0 .. d - 1 : k = e \/ k \in 0 .. e - 1
    BY <1>0
  <2> QED
    BY <2>1, <2>6, <2>7 DEF y
<1> QED
  BY <1>3, <1>4

\* The rows may change places.
LEMMA SwapAnyRows ==
  ASSUME NEW d \in Nat, NEW total \in Nat, NEW m \in Matrices(total, d), AnyRows(m, d, total),
         NEW i \in 0 .. total - 1, NEW k \in 0 .. total - 1
  PROVE  AnyRows(swap_rows(m, i, k), d, total)
<1> DEFINE v == swap_rows(m, i, k)
<1>1. v[i] = m[k] /\ v[k] = m[i] /\ \A r \in 0 .. total - 1 : r # i /\ r # k => v[r] = m[r]
  BY SwapIs
<1> HIDE DEF v
<1> SUFFICES ASSUME NEW S \in SUBSET (0 .. total - 1), NEW x \in Vectors(d), Cardinality(S) = d,
                    \A r \in S : Dot(d, v[r], x) = 0
             PROVE  \A j \in 0 .. d - 1 : x[j] = 0
  BY DEF AnyRows, v
<1>s. IsFiniteSet(S)
  <2>1. IsFiniteSet(0 .. total - 1)
    BY FS_Interval
  <2> QED
    BY <2>1, FS_Subset
<1>2. ASSUME NEW a \in 0 .. total - 1, NEW b \in 0 .. total - 1, v[a] = m[b], v[b] = m[a],
             \A r \in 0 .. total - 1 : r # a /\ r # b => v[r] = m[r], a \in S, b \notin S
      PROVE  \A j \in 0 .. d - 1 : x[j] = 0
  <2> DEFINE T == (S \ {a}) \cup {b}
  <2>1. Cardinality(T) = d
    <3>1. Cardinality(S \ {a}) = d - 1 /\ IsFiniteSet(S \ {a})
      BY <1>s, <1>2, FS_RemoveElement
    <3>2. b \notin S \ {a}
      BY <1>2
    <3>3. Cardinality(T) = Cardinality(S \ {a}) + 1
      BY <3>1, <3>2, FS_AddElement
    <3> QED
      BY <3>1, <3>3
  <2>2. \A r \in T : Dot(d, m[r], x) = 0
    BY <1>2
  <2>3. T \in SUBSET (0 .. total - 1)
    OBVIOUS
  <2> QED
    BY <2>1, <2>2, <2>3 DEF AnyRows
<1>3. CASE i \in S /\ k \notin S
  BY <1>1, <1>2, <1>3
<1>4. CASE k \in S /\ i \notin S
  BY <1>1, <1>2, <1>4
<1>5. CASE i \in S <=> k \in S
  <2>1. \A r \in S : Dot(d, m[r], x) = 0
    BY <1>1, <1>5
  <2> QED
    BY <2>1 DEF AnyRows
<1> QED
  BY <1>3, <1>4, <1>5

\* The vector that the rows take where they take x after row i has become that
\* of the identity: the same but for element i.
Unspread(d, m, i, x) ==
  [[k \in 0 .. d - 1 |-> x[k]] EXCEPT
     ![i] = mul(div(1, m[i][i]), Dot(d, [k \in 0 .. d - 1 |-> IF k = i THEN 1 ELSE m[i][k]], x))]

\* An element of IdentityAt (the column operations of core/codec.rs).
Spreaded(m, i, r, j) ==
  IF j = i THEN mul(m[r][i], div(1, m[i][i]))
  ELSE add(m[r][j], mul(m[i][j], mul(m[r][i], div(1, m[i][i]))))

LEMMA IdentityAtEntries ==
  ASSUME NEW d \in Nat, NEW total \in Nat, NEW m \in Matrices(total, d), NEW i, NEW r \in 0 .. total - 1
  PROVE  \A j \in 0 .. d - 1 : IdentityAt(m, i)[r][j] = Spreaded(m, i, r, j)
<1>1. /\ DOMAIN m = 0 .. total - 1
      /\ \A k \in 0 .. total - 1 : DOMAIN m[k] = 0 .. d - 1
  BY MatrixShape
<1> QED
  BY <1>1 DEF IdentityAt, Spreaded

LEMMA UnspreadIs ==
  ASSUME NEW d \in Nat, NEW total \in Nat, d <= total, NEW m \in Matrices(total, d),
         NEW i \in 0 .. d - 1, m[i][i] # 0, NEW x \in Vectors(d), NEW r \in 0 .. total - 1
  PROVE  /\ Unspread(d, m, i, x) \in Vectors(d)
         /\ Dot(d, m[r], Unspread(d, m, i, x)) = Dot(d, IdentityAt(m, i)[r], x)
         /\ (\A k \in 0 .. d - 1 : Unspread(d, m, i, x)[k] = 0) => \A k \in 0 .. d - 1 : x[k] = 0
<1> DEFINE one == div(1, m[i][i])
           a == m[r]
           o == IdentityAt(m, i)[r]
           b == [k \in 0 .. d - 1 |-> IF k = i THEN 1 ELSE m[i][k]]
           p == [k \in 0 .. d - 1 |-> IF k = i THEN 0 ELSE m[r][k]]
           q == [k \in 0 .. d - 1 |-> IF k = i THEN m[r][i] ELSE 0]
           u == [k \in 0 .. d - 1 |-> mul(mul(m[r][i], div(1, m[i][i])), b[k])]
           t == mul(m[r][i], div(1, m[i][i]))
           s == Dot(d, b, x)
           z == Unspread(d, m, i, x)
<1>i. i \in 0 .. total - 1
  OBVIOUS
<1>a. \A k \in 0 .. d - 1 : m[r][k] \in Byte /\ m[i][k] \in Byte
  BY <1>i, MatrixShape
<1>1. one \in Byte /\ one # 0
  BY <1>a, Inverses
<1>2. IsVector(d, a) /\ IsVector(d, b) /\ IsVector(d, p) /\ IsVector(d, q) /\ IsVector(d, x)
  BY <1>a, SmallBytes DEF IsVector, Vectors
<1>3. a[i] \in Byte /\ t \in Byte /\ t = mul(a[i], one)
  BY <1>1, <1>a, Products
<1>4. \A k \in 0 .. d - 1 : o[k] = IF k = i THEN mul(m[r][i], div(1, m[i][i]))
                             ELSE add(m[r][k], mul(m[i][k], mul(m[r][i], div(1, m[i][i]))))
  BY IdentityAtEntries DEF Spreaded
<1>5. \A k \in 0 .. d - 1 : a[k] = add(p[k], q[k])
  BY <1>a, Sums
<1>6. /\ \A k \in 0 .. d - 1 : b[k] = (IF k = i THEN 1 ELSE m[i][k])
      /\ \A k \in 0 .. d - 1 : p[k] = (IF k = i THEN 0 ELSE m[r][k])
      /\ \A k \in 0 .. d - 1 : q[k] = (IF k = i THEN a[i] ELSE 0)
      /\ \A k \in 0 .. d - 1 : u[k] = mul(t, b[k])
  OBVIOUS
<1>7. \A k \in 0 .. d - 1 : z[k] = IF k = i THEN mul(one, s) ELSE x[k]
  BY DEF Unspread
<1>8. z = [k \in 0 .. d - 1 |-> z[k]]
  BY DEF Unspread
<1> HIDE DEF z, s, u, b, p, q
<1>9. s \in Byte
  BY ONLY d \in Nat, <1>2, DotInByte DEF s
<1>10. z \in Vectors(d) /\ IsVector(d, z)
  <2>1. \A k \in 0 .. d - 1 : z[k] \in Byte
    BY <1>1, <1>2, <1>7, <1>9, Products DEF IsVector
  <2> QED
    BY <1>8, <2>1 DEF Vectors, IsVector
<1>11. \A k \in 0 .. d - 1 : o[k] = add(p[k], u[k])
  <2>1. ASSUME NEW k \in 0 .. d - 1
        PROVE  o[k] = add(p[k], u[k])
    <3>1. CASE k = i
      <4>1. mul(t, 1) = t /\ add(0, t) = t
        BY <1>3, Products, Sums
      <4> QED
        BY <1>4, <1>6, <3>1, <4>1
    <3>2. CASE k # i
      <4>1. mul(t, m[i][k]) = mul(m[i][k], t)
        BY <1>3, <1>a, Products
      <4>2. o[k] = add(m[r][k], mul(m[i][k], t))
        BY <1>4, <3>2
      <4>3. p[k] = m[r][k] /\ u[k] = mul(t, m[i][k])
        BY <1>6, <3>2
      <4> QED
        BY <4>1, <4>2, <4>3
    <3> QED
      BY <3>1, <3>2
  <2> QED
    BY <2>1
<1>12. IsVector(d, u)
  BY <1>2, <1>3, <1>6, Products DEF IsVector
<1>d. d \in Nat /\ i \in 0 .. d - 1
  OBVIOUS
<1> HIDE DEF a, o, t, one
<1>13. Dot(d, o, x) = add(Dot(d, p, x), Dot(d, u, x))
  BY ONLY <1>d, <1>2, <1>11, <1>12, DotOfASum
<1>14. Dot(d, u, x) = mul(t, s)
  BY ONLY <1>d, <1>2, <1>3, <1>6, DotOfAMultiple DEF s
<1>15. Dot(d, a, z) = add(Dot(d, p, z), Dot(d, q, z))
  BY ONLY <1>d, <1>2, <1>5, <1>10, DotOfASum
<1>16. Dot(d, q, z) = mul(t, s)
  <2>1. \A k \in 0 .. d - 1 : k # i => mul(q[k], z[k]) = 0
    BY <1>6, <1>10, Products DEF IsVector
  <2>2. Dot(d, q, z) = mul(q[i], z[i])
    BY ONLY <1>d, <1>2, <1>10, <2>1, DotPick
  <2>3. q[i] = a[i] /\ z[i] = mul(one, s)
    BY <1>6, <1>7
  <2>4. mul(mul(a[i], one), s) = mul(a[i], mul(one, s))
    BY <1>1, <1>3, <1>9, ProductsAssociate
  <2> QED
    BY <1>3, <2>2, <2>3, <2>4
<1>17. Dot(d, p, z) = Dot(d, p, x)
  <2>1. ASSUME NEW k \in 0 .. d - 1
        PROVE  mul(p[k], z[k]) = mul(p[k], x[k])
    <3>1. CASE k = i
      <4>1. p[k] = 0 /\ z[k] \in Byte /\ x[k] \in Byte
        BY <1>2, <1>6, <1>10, <3>1 DEF IsVector
      <4> QED
        BY <4>1, Products
    <3>2. CASE k # i
      BY <1>7, <3>2
    <3> QED
      BY <3>1, <3>2
  <2> QED
    BY ONLY <1>d, <1>2, <1>10, <2>1, DotOfProducts
<1>18. ASSUME \A k \in 0 .. d - 1 : z[k] = 0
       PROVE  \A k \in 0 .. d - 1 : x[k] = 0
  <2>1. \A k \in 0 .. d - 1 : k # i => x[k] = 0
    BY <1>7, <1>18
  <2>2. mul(one, s) = 0
    BY <1>7, <1>18
  <2>3. s = 0
    BY <1>1, <1>9, <2>2, Products
  <2>4. \A k \in 0 .. d - 1 : k # i => mul(b[k], x[k]) = 0
    BY <1>2, <2>1, Products DEF IsVector
  <2>5. Dot(d, b, x) = mul(b[i], x[i])
    BY ONLY <1>d, <1>2, <2>4, DotPick
  <2>6. b[i] = 1 /\ mul(1, x[i]) = x[i]
    BY <1>2, <1>6, Products DEF IsVector
  <2>7. x[i] = 0
    BY <2>3, <2>5, <2>6 DEF s
  <2> QED
    BY <2>1, <2>7
<1>19. Dot(d, a, z) = Dot(d, o, x)
  BY <1>13, <1>14, <1>15, <1>16, <1>17
<1> QED
  BY <1>10, <1>18, <1>19 DEF a, o, z

LEMMA IdentityAtAnyRows ==
  ASSUME NEW d \in Nat, NEW total \in Nat, d <= total, NEW m \in Matrices(total, d),
         AnyRows(m, d, total), NEW i \in 0 .. d - 1, m[i][i] # 0
  PROVE  AnyRows(IdentityAt(m, i), d, total)
<1> DEFINE E == IdentityAt(m, i)
<1> SUFFICES ASSUME NEW S \in SUBSET (0 .. total - 1), NEW x \in Vectors(d), Cardinality(S) = d,
                    \A r \in S : Dot(d, E[r], x) = 0
             PROVE  \A j \in 0 .. d - 1 : x[j] = 0
  BY DEF AnyRows
<1> DEFINE z == Unspread(d, m, i, x)
<1>1. \A r \in S : Dot(d, m[r], z) = 0
  BY UnspreadIs
<1>2. /\ z \in Vectors(d)
      /\ (\A k \in 0 .. d - 1 : z[k] = 0) => \A k \in 0 .. d - 1 : x[k] = 0
  <2>1. i \in 0 .. total - 1
    OBVIOUS
  <2> QED
    BY <2>1, UnspreadIs
<1> HIDE DEF z
<1> QED
  BY <1>1, <1>2 DEF AnyRows

\* One of d rows has something other than zero in each column.
LEMMA ColumnIsUsed ==
  ASSUME NEW d \in Nat, NEW total \in Nat, NEW m \in Matrices(total, d), AnyRows(m, d, total),
         NEW S \in SUBSET (0 .. total - 1), Cardinality(S) = d, NEW c \in 0 .. d - 1
  PROVE  \E r \in S : m[r][c] # 0
<1> SUFFICES ASSUME \A r \in S : m[r][c] = 0
             PROVE  FALSE
  OBVIOUS
<1> DEFINE e == [k \in 0 .. d - 1 |-> IF k = c THEN 1 ELSE 0]
<1>1. e \in Vectors(d) /\ e[c] = 1 /\ \A k \in 0 .. d - 1 : e[k] = IF k = c THEN 1 ELSE 0
  BY SmallBytes DEF Vectors
<1> HIDE DEF e
<1>2. ASSUME NEW r \in S
      PROVE  Dot(d, m[r], e) = 0
  <2> DEFINE row == m[r]
  <2>1. IsVector(d, row) /\ row[c] = 0
    <3>1. r \in 0 .. total - 1
      OBVIOUS
    <3> QED
      BY <3>1, ColumnsAndRows
  <2> HIDE DEF row
  <2>2. Dot(d, row, e) = row[c]
    BY ONLY d \in Nat, c \in 0 .. d - 1, <1>1, <2>1, DotUnit
  <2> QED
    BY <2>1, <2>2 DEF row
<1>3. e[c] = 0
  BY <1>1, <1>2 DEF AnyRows
<1> QED
  BY <1>1, <1>3, SmallBytes

LEMMA AlwaysPivots ==
  ASSUME NEW d \in Nat, NEW total \in Nat, d < total, NEW m \in Matrices(total, d),
         AnyRows(m, d, total), NEW i \in 0 .. d - 1, TopIs(m, i, d)
  PROVE  Pivoted(m, i) \in Matrices(total, d) /\ AnyRows(Pivoted(m, i), d, total) /\ Pivoted(m, i)[i][i] # 0
<1>0. i \in 0 .. total - 1 /\ d <= total
  OBVIOUS
<1>1. Pivoted(m, i) \in Matrices(total, d)
  BY <1>0, PivotedTop
<1>2. AnyRows(Pivoted(m, i), d, total)
  <2>1. ASSUME NEW k \in i .. total - 1
        PROVE  AnyRows(swap_rows(m, i, k), d, total)
    <3>1. k \in 0 .. total - 1
      OBVIOUS
    <3> QED
      BY <1>0, <3>1, SwapAnyRows
  <2> QED
    BY <1>0, <2>1, PivotedIs
<1>3. ASSUME Pivoted(m, i)[i][i] = 0
      PROVE  FALSE
  <2>1. \A r \in i .. total - 1 : m[r][i] = 0
    BY <1>0, <1>3, NothingToPivot
  <2>2. \A r \in 0 .. i - 1 : m[r][i] = 0
    BY DEF TopIs
  <2>3. \A r \in 0 .. d - 1 : m[r][i] = 0
    <3>1. \A r \in 0 .. d - 1 : r \in 0 .. i - 1 \/ r \in i .. total - 1
      OBVIOUS
    <3> QED
      BY <2>1, <2>2, <3>1
  <2>4. 0 .. d - 1 \in SUBSET (0 .. total - 1) /\ Cardinality(0 .. d - 1) = d
    BY CountFromZero
  <2> QED
    BY <2>3, <2>4, ColumnIsUsed
<1> QED
  BY <1>1, <1>2, <1>3

\* Below the identity there is no zero.
LEMMA NoZeroBelow ==
  ASSUME NEW d \in Nat \ {0}, NEW total \in Nat, d < total, NEW m \in Matrices(total, d),
         AnyRows(m, d, total), TopIs(m, d, d), NEW r \in d .. total - 1, NEW c \in 0 .. d - 1
  PROVE  m[r][c] # 0
<1> DEFINE D == 0 .. d - 1
           S == (D \ {c}) \cup {r}
<1>1. IsFiniteSet(D) /\ Cardinality(D) = d
  BY FS_Interval, CountFromZero
<1>2. Cardinality(S) = d
  <2>0. c \in D /\ r \notin D \ {c}
    OBVIOUS
  <2> HIDE DEF D
  <2>1. Cardinality(D \ {c}) = d - 1 /\ IsFiniteSet(D \ {c})
    BY <1>1, <2>0, FS_RemoveElement
  <2>2. Cardinality(S) = Cardinality(D \ {c}) + 1
    BY <2>0, <2>1, FS_AddElement
  <2> QED
    BY <2>1, <2>2
<1>3. S \in SUBSET (0 .. total - 1)
  OBVIOUS
<1>4. PICK k \in S : m[k][c] # 0
  <2> HIDE DEF S
  <2> QED
    BY <1>2, <1>3, ColumnIsUsed
<1>5. \A j \in D \ {c} : m[j][c] = 0
  BY DEF TopIs
<1> QED
  BY <1>4, <1>5

LEMMA FirstRowOnesAnyRows ==
  ASSUME NEW d \in Nat \ {0}, NEW total \in Nat, d < total, NEW m \in Matrices(total, d),
         m # InvalidCustomMatrix, AnyRows(m, d, total), TopIs(m, d, d)
  PROVE  FirstRowOnes(m, d) # InvalidCustomMatrix /\ AnyRows(FirstRowOnes(m, d), d, total)
<1> DEFINE E == FirstRowOnes(m, d)
           inv == [c \in 0 .. d - 1 |-> div(1, m[d][c])]
<1>0. /\ DOMAIN m = 0 .. total - 1
      /\ \A r \in 0 .. total - 1 : DOMAIN m[r] = 0 .. d - 1 /\ \A c \in 0 .. d - 1 : m[r][c] \in Byte
  BY MatrixShape
<1>d. d \in Nat /\ d \in 0 .. total - 1 /\ \A r \in 0 .. d - 1 : r \in 0 .. total - 1
  OBVIOUS
<1>1. \A c \in 0 .. d - 1 : m[d][c] # 0
  <2>1. d \in d .. total - 1
    OBVIOUS
  <2> QED
    BY <2>1, NoZeroBelow
<1>2. E = [r \in 0 .. total - 1 |-> IF r < d THEN m[r] ELSE [c \in 0 .. d - 1 |-> mul(m[r][c], div(1, m[d][c]))]]
  BY <1>0, <1>1, <1>d DEF FirstRowOnes
<1>3. \A c \in 0 .. d - 1 : inv[c] \in Byte /\ inv[c] # 0
  <2>1. \A c \in 0 .. d - 1 : m[d][c] \in Byte
    BY <1>0, <1>d
  <2> QED
    BY <1>1, <2>1, Inverses
<1>4. \A r \in 0 .. total - 1 :
        /\ r < d => E[r] = m[r]
        /\ ~(r < d) => \A c \in 0 .. d - 1 : E[r][c] = mul(m[r][c], inv[c])
  BY <1>2
<1>e. \A r \in 0 .. d - 1 : E[r] = m[r]
  <2>1. \A r \in 0 .. d - 1 : r \in 0 .. total - 1 /\ r < d
    OBVIOUS
  <2> QED
    BY <1>4, <2>1
<1>5. E # InvalidCustomMatrix
  <2>1. DOMAIN E = 0 .. total - 1 /\ DOMAIN InvalidCustomMatrix = {}
    BY <1>2 DEF InvalidCustomMatrix
  <2> QED
    BY <1>d, <2>1
<1> HIDE DEF inv, E
<1>6. AnyRows(E, d, total)
  <2> SUFFICES ASSUME NEW S \in SUBSET (0 .. total - 1), NEW x \in Vectors(d), Cardinality(S) = d,
                      \A r \in S : Dot(d, E[r], x) = 0
               PROVE  \A j \in 0 .. d - 1 : x[j] = 0
    BY DEF AnyRows
  <2> DEFINE z == [c \in 0 .. d - 1 |-> mul(inv[c], x[c])]
  <2>1. z \in Vectors(d) /\ IsVector(d, z) /\ IsVector(d, x) /\ \A c \in 0 .. d - 1 : z[c] = mul(inv[c], x[c])
    BY <1>3, Products DEF Vectors, IsVector
  <2> HIDE DEF z
  <2>2. ASSUME NEW r \in S
        PROVE  Dot(d, m[r], z) = 0
    <3> DEFINE a == m[r]
               o == E[r]
    <3>0. r \in 0 .. total - 1
      OBVIOUS
    <3>1. IsVector(d, a) /\ Dot(d, o, x) = 0
      BY <1>0, <3>0 DEF IsVector
    <3>2. CASE r < d
      <4>0. r \in 0 .. d - 1
        BY <3>0, <3>2
      <4>t. \A c \in 0 .. d - 1 : m[r][c] = IF r = c THEN 1 ELSE 0
        BY ONLY TopIs(m, d, d), <4>0 DEF TopIs
      <4>o. E[r] = m[r]
        BY <1>e, <4>0
      <4>1. o = a /\ \A c \in 0 .. d - 1 : a[c] = IF c = r THEN 1 ELSE 0
        BY <4>t, <4>o
      <4> HIDE DEF a, o
      <4>2. Dot(d, a, x) = x[r] /\ Dot(d, a, z) = z[r]
        BY ONLY <1>d, <2>1, <4>0, <4>1, DotUnit
      <4>3. x[r] = 0 /\ inv[r] \in Byte
        BY <1>3, <3>1, <4>0, <4>1, <4>2
      <4>4. z[r] = 0
        BY <2>1, <4>0, <4>3, Products
      <4> QED
        BY <4>2, <4>4 DEF a
    <3>3. CASE ~(r < d)
      <4>1. \A c \in 0 .. d - 1 : o[c] = mul(a[c], inv[c])
        BY <1>4, <3>0, <3>3
      <4> HIDE DEF a, o
      <4>2. IsVector(d, o)
        BY <1>3, <3>1, <4>1, Products DEF IsVector
      <4>3. \A c \in 0 .. d - 1 : mul(a[c], z[c]) = mul(o[c], x[c])
        <5>1. \A c \in 0 .. d - 1 : a[c] \in Byte /\ inv[c] \in Byte /\ x[c] \in Byte
          BY <1>3, <2>1, <3>1 DEF IsVector
        <5>2. \A c \in 0 .. d - 1 : mul(mul(a[c], inv[c]), x[c]) = mul(a[c], mul(inv[c], x[c]))
          BY <5>1, ProductsAssociate
        <5> QED
          BY <2>1, <4>1, <5>2
      <4>4. Dot(d, a, z) = Dot(d, o, x)
        BY ONLY <1>d, <2>1, <3>1, <4>2, <4>3, DotOfProducts
      <4> QED
        BY <3>1, <4>4 DEF a
    <3> QED
      BY <3>2, <3>3
  <2>3. \A c \in 0 .. d - 1 : z[c] = 0
    BY <2>1, <2>2 DEF AnyRows
  <2>4. \A c \in 0 .. d - 1 : mul(inv[c], x[c]) = 0 /\ inv[c] # 0 /\ inv[c] \in Byte /\ x[c] \in Byte
    BY <1>3, <2>1, <2>3 DEF IsVector
  <2> QED
    BY <2>4, Products
<1> QED
  BY <1>5, <1>6 DEF E

LEMMA FirstColumnOnesAnyRows ==
  ASSUME NEW d \in Nat \ {0}, NEW total \in Nat, d < total, NEW m \in Matrices(total, d),
         m # InvalidCustomMatrix, AnyRows(m, d, total), TopIs(m, d, d)
  PROVE  FirstColumnOnes(m, d) # InvalidCustomMatrix /\ AnyRows(FirstColumnOnes(m, d), d, total)
<1> DEFINE E == FirstColumnOnes(m, d)
           scale(r) == div(1, m[r][0])
<1>0. /\ DOMAIN m = 0 .. total - 1
      /\ \A r \in 0 .. total - 1 : DOMAIN m[r] = 0 .. d - 1 /\ \A c \in 0 .. d - 1 : m[r][c] \in Byte
  BY MatrixShape
<1>d. d \in Nat /\ 0 \in 0 .. d - 1 /\ 0 \in 0 .. total - 1
  OBVIOUS
<1>1. \A r \in 0 .. total - 1 : r > d => m[r][0] # 0
  <2>1. \A r \in 0 .. total - 1 : r > d => r \in d .. total - 1
    OBVIOUS
  <2> QED
    BY <1>d, <2>1, NoZeroBelow
<1>2. E = [r \in 0 .. total - 1 |-> IF r <= d THEN m[r] ELSE [c \in 0 .. d - 1 |-> mul(scale(r), m[r][c])]]
  BY <1>0, <1>1 DEF FirstColumnOnes, Scaled
<1>3. \A r \in 0 .. total - 1 : r > d => scale(r) \in Byte /\ scale(r) # 0
  BY <1>0, <1>1, <1>d, Inverses
<1> HIDE DEF scale
<1>5. E # InvalidCustomMatrix
  <2>1. DOMAIN E = 0 .. total - 1 /\ DOMAIN InvalidCustomMatrix = {}
    BY <1>2 DEF InvalidCustomMatrix
  <2> QED
    BY <1>d, <2>1
<1> HIDE DEF E
<1>6. AnyRows(E, d, total)
  <2> SUFFICES ASSUME NEW S \in SUBSET (0 .. total - 1), NEW x \in Vectors(d), Cardinality(S) = d,
                      \A r \in S : Dot(d, E[r], x) = 0
               PROVE  \A j \in 0 .. d - 1 : x[j] = 0
    BY DEF AnyRows
  <2>1. ASSUME NEW r \in S
        PROVE  Dot(d, m[r], x) = 0
    <3>0. r \in 0 .. total - 1 /\ Dot(d, E[r], x) = 0
      OBVIOUS
    <3>1. CASE r <= d
      BY <1>2, <3>0, <3>1
    <3>2. CASE ~(r <= d)
      <4> DEFINE a == m[r]
                 o == E[r]
                 s == scale(r)
      <4>1. IsVector(d, a) /\ IsVector(d, x)
        BY <1>0, <3>0 DEF IsVector, Vectors
      <4>2. \A c \in 0 .. d - 1 : o[c] = mul(s, a[c])
        BY <1>2, <3>0, <3>2
      <4>3. s \in Byte /\ s # 0
        BY <1>3, <3>0, <3>2
      <4>o. Dot(d, o, x) = 0
        BY <3>0
      <4> HIDE DEF a, o, s
      <4>4. Dot(d, o, x) = mul(s, Dot(d, a, x)) /\ Dot(d, a, x) \in Byte
        BY ONLY <1>d, <4>1, <4>2, <4>3, DotOfAMultiple, DotInByte
      <4> QED
        BY <4>3, <4>4, <4>o, Products DEF a
    <3> QED
      BY <3>1, <3>2
  <2> QED
    BY <2>1 DEF AnyRows
<1> QED
  BY <1>5, <1>6 DEF E

LEMMA TopStepKeepsAnyRows ==
  ASSUME NEW d \in Nat \ {0}, NEW total \in Nat, d < total, NEW i \in 0 .. d - 1,
         NEW w \in Matrices(total, d), w # InvalidCustomMatrix, TopIs(w, i, d), AnyRows(w, d, total),
         NEW v, v = IdentityTo(PivotedTo(w, i), i)
  PROVE  v # InvalidCustomMatrix /\ AnyRows(v, d, total)
<1> DEFINE p == Pivoted(w, i)
<1>0. d \in Nat /\ d <= total /\ i \in 0 .. total - 1 /\ 0 \in 0 .. total - 1 /\ total \in Nat \ {0}
  OBVIOUS
<1>1. p \in Matrices(total, d) /\ AnyRows(p, d, total) /\ p[i][i] # 0
  BY <1>0, AlwaysPivots
<1>2. PivotedTo(w, i) = p
  BY DEF PivotedTo, Singular, InvalidCustomMatrix
<1> HIDE DEF p
<1>s. \A m \in Matrices(total, d) : m # InvalidCustomMatrix
  <2>1. \A m \in Matrices(total, d) : DOMAIN m = 0 .. total - 1
    BY DEF Matrices
  <2>2. DOMAIN InvalidCustomMatrix = {}
    BY DEF InvalidCustomMatrix
  <2> QED
    BY <1>0, <2>1, <2>2
<1>3. v = IdentityAt(p, i)
  BY <1>1, <1>2, <1>s DEF IdentityTo
<1>4. v \in Matrices(total, d)
  BY <1>0, <1>1, <1>3, IdentityAtIs
<1>5. AnyRows(v, d, total)
  BY <1>0, <1>1, <1>3, IdentityAtAnyRows
<1> QED
  BY <1>4, <1>5, <1>s

\* Any d rows of the matrix that build_jerasure_like_matrix (core/codec.rs)
\* makes; a column with nothing but zeros left does not happen to it.
LEMMA JerasureLikeAnyRows ==
  ASSUME NEW d \in Nat \ {0}, NEW total \in Nat, d < total, total <= 256,
         NEW E, E = build_jerasure_like_matrix(d, total)
  PROVE  E # InvalidCustomMatrix /\ AnyRows(E, d, total)
<1> DEFINE top == TopSteps(d, total)
           Fine(m, i) == m # InvalidCustomMatrix /\ TopIs(m, i, d) /\ AnyRows(m, d, total)
           good == {i \in 0 .. d : Fine(top[i], i)}
<1>0. d \in Nat /\ d <= total /\ 0 \in 0 .. d /\ d \in 0 .. d
  OBVIOUS
<1>1. /\ top[0] = ExtendedVandermonde(d, total)
      /\ \A i \in 0 .. d - 1 : top[i + 1] = IdentityTo(PivotedTo(top[i], i), i)
      /\ \A i \in 0 .. d : top[i] \in Matrices(total, d) \cup {InvalidCustomMatrix}
  BY <1>0, TopStepsRun
<1>x. E = FirstColumnOnes(FirstRowOnes(top[d], d), d)
  BY JerasureLikeIs
<1> HIDE DEF top
<1>2. 0 \in good
  <2>1. AnyRows(top[0], d, total)
    BY <1>1, ExtendedAnyRows
  <2>2. TopIs(top[0], 0, d)
    BY DEF TopIs
  <2>3. top[0] # InvalidCustomMatrix
    <3>1. DOMAIN top[0] = 0 .. total - 1 /\ 0 \in 0 .. total - 1
      BY <1>1 DEF ExtendedVandermonde
    <3>2. DOMAIN InvalidCustomMatrix = {}
      BY DEF InvalidCustomMatrix
    <3> QED
      BY <3>1, <3>2
  <2> QED
    BY <1>0, <2>1, <2>2, <2>3
<1>3. ASSUME NEW i \in 0 .. d - 1, i \in good
      PROVE  i + 1 \in good
  <2>1. i \in 0 .. d /\ i + 1 \in 0 .. d
    OBVIOUS
  <2> DEFINE w == top[i]
             v == top[i + 1]
  <2>2. w \in Matrices(total, d) /\ w # InvalidCustomMatrix /\ TopIs(w, i, d) /\ AnyRows(w, d, total)
    BY <1>1, <1>3, <2>1
  <2>3. v = IdentityTo(PivotedTo(w, i), i)
    BY <1>1
  <2> HIDE DEF w, v
  <2>4. v # InvalidCustomMatrix /\ AnyRows(v, d, total)
    BY <2>2, <2>3, TopStepKeepsAnyRows
  <2>5. TopIs(v, i + 1, d)
    BY <1>0, <2>2, <2>3, <2>4, TopStepIs
  <2> QED
    BY <2>1, <2>4, <2>5 DEF v
<1> HIDE DEF good
<1>4. \A i \in 0 .. d : i \in good
  BY <1>2, <1>3, UpTo
<1> DEFINE m == top[d]
           first == FirstRowOnes(m, d)
<1>5. m \in Matrices(total, d) /\ m # InvalidCustomMatrix /\ TopIs(m, d, d) /\ AnyRows(m, d, total)
  <2>1. d \in good
    BY <1>0, <1>4
  <2> QED
    BY <1>0, <1>1, <2>1 DEF good
<1>y. E = FirstColumnOnes(first, d)
  BY <1>x
<1> HIDE DEF m
<1>6. first # InvalidCustomMatrix /\ AnyRows(first, d, total)
  BY <1>5, FirstRowOnesAnyRows
<1>7. IsSystematic(first, d, total)
  BY <1>5, <1>6, FirstOnesKeep
<1>8. first \in Matrices(total, d) /\ TopIs(first, d, d)
  BY <1>7 DEF IsSystematic, TopIs
<1> HIDE DEF first
<1> QED
  BY <1>6, <1>8, <1>y, FirstColumnOnesAnyRows

\* The promise of a Reed-Solomon code: a codec of the modes Vandermonde, Cauchy
\* and JerasureLike exists for every number of shards that the field has room
\* for, and any data-shard-count of its shards are enough: the matrix of their
\* rows is inverted, never found singular (build_matrix_with_options,
\* core/codec.rs; get_data_decode_matrix, core/reconstruct.rs; invert, matrix.rs).
THEOREM AnyShardsSuffice ==
  \A c \in Codecs : c.mode # "Custom" =>
    /\ EncodingMatrix[c] # InvalidCustomMatrix
    /\ \A E \in Selections(c) : DecodeMatrix[c][E] # Singular
<1> SUFFICES ASSUME NEW c \in Codecs, c.mode # "Custom"
             PROVE  /\ EncodingMatrix[c] # InvalidCustomMatrix
                    /\ \A E \in Selections(c) : DecodeMatrix[c][E] # Singular
  OBVIOUS
<1> DEFINE d == c.d
           total == Total(c)
           m == EncodingMatrix[c]
<1>1. d \in Nat \ {0} /\ total \in Nat /\ d < total /\ total <= 256 /\ Shards(c) = 0 .. total - 1
  BY CodecShape
<1>2. c.mode \in {"Vandermonde", "Cauchy", "JerasureLike"}
  BY IdxAssumption
<1>3. m = build_matrix_with_options(d, total, c.mode)
  BY DEF EncodingMatrix
<1> HIDE DEF d, total, m
<1>4. m # InvalidCustomMatrix /\ AnyRows(m, d, total)
  <2>0. d <= total
    BY <1>1
  <2>1. CASE c.mode = "Vandermonde"
    <3>1. m = build_matrix(d, total)
      BY <1>3, <2>1 DEF build_matrix_with_options
    <3> QED
      BY ONLY <1>1, <2>0, <3>1, BuildMatrixAnyRows
  <2>2. CASE c.mode = "Cauchy"
    <3>1. m = build_cauchy_matrix(d, total)
      BY <1>3, <2>2 DEF build_matrix_with_options
    <3> QED
      BY ONLY <1>1, <2>0, <3>1, CauchyAnyRows
  <2>3. CASE c.mode = "JerasureLike"
    <3>1. m = build_jerasure_like_matrix(d, total)
      BY <1>3, <2>3 DEF build_matrix_with_options
    <3> QED
      BY ONLY <1>1, <3>1, JerasureLikeAnyRows
  <2> QED
    BY <1>2, <2>1, <2>2, <2>3
<1>5. m \in Matrices(total, d)
  <2>1. EncodingMatrix[c] # InvalidCustomMatrix
    BY <1>4 DEF m
  <2>2. IsSystematic(EncodingMatrix[c], c.d, Total(c))
    BY <2>1, MatricesAreSystematic
  <2> QED
    BY <2>2 DEF IsSystematic, m, d, total
<1>6. ASSUME NEW E \in Selections(c)
      PROVE  DecodeMatrix[c][E] # Singular
  <2>1. E \in SUBSET (0 .. total - 1) /\ Cardinality(E) = d
    BY <1>1 DEF Selections, d
  <2> DEFINE rows == SelectedRows(c, E)
  <2>2. rows = [k \in 0 .. d - 1 |-> m[Nth(E, k)]]
    BY DEF SelectedRows, d, m
  <2>3. DecodeMatrix[c][E] = invert(rows)
    BY DEF DecodeMatrix
  <2> HIDE DEF rows
  <2>4. invert(rows) # Singular
    BY ONLY <1>1, <1>4, <1>5, <2>1, <2>2, SelectionInverts
  <2> QED
    BY <2>3, <2>4
<1> QED
  BY <1>4, <1>6 DEF m

(* ------------------------------ the codeword ----------------------------- *)

LEMMA SelectionIs ==
  ASSUME NEW c \in Codecs, NEW E \in Selections(c)
  PROVE  /\ E \subseteq Shards(c) /\ IsFiniteSet(E) /\ Cardinality(E) = c.d /\ E # {}
         /\ \A k \in 0 .. c.d - 1 : Nth(E, k) \in E /\ Nth(E, k) \in Shards(c)
<1>1. E \subseteq Shards(c) /\ Cardinality(E) = c.d
  BY DEF Selections
<1>2. IsFiniteSet(E) /\ E \subseteq Nat
  BY <1>1, CodecShape, FS_Subset
<1>3. \A k \in 0 .. c.d - 1 : k \in Nat /\ k < Cardinality(E)
  BY <1>1, CodecShape
<1>4. \A k \in 0 .. c.d - 1 : Nth(E, k) \in E
  BY <1>2, <1>3, NthIsIn
<1>5. E # {}
  BY <1>1, CodecShape, FS_EmptySet
<1> QED
  BY <1>1, <1>2, <1>4, <1>5

LEMMA BuiltIs ==
  ASSUME CustomsAreBuilt, NEW c \in Codecs
  PROVE  /\ EncodingMatrix[c] \in Matrices(Total(c), c.d)
         /\ \A r, k \in 0 .. c.d - 1 : EncodingMatrix[c][r][k] = IF r = k THEN 1 ELSE 0
         /\ \A i \in Shards(c) : IsVector(c.d, EncodingMatrix[c][i])
<1>1. IsSystematic(EncodingMatrix[c], c.d, Total(c))
  BY MatricesAreSystematic, AnyShardsSuffice DEF CustomsAreBuilt
<1>2. \A i \in 0 .. Total(c) - 1 : IsVector(c.d, EncodingMatrix[c][i])
  BY <1>1, CodecShape, ColumnsAndRows DEF IsSystematic
<1> QED
  BY <1>1, <1>2, CodecShape DEF IsSystematic

LEMMA SelectedRowsAre ==
  ASSUME CustomsAreBuilt, NEW c \in Codecs, NEW E \in Selections(c)
  PROVE  /\ SelectedRows(c, E) \in Matrices(c.d, c.d)
         /\ \A k \in 0 .. c.d - 1 : SelectedRows(c, E)[k] = EncodingMatrix[c][Nth(E, k)]
<1>1. \A k \in 0 .. c.d - 1 : Nth(E, k) \in 0 .. Total(c) - 1
  BY SelectionIs, CodecShape
<1>2. \A i \in 0 .. Total(c) - 1 : EncodingMatrix[c][i] \in [0 .. c.d - 1 -> Byte]
  BY BuiltIs DEF Matrices
<1> QED
  BY <1>1, <1>2 DEF SelectedRows, Matrices

DataColumn(c, b) == [j \in 0 .. c.d - 1 |-> Data[j][b]]

LEMMA ShardIs ==
  ASSUME CustomsAreBuilt, NEW c \in Codecs
  PROVE  /\ \A b \in 1 .. ShardLen : IsVector(c.d, DataColumn(c, b))
         /\ \A i \in Shards(c) :
              /\ Shard[c][i] \in [1 .. ShardLen -> Byte]
              /\ \A b \in 1 .. ShardLen :
                   Shard[c][i][b] = Dot(c.d, EncodingMatrix[c][i], DataColumn(c, b))
<1>1. \A j \in 0 .. c.d - 1 : j \in Byte
  <2>1. c.d \in Nat /\ c.d <= 256
    BY CodecShape
  <2> QED
    BY <2>1, BytesAre
<1>2. Data \in [Byte -> [1 .. ShardLen -> Byte]]
  BY IdxAssumption
<1>3. \A b \in 1 .. ShardLen : IsVector(c.d, DataColumn(c, b))
  BY <1>1, <1>2 DEF IsVector, DataColumn
<1>4. \A i \in Shards(c) : \A b \in 1 .. ShardLen :
        Dot(c.d, EncodingMatrix[c][i], DataColumn(c, b)) \in Byte
  BY <1>3, CodecShape, BuiltIs, DotInByte
<1>5. \A i \in Shards(c) :
        Shard[c][i] = [b \in 1 .. ShardLen |-> Dot(c.d, EncodingMatrix[c][i], DataColumn(c, b))]
  BY DEF Shard, DataColumn
<1> QED
  BY <1>3, <1>4, <1>5

LEMMA InverseIs ==
  ASSUME CustomsAreBuilt, NEW c \in Codecs, NEW E \in Selections(c), DecodeMatrix[c][E] # Singular
  PROVE  LET B == DecodeMatrix[c][E]
             m == SelectedRows(c, E)
         IN /\ B \in Matrices(c.d, c.d)
            /\ \A r, k \in 0 .. c.d - 1 : Dot(c.d, B[r], Column(c.d, m, k)) = IF r = k THEN 1 ELSE 0
            /\ \A r, k \in 0 .. c.d - 1 : Dot(c.d, m[r], Column(c.d, B, k)) = IF r = k THEN 1 ELSE 0
<1> DEFINE B == DecodeMatrix[c][E]
           m == SelectedRows(c, E)
           d == c.d
<1>1. B = invert(m)
  BY DEF DecodeMatrix
<1>2. d \in Nat \ {0} /\ d \in Nat /\ m \in Matrices(d, d)
  BY CodecShape, SelectedRowsAre
<1>3. B # Singular
  OBVIOUS
<1> HIDE DEF B, m, d
<1>4. B \in Matrices(d, d) /\ multiply(B, m) = identity(d) /\ multiply(m, B) = identity(d)
  BY <1>1, <1>2, <1>3, InvertInverts
<1>5. \A r, k \in 0 .. d - 1 :
        /\ multiply(B, m)[r][k] = Dot(d, B[r], Column(d, m, k))
        /\ multiply(m, B)[r][k] = Dot(d, m[r], Column(d, B, k))
  <2>1. \A r \in 0 .. d - 1 : \A k \in 0 .. d - 1 :
          multiply(B, m)[r][k] = Dot(d, B[r], Column(d, m, k))
    BY ONLY <1>2, <1>4, ProductIs
  <2>2. \A r \in 0 .. d - 1 : \A k \in 0 .. d - 1 :
          multiply(m, B)[r][k] = Dot(d, m[r], Column(d, B, k))
    BY ONLY <1>2, <1>4, ProductIs
  <2> QED
    BY <2>1, <2>2
<1>6. \A r, k \in 0 .. d - 1 : identity(d)[r][k] = IF r = k THEN 1 ELSE 0
  BY <1>2, IdentityIs
<1>7. \A r, k \in 0 .. d - 1 :
        /\ Dot(d, B[r], Column(d, m, k)) = IF r = k THEN 1 ELSE 0
        /\ Dot(d, m[r], Column(d, B, k)) = IF r = k THEN 1 ELSE 0
  BY <1>4, <1>5, <1>6
<1> QED
  BY <1>4, <1>7 DEF B, m, d

\* The row that recovers output i.
RecoveryRow(c, E, i) == [k \in 0 .. c.d - 1 |-> ReducedRow(c, E, i, k)]

\* It makes row i of the encoding matrix out of the selected rows.
LEMMA RecoveryRowIs ==
  ASSUME CustomsAreBuilt, NEW c \in Codecs, NEW E \in Selections(c), DecodeMatrix[c][E] # Singular,
         NEW i \in Shards(c)
  PROVE  /\ IsVector(c.d, RecoveryRow(c, E, i))
         /\ \A j \in 0 .. c.d - 1 :
              Dot(c.d, RecoveryRow(c, E, i), Column(c.d, SelectedRows(c, E), j))
                = EncodingMatrix[c][i][j]
<1> DEFINE B == DecodeMatrix[c][E]
           m == SelectedRows(c, E)
           d == c.d
           x == RecoveryRow(c, E, i)
           row == EncodingMatrix[c][i]
<1>1. /\ d \in Nat \ {0} /\ d \in Nat /\ m \in Matrices(d, d) /\ IsVector(d, row)
  BY CodecShape, SelectedRowsAre, BuiltIs
<1>2. /\ B \in Matrices(d, d)
      /\ \A r, k \in 0 .. d - 1 : Dot(d, B[r], Column(d, m, k)) = IF r = k THEN 1 ELSE 0
  BY InverseIs
<1>3. \A k \in 0 .. d - 1 : x[k] = IF i < d THEN B[i][k] ELSE Dot(d, row, Column(d, B, k))
  BY DEF RecoveryRow, ReducedRow, Column
<1>4. \A r, k \in 0 .. d - 1 : EncodingMatrix[c][r][k] = IF r = k THEN 1 ELSE 0
  BY BuiltIs
<1>s. i \in Nat
  BY CodecShape
<1>c. \A j \in 0 .. d - 1 : /\ IsVector(d, Column(d, m, j)) /\ IsVector(d, Column(d, B, j))
                            /\ IsVector(d, B[j])
  BY <1>1, <1>2, ColumnsAndRows
<1>r. row = EncodingMatrix[c][i]
  OBVIOUS
<1> HIDE DEF B, m, d, x, row
<1>5. CASE i < d
  <2>1. i \in 0 .. d - 1
    BY <1>1, <1>5, <1>s
  <2>2. IsVector(d, B[i]) /\ \A k \in 0 .. d - 1 : x[k] = B[i][k]
    BY <1>3, <1>5, <1>c, <2>1
  <2>3. IsVector(d, x)
    BY <2>2 DEF IsVector
  <2>4. ASSUME NEW j \in 0 .. d - 1
        PROVE  Dot(d, x, Column(d, m, j)) = row[j]
    <3> DEFINE col == Column(d, m, j)
    <3>1. IsVector(d, col)
      BY <1>c
    <3>2. Dot(d, B[i], col) = IF i = j THEN 1 ELSE 0
      BY <1>2, <2>1
    <3>3. row[j] = IF i = j THEN 1 ELSE 0
      BY <1>4, <1>r, <2>1
    <3> HIDE DEF col
    <3>4. Dot(d, x, col) = Dot(d, B[i], col)
      BY <1>1, <2>2, <3>1, DotSame
    <3> QED
      BY <3>2, <3>3, <3>4 DEF col
  <2> QED
    BY <2>3, <2>4 DEF x, d, m, row
<1>6. CASE ~(i < d)
  <2>1. \A k \in 0 .. d - 1 : x[k] = Dot(d, row, Column(d, B, k))
    BY <1>3, <1>6
  <2>2. IsVector(d, x)
    <3>1. \A k \in 0 .. d - 1 : Dot(d, row, Column(d, B, k)) \in Byte
      BY <1>1, <1>c, DotInByte
    <3> QED
      BY <2>1, <3>1 DEF IsVector
  <2>3. ASSUME NEW j \in 0 .. d - 1
        PROVE  Dot(d, x, Column(d, m, j)) = row[j]
    <3> DEFINE v == Column(d, m, j)
               inner == [k \in 0 .. d - 1 |-> Dot(d, B[k], v)]
    <3>1. IsVector(d, v) /\ \A k \in 0 .. d - 1 : IsVector(d, B[k])
      BY <1>c
    <3>2. \A k \in 0 .. d - 1 : inner[k] = Dot(d, B[k], v)
      OBVIOUS
    <3>3. \A k \in 0 .. d - 1 : inner[k] = IF k = j THEN 1 ELSE 0
      BY <1>2
    <3> HIDE DEF v, inner
    <3>4. Dot(d, row, inner) = Dot(d, x, v)
      BY ONLY <1>1, <2>1, <3>1, <3>2, DotsExchange
    <3>5. Dot(d, row, inner) = row[j]
      BY <1>1, <3>3, DotUnit
    <3> QED
      BY <3>4, <3>5 DEF v
  <2> QED
    BY <2>2, <2>3 DEF x, d, m, row
<1> QED
  BY <1>5, <1>6

\* The bytes of the used shards at position b.
UsedBytes(c, E, b) == [k \in 0 .. c.d - 1 |-> Shard[c][Nth(E, k)][b]]

\* The used shards make up every shard of the codeword.
LEMMA RecoveryIs ==
  ASSUME CustomsAreBuilt, NEW c \in Codecs, NEW E \in Selections(c), DecodeMatrix[c][E] # Singular,
         NEW i \in Shards(c), NEW b \in 1 .. ShardLen
  PROVE  /\ IsVector(c.d, UsedBytes(c, E, b))
         /\ Dot(c.d, RecoveryRow(c, E, i), UsedBytes(c, E, b)) = Shard[c][i][b]
<1> DEFINE m == SelectedRows(c, E)
           d == c.d
           x == RecoveryRow(c, E, i)
           row == EncodingMatrix[c][i]
           v == DataColumn(c, b)
           used == UsedBytes(c, E, b)
<1>1. /\ d \in Nat /\ m \in Matrices(d, d) /\ IsVector(d, row) /\ IsVector(d, v)
  BY CodecShape, SelectedRowsAre, BuiltIs, ShardIs
<1>2. /\ IsVector(d, x)
      /\ \A j \in 0 .. d - 1 : row[j] = Dot(d, x, Column(d, m, j))
  BY RecoveryRowIs
<1>3. \A k \in 0 .. d - 1 : used[k] = Dot(d, m[k], v)
  <2>1. ASSUME NEW k \in 0 .. d - 1
        PROVE  used[k] = Dot(d, m[k], v)
    <3>1. Nth(E, k) \in Shards(c)
      BY SelectionIs
    <3>2. Shard[c][Nth(E, k)][b] = Dot(d, EncodingMatrix[c][Nth(E, k)], v)
      BY <3>1, ShardIs
    <3>3. m[k] = EncodingMatrix[c][Nth(E, k)]
      BY SelectedRowsAre
    <3> QED
      BY <3>2, <3>3 DEF UsedBytes
  <2> QED
    BY <2>1
<1>4. Shard[c][i][b] = Dot(d, row, v)
  BY ShardIs
<1> HIDE DEF m, d, x, row, v, used
<1>5. \A k \in 0 .. d - 1 : IsVector(d, m[k])
  BY <1>1, ColumnsAndRows
<1>6. Dot(d, x, used) = Dot(d, row, v)
  BY ONLY <1>1, <1>2, <1>3, <1>5, DotsExchange, SMTT(30)
<1>7. IsVector(d, used)
  <2>1. \A k \in 0 .. d - 1 : Dot(d, m[k], v) \in Byte
    BY <1>1, <1>5, DotInByte
  <2> QED
    BY <1>3, <2>1 DEF IsVector
<1> QED
  BY <1>4, <1>6, <1>7 DEF x, used, d

(* ------------------------------- the buffers ----------------------------- *)

\* Slices are bytes by position.
Slices(l) == [1 .. l -> Byte]

LEMMA MulSliceXorIs ==
  ASSUME NEW l \in Nat, NEW s \in Byte, NEW in \in Slices(l), NEW out \in Slices(l)
  PROVE  /\ mul_slice_xor(s, in, out) \in Slices(l)
         /\ \A b \in 1 .. l : mul_slice_xor(s, in, out)[b] = add(out[b], mul(s, in[b]))
<1>1. \A b \in 1 .. l : in[b] \in Byte /\ out[b] \in Byte
  BY DEF Slices
<1>2. DOMAIN out = 1 .. l
  BY DEF Slices
<1>3. out = [b \in 1 .. l |-> out[b]]
  BY DEF Slices
<1>4. \A b \in 1 .. l : add(out[b], mul(s, in[b])) \in Byte
  BY <1>1, Products, Sums
<1>5. mul_slice_xor(s, in, out) = [b \in 1 .. l |-> add(out[b], mul(s, in[b]))]
  <2>1. CASE s = 0
    <3>1. \A b \in 1 .. l : add(out[b], mul(s, in[b])) = out[b]
      BY <1>1, <2>1, Products, Sums
    <3>2. mul_slice_xor(s, in, out) = out
      BY <2>1 DEF mul_slice_xor
    <3> QED
      BY <1>3, <3>1, <3>2
  <2>2. CASE s = 1
    <3>1. \A b \in 1 .. l : mul(s, in[b]) = in[b]
      BY <1>1, <2>2, Products
    <3>2. mul_slice_xor(s, in, out) = [b \in 1 .. l |-> add(out[b], in[b])]
      BY <1>2, <2>2 DEF mul_slice_xor, add
    <3> QED
      BY <3>1, <3>2
  <2>3. CASE s # 0 /\ s # 1
    BY <1>2, <2>3 DEF mul_slice_xor, add, mul
  <2> QED
    BY <2>1, <2>2, <2>3
<1> QED
  BY <1>4, <1>5 DEF Slices

\* What the used shards in S add to output i.
PartRow(c, E, i, S) == [k \in 0 .. c.d - 1 |-> IF Nth(E, k) \in S THEN ReducedRow(c, E, i, k) ELSE 0]
Part(c, E, i, S, b) == Dot(c.d, PartRow(c, E, i, S), UsedBytes(c, E, b))

Decodable(c, E) == E \in Selections(c) /\ DecodeMatrix[c][E] # Singular

LEMMA PartRowIs ==
  ASSUME CustomsAreBuilt, NEW c \in Codecs, NEW E, Decodable(c, E), NEW i \in Shards(c), NEW S
  PROVE  /\ IsVector(c.d, PartRow(c, E, i, S))
         /\ \A b \in 1 .. ShardLen : IsVector(c.d, UsedBytes(c, E, b)) /\ Part(c, E, i, S, b) \in Byte
<1>1. E \in Selections(c) /\ DecodeMatrix[c][E] # Singular
  BY DEF Decodable
<1>2. IsVector(c.d, RecoveryRow(c, E, i))
  BY <1>1, RecoveryRowIs
<1>3. IsVector(c.d, PartRow(c, E, i, S))
  BY <1>2, SmallBytes DEF PartRow, IsVector, RecoveryRow
<1>4. \A b \in 1 .. ShardLen : IsVector(c.d, UsedBytes(c, E, b))
  BY <1>1, RecoveryIs
<1>5. c.d \in Nat
  BY CodecShape
<1>6. \A b \in 1 .. ShardLen : Part(c, E, i, S, b) \in Byte
  BY <1>3, <1>4, <1>5, DotInByte DEF Part
<1> QED
  BY <1>3, <1>4, <1>6

\* Nothing, from no shard; the shard itself, from all of them.
LEMMA PartOfAll ==
  ASSUME CustomsAreBuilt, NEW c \in Codecs, NEW E, Decodable(c, E), NEW i \in Shards(c),
         NEW b \in 1 .. ShardLen
  PROVE  /\ Part(c, E, i, {}, b) = 0
         /\ Part(c, E, i, E, b) = Shard[c][i][b]
<1>1. E \in Selections(c) /\ DecodeMatrix[c][E] # Singular /\ c.d \in Nat
  BY CodecShape DEF Decodable
<1>2. IsVector(c.d, UsedBytes(c, E, b)) /\ IsVector(c.d, PartRow(c, E, i, {}))
  BY PartRowIs
<1>3. \A k \in 0 .. c.d - 1 : mul(PartRow(c, E, i, {})[k], UsedBytes(c, E, b)[k]) = 0
  BY <1>2, Products DEF PartRow, IsVector
<1>4. Part(c, E, i, {}, b) = 0
  BY <1>1, <1>2, <1>3, DotOfZeros DEF Part
<1>5. \A k \in 0 .. c.d - 1 : Nth(E, k) \in E
  BY <1>1, SelectionIs
<1>6. PartRow(c, E, i, E) = RecoveryRow(c, E, i)
  BY <1>5 DEF PartRow, RecoveryRow
<1>7. Part(c, E, i, E, b) = Shard[c][i][b]
  BY <1>1, <1>6, RecoveryIs DEF Part
<1> QED
  BY <1>4, <1>7

\* What came an even number of times is not there.
LEMMA PartToggles ==
  ASSUME CustomsAreBuilt, NEW c \in Codecs, NEW E, Decodable(c, E), NEW i \in Shards(c),
         NEW b \in 1 .. ShardLen, NEW S, NEW T
  PROVE  Part(c, E, i, Toggled(S, T), b) = add(Part(c, E, i, S, b), Part(c, E, i, T, b))
<1> DEFINE d == c.d
           row == PartRow(c, E, i, Toggled(S, T))
           u == PartRow(c, E, i, S)
           w == PartRow(c, E, i, T)
           v == UsedBytes(c, E, b)
<1>1. d \in Nat /\ IsVector(d, u) /\ IsVector(d, w) /\ IsVector(d, v)
  BY CodecShape, PartRowIs
<1>2. \A k \in 0 .. d - 1 : row[k] = add(u[k], w[k])
  <2>1. ASSUME NEW k \in 0 .. d - 1
        PROVE  row[k] = add(u[k], w[k])
    <3> DEFINE e == ReducedRow(c, E, i, k)
    <3>1. e \in Byte
      <4>1. IsVector(c.d, RecoveryRow(c, E, i))
        BY RecoveryRowIs DEF Decodable
      <4> QED
        BY <4>1 DEF IsVector, RecoveryRow
    <3>2. /\ row[k] = IF Nth(E, k) \in Toggled(S, T) THEN e ELSE 0
          /\ u[k] = IF Nth(E, k) \in S THEN e ELSE 0
          /\ w[k] = IF Nth(E, k) \in T THEN e ELSE 0
      BY DEF PartRow
    <3>3. Nth(E, k) \in Toggled(S, T) <=> (Nth(E, k) \in S <=> Nth(E, k) \notin T)
      BY DEF Toggled
    <3>4. add(e, 0) = e /\ add(0, e) = e /\ add(e, e) = 0 /\ add(0, 0) = 0
      BY <3>1, SmallBytes, Sums
    <3> HIDE DEF e, row, u, w
    <3> QED
      BY <3>2, <3>3, <3>4
  <2> QED
    BY <2>1
<1> HIDE DEF d, row, u, w, v
<1>3. Dot(d, row, v) = add(Dot(d, u, v), Dot(d, w, v))
  BY <1>1, <1>2, DotOfASum
<1> QED
  BY <1>3 DEF Part, d, row, u, w, v

\* Of shards that are not expected there is no part.
LEMMA PartOfTheExpected ==
  ASSUME NEW c \in Codecs, NEW E \in Selections(c), NEW i, NEW S, NEW b
  PROVE  Part(c, E, i, S \cap E, b) = Part(c, E, i, S, b)
<1>1. \A k \in 0 .. c.d - 1 : Nth(E, k) \in E
  BY SelectionIs
<1>2. PartRow(c, E, i, S \cap E) = PartRow(c, E, i, S)
  BY <1>1 DEF PartRow
<1> QED
  BY <1>2 DEF Part

\* The buffer after the first inputs.
AccumulateSteps(buffer, i, arrived) ==
  CHOOSE add_column : add_column = [col \in 0 .. codec.d |->
    IF col = 0 THEN buffer
    ELSE IF Nth(expect, col - 1) \notin arrived THEN add_column[col - 1]
    ELSE mul_slice_xor(ReducedRow(codec, expect, i, col - 1),
                       Shard[codec][Nth(expect, col - 1)], add_column[col - 1])]

LEMMA AccumulatedIsTheLast ==
  ASSUME NEW buffer, NEW i, NEW arrived
  PROVE  Accumulated(buffer, i, arrived) = AccumulateSteps(buffer, i, arrived)[codec.d]
BY DEF Accumulated, AccumulateSteps

\* An accumulation adds the parts of the shards that arrived.
LEMMA AccumulatedIs ==
  ASSUME CustomsAreBuilt, codec \in Codecs, Decodable(codec, expect), NEW i \in Shards(codec),
         NEW arrived, NEW buffer \in Slices(ShardLen)
  PROVE  /\ Accumulated(buffer, i, arrived) \in Slices(ShardLen)
         /\ \A b \in 1 .. ShardLen :
              Accumulated(buffer, i, arrived)[b] = add(buffer[b], Part(codec, expect, i, arrived, b))
<1> DEFINE c == codec
           E == expect
           d == c.d
           row == PartRow(c, E, i, arrived)
           S == Slices(ShardLen)
           Coded(k) == Shard[c][Nth(E, k)]
           Step(w, k) == IF Nth(E, k) \notin arrived THEN w
                         ELSE mul_slice_xor(ReducedRow(c, E, i, k), Coded(k), w)
           g == [k \in 1 .. d |-> [w \in S |-> Step(w, k - 1)]]
           out == AccumulateSteps(buffer, i, arrived)
<1>0. d \in Nat /\ ShardLen \in Nat /\ E \in Selections(c) /\ c \in Codecs
  BY CodecShape, IdxAssumption DEF Decodable
<1>r. IsVector(d, row) /\ \A b \in 1 .. ShardLen : IsVector(d, UsedBytes(c, E, b))
  BY PartRowIs
<1>s. ASSUME NEW k \in 0 .. d - 1
      PROVE  /\ Coded(k) \in S
             /\ \A b \in 1 .. ShardLen : Coded(k)[b] = UsedBytes(c, E, b)[k]
             /\ Nth(E, k) \in arrived => row[k] = ReducedRow(c, E, i, k)
             /\ Nth(E, k) \notin arrived => row[k] = 0
  <2>1. Nth(E, k) \in Shards(c)
    BY <1>0, SelectionIs
  <2>2. Coded(k) \in S
    BY <1>0, <2>1, ShardIs DEF Slices
  <2> QED
    BY <2>2 DEF UsedBytes, PartRow
<1> HIDE DEF row, S, Coded, d
<1>1. ASSUME NEW w \in S, NEW k \in 0 .. d - 1
      PROVE  /\ Step(w, k) \in S
             /\ \A b \in 1 .. ShardLen :
                  Step(w, k)[b] = add(w[b], mul(row[k], UsedBytes(c, E, b)[k]))
  <2>t. \A b \in 1 .. ShardLen : w[b] \in Byte /\ UsedBytes(c, E, b)[k] \in Byte
    BY <1>r DEF IsVector, S, Slices
  <2>1. CASE Nth(E, k) \notin arrived
    <3>1. Step(w, k) = w /\ row[k] = 0
      BY <1>s, <2>1
    <3>2. \A b \in 1 .. ShardLen : add(w[b], mul(row[k], UsedBytes(c, E, b)[k])) = w[b]
      BY <2>t, <3>1, Products, Sums
    <3> QED
      BY <3>1, <3>2
  <2>2. CASE Nth(E, k) \in arrived
    <3> DEFINE in == Coded(k)
               s == row[k]
    <3>1. s \in Byte
      BY <1>r DEF IsVector
    <3>2. in \in S /\ \A b \in 1 .. ShardLen : in[b] = UsedBytes(c, E, b)[k]
      BY <1>s
    <3>3. Step(w, k) = mul_slice_xor(s, in, w)
      BY <1>s, <2>2
    <3> HIDE DEF in, s, Step
    <3>4. /\ mul_slice_xor(s, in, w) \in Slices(ShardLen)
          /\ \A b \in 1 .. ShardLen : mul_slice_xor(s, in, w)[b] = add(w[b], mul(s, in[b]))
      BY <1>0, <3>1, <3>2, MulSliceXorIs DEF S
    <3> QED
      BY <3>2, <3>3, <3>4 DEF s, S
  <2> QED
    BY <2>1, <2>2
<1>2. \A k \in 1 .. d : k - 1 \in 0 .. d - 1
  BY <1>0
<1> HIDE DEF Step
<1>3. g \in [1 .. d -> [S -> S]]
  BY <1>1, <1>2
<1>4. PICK f \in [0 .. d -> S] : IsRun(f, d, buffer, g)
  <2> HIDE DEF g
  <2>1. buffer \in S
    BY DEF S
  <2> QED
    BY <1>0, <1>3, <2>1, RunExists
<1>5. f = [k \in 0 .. d |-> IF k = 0 THEN buffer ELSE Step(f[k - 1], k - 1)]
  <2>1. ASSUME NEW k \in 0 .. d, k # 0
        PROVE  g[k][f[k - 1]] = Step(f[k - 1], k - 1)
    <3>1. k \in 1 .. d /\ k - 1 \in 0 .. d
      BY <1>0, <2>1
    <3> QED
      BY <3>1
  <2> HIDE DEF g
  <2> QED
    BY <1>4, <2>1 DEF IsRun
<1>6. out = [k \in 0 .. d |-> IF k = 0 THEN buffer ELSE Step(out[k - 1], k - 1)]
  BY <1>5 DEF AccumulateSteps, Step, Coded, d
<1> HIDE DEF g, out
<1>7. out[0] = buffer /\ \A k \in 0 .. d - 1 : out[k + 1] = Step(out[k], k)
  <2>1. \A k \in 0 .. d - 1 : k + 1 \in 0 .. d /\ k + 1 # 0 /\ (k + 1) - 1 = k
    BY <1>0
  <2> QED
    BY <1>0, <1>6, <2>1
<1> DEFINE Fine(w, k) == /\ w \in S
                         /\ \A b \in 1 .. ShardLen :
                              w[b] = add(buffer[b], Dot(k, row, UsedBytes(c, E, b)))
           good == {k \in 0 .. d : Fine(out[k], k)}
<1>b. \A b \in 1 .. ShardLen : buffer[b] \in Byte
  BY DEF Slices
<1>8. 0 \in good
  <2>1. \A b \in 1 .. ShardLen : Dot(0, row, UsedBytes(c, E, b)) = 0
    BY <1>0, <1>r, DotSteps
  <2>2. \A b \in 1 .. ShardLen : buffer[b] = add(buffer[b], Dot(0, row, UsedBytes(c, E, b)))
    BY <1>b, <2>1, Sums
  <2> QED
    BY <1>0, <1>7, <2>2 DEF S
<1>9. ASSUME NEW k \in 0 .. d - 1, k \in good
      PROVE  k + 1 \in good
  <2> DEFINE w == out[k]
             u == out[k + 1]
  <2>1. w \in S /\ u = Step(w, k) /\ k + 1 \in 0 .. d /\ k \in 0 .. d
    BY <1>0, <1>7, <1>9
  <2>2. \A b \in 1 .. ShardLen : w[b] = add(buffer[b], Dot(k, row, UsedBytes(c, E, b)))
    BY <1>9
  <2> HIDE DEF w, u
  <2>3. u \in S /\ \A b \in 1 .. ShardLen : u[b] = add(w[b], mul(row[k], UsedBytes(c, E, b)[k]))
    BY <1>1, <2>1
  <2>4. ASSUME NEW b \in 1 .. ShardLen
        PROVE  u[b] = add(buffer[b], Dot(k + 1, row, UsedBytes(c, E, b)))
    <3> DEFINE v == UsedBytes(c, E, b)
               x == buffer[b]
    <3>1. IsVector(d, v) /\ x \in Byte /\ w[b] = add(x, Dot(k, row, v))
      BY <1>b, <1>r, <2>2
    <3>2. u[b] = add(w[b], mul(row[k], v[k]))
      BY <2>3
    <3> HIDE DEF v, x
    <3>3. Dot(k + 1, row, v) = add(Dot(k, row, v), mul(row[k], v[k]))
      BY ONLY <1>0, <1>r, <1>9, <3>1, DotNext
    <3>4. Dot(k, row, v) \in Byte
      BY <1>0, <1>r, <2>1, <3>1, DotSteps
    <3>5. mul(row[k], v[k]) \in Byte
      BY <1>r, <3>1, Products DEF IsVector
    <3>6. add(add(x, Dot(k, row, v)), mul(row[k], v[k])) = add(x, add(Dot(k, row, v), mul(row[k], v[k])))
      BY <3>1, <3>4, <3>5, SumsAssociate
    <3>7. u[b] = add(x, Dot(k + 1, row, v))
      BY <3>1, <3>2, <3>3, <3>6
    <3> QED
      BY <3>7 DEF v, x
  <2> QED
    BY <2>1, <2>3, <2>4 DEF u
<1> HIDE DEF good
<1>10. \A k \in 0 .. d : k \in good
  BY <1>0, <1>8, <1>9, UpTo
<1>11. d \in good
  BY <1>0, <1>10
<1>12. Fine(out[d], d)
  BY <1>11 DEF good
<1>13. Accumulated(buffer, i, arrived) = out[d]
  BY AccumulatedIsTheLast DEF out, d
<1> QED
  BY <1>12, <1>13 DEF Part, row, d, S

(* --------------------- what every buffer always holds -------------------- *)

\* A buffer of the right length holds the sum of the parts of one of the sets
\* that it may have been fed; one that decoding never reaches holds zeros.
BufferIs(c, E, i, buffer, feds) ==
  /\ buffer \in Seq(Byte)
  /\ feds \in (SUBSET SUBSET Shards(c)) \ {{}}
  /\ Decodable(c, E) /\ Len(buffer) = ShardLen =>
       \E S \in feds : \A b \in 1 .. ShardLen : buffer[b] = Part(c, E, i, S, b)
  /\ ~(Decodable(c, E) /\ Len(buffer) = ShardLen) =>
       \A b \in 1 .. Len(buffer) : buffer[b] = 0
  /\ ~Decodable(c, E) => feds = {{}}

LEMMA SlicesAre ==
  /\ \A s \in Seq(Byte) : s \in Slices(Len(s)) /\ DOMAIN s = 1 .. Len(s) /\ Len(s) \in Nat
  /\ \A l \in Nat : \A s \in Slices(l) : s \in Seq(Byte) /\ Len(s) = l
BY DEF Slices

LEMMA FreshBuffer ==
  ASSUME CustomsAreBuilt, NEW c \in Codecs, NEW E, NEW i \in Shards(c), NEW buffer \in Seq({0})
  PROVE  BufferIs(c, E, i, buffer, {{}})
<1>1. buffer \in Seq(Byte)
  BY SmallBytes
<1>2. \A b \in 1 .. Len(buffer) : buffer[b] = 0
  OBVIOUS
<1>3. Decodable(c, E) => \A b \in 1 .. ShardLen : Part(c, E, i, {}, b) = 0
  BY PartOfAll
<1>4. {{}} \in (SUBSET SUBSET Shards(c)) \ {{}}
  OBVIOUS
<1> QED
  BY <1>1, <1>2, <1>3, <1>4 DEF BufferIs

\* What may have been fed, after one of the sets of others.
Toggles(feds, others) == {Toggled(S, T) : S \in feds, T \in others}

LEMMA TogglesAre ==
  ASSUME NEW A, NEW feds \in (SUBSET SUBSET A) \ {{}}, NEW others \in (SUBSET SUBSET A) \ {{}}
  PROVE  Toggles(feds, others) \in (SUBSET SUBSET A) \ {{}}
<1>1. PICK S \in feds, T \in others : TRUE
  OBVIOUS
<1>2. Toggled(S, T) \in Toggles(feds, others)
  BY DEF Toggles
<1>3. \A U \in feds : \A V \in others : Toggled(U, V) \in SUBSET A
  BY DEF Toggled
<1>4. Toggles(feds, others) \subseteq SUBSET A
  BY <1>3 DEF Toggles
<1> QED
  BY <1>2, <1>4

LEMMA NothingToggles == Toggles({{}}, {{}}) = {{}}
BY DEF Toggles, Toggled

LEMMA AccumulatedBuffer ==
  ASSUME CustomsAreBuilt, codec \in Codecs, Decodable(codec, expect), NEW i \in Shards(codec),
         NEW arrived, NEW buffer, NEW feds,
         BufferIs(codec, expect, i, buffer, feds), Len(buffer) = ShardLen
  PROVE  BufferIs(codec, expect, i, Accumulated(buffer, i, arrived),
                  Toggles(feds, {arrived \cap expect}))
<1> DEFINE c == codec
           E == expect
           T == arrived \cap E
           out == Accumulated(buffer, i, arrived)
           new == Toggles(feds, {T})
<1>0. E \in Selections(c) /\ ShardLen \in Nat /\ c \in Codecs
  BY IdxAssumption DEF Decodable
<1>1. buffer \in Slices(ShardLen)
  BY SlicesAre DEF BufferIs
<1>2. /\ out \in Slices(ShardLen)
      /\ \A b \in 1 .. ShardLen : out[b] = add(buffer[b], Part(c, E, i, arrived, b))
  BY <1>1, AccumulatedIs
<1>3. \A b \in 1 .. ShardLen : Part(c, E, i, T, b) = Part(c, E, i, arrived, b)
  BY <1>0, PartOfTheExpected
<1>4. PICK S \in feds : \A b \in 1 .. ShardLen : buffer[b] = Part(c, E, i, S, b)
  BY DEF BufferIs
<1>5. \A b \in 1 .. ShardLen :
        Part(c, E, i, Toggled(S, T), b) = add(Part(c, E, i, S, b), Part(c, E, i, T, b))
  BY PartToggles
<1>6. \A b \in 1 .. ShardLen : out[b] = Part(c, E, i, Toggled(S, T), b)
  <2> HIDE DEF out, T, c, E
  <2> QED
    BY <1>2, <1>3, <1>4, <1>5
<1>7. new \in (SUBSET SUBSET Shards(c)) \ {{}}
  <2>1. T \subseteq Shards(c)
    BY <1>0, SelectionIs
  <2>2. feds \in (SUBSET SUBSET Shards(c)) \ {{}}
    BY DEF BufferIs
  <2>3. {T} \in (SUBSET SUBSET Shards(c)) \ {{}}
    BY <2>1
  <2> HIDE DEF T
  <2> QED
    BY <2>2, <2>3, TogglesAre, SMTT(30)
<1>8. Toggled(S, T) \in new
  BY <1>4 DEF Toggles
<1>9. out \in Seq(Byte) /\ Len(out) = ShardLen
  BY <1>0, <1>2, SlicesAre
<1> HIDE DEF out, new, T
<1>10. BufferIs(c, E, i, out, new)
  BY <1>6, <1>7, <1>8, <1>9 DEF BufferIs
<1> QED
  BY <1>10 DEF out, new, T

LEMMA MergedBuffer ==
  ASSUME CustomsAreBuilt, NEW c \in Codecs, NEW E, NEW i \in Shards(c),
         NEW x, NEW feds, NEW y, NEW others,
         BufferIs(c, E, i, x, feds), BufferIs(c, E, i, y, others), Len(x) = Len(y)
  PROVE  BufferIs(c, E, i, mul_slice_xor(1, y, x), Toggles(feds, others))
<1> DEFINE l == Len(x)
           out == mul_slice_xor(1, y, x)
           new == Toggles(feds, others)
<1>1. x \in Slices(l) /\ y \in Slices(l) /\ l \in Nat
  BY SlicesAre DEF BufferIs
<1>2. out \in Slices(l) /\ \A b \in 1 .. l : out[b] = add(x[b], mul(1, y[b]))
  BY <1>1, SmallBytes, MulSliceXorIs
<1>3. \A b \in 1 .. l : out[b] = add(x[b], y[b])
  BY <1>1, <1>2, Products DEF Slices
<1>4. out \in Seq(Byte) /\ Len(out) = l
  BY <1>1, <1>2, SlicesAre
<1>5. new \in (SUBSET SUBSET Shards(c)) \ {{}}
  BY TogglesAre DEF BufferIs
<1>6. CASE Decodable(c, E) /\ l = ShardLen
  <2>1. PICK S \in feds : \A b \in 1 .. ShardLen : x[b] = Part(c, E, i, S, b)
    BY <1>6 DEF BufferIs
  <2>2. PICK T \in others : \A b \in 1 .. ShardLen : y[b] = Part(c, E, i, T, b)
    BY <1>6 DEF BufferIs
  <2>3. \A b \in 1 .. ShardLen :
          Part(c, E, i, Toggled(S, T), b) = add(Part(c, E, i, S, b), Part(c, E, i, T, b))
    BY <1>6, PartToggles
  <2>4. \A b \in 1 .. ShardLen : out[b] = Part(c, E, i, Toggled(S, T), b)
    BY <1>3, <1>6, <2>1, <2>2, <2>3
  <2>5. Toggled(S, T) \in new
    BY DEF Toggles
  <2> HIDE DEF out, new
  <2>6. BufferIs(c, E, i, out, new)
    BY <1>4, <1>5, <1>6, <2>4, <2>5 DEF BufferIs
  <2> QED
    BY <2>6 DEF out, new
<1>7. CASE ~(Decodable(c, E) /\ l = ShardLen)
  <2>1. \A b \in 1 .. l : x[b] = 0 /\ y[b] = 0
    BY <1>7 DEF BufferIs
  <2>2. add(0, 0) = 0
    BY SmallBytes, Sums
  <2>3. \A b \in 1 .. l : out[b] = 0
    BY <1>3, <2>1, <2>2
  <2>4. ~Decodable(c, E) => new = {{}}
    <3>1. ~Decodable(c, E) => feds = {{}} /\ others = {{}}
      BY DEF BufferIs
    <3> QED
      BY <3>1, NothingToggles
  <2> HIDE DEF out, new
  <2>5. BufferIs(c, E, i, out, new)
    BY <1>4, <1>5, <1>7, <2>3, <2>4 DEF BufferIs
  <2> QED
    BY <2>5 DEF out, new
<1> QED
  BY <1>6, <1>7

\* It may have been fed more than it was.
LEMMA PerhapsFed ==
  ASSUME NEW c \in Codecs, NEW E, NEW i, NEW x, NEW feds, NEW y, NEW others,
         BufferIs(c, E, i, x, feds), BufferIs(c, E, i, y, others)
  PROVE  BufferIs(c, E, i, x, feds \cup others)
BY DEF BufferIs

Answers == {"none", "ok", "TooFewShards", "TooFewShardsPresent", "IncorrectShardSize",
            "InvalidCustomMatrix"}

\* The inductive invariant.
IInv ==
  /\ codec \in Codecs
  /\ expect \in Expectations(codec)
  /\ DOMAIN partial = Nodes /\ DOMAIN fed = Nodes
  /\ \A n \in Nodes :
       /\ DOMAIN partial[n] = Shards(codec) /\ DOMAIN fed[n] = Shards(codec)
       /\ \A i \in Shards(codec) : BufferIs(codec, expect, i, partial[n][i], fed[n][i])
  /\ answer \in Answers
  /\ calls \in 0 .. MaxCalls

LEMMA InitHolds ==
  ASSUME CustomsAreBuilt, Init
  PROVE  IInv
<1>1. codec \in Codecs /\ expect \in Expectations(codec)
  BY DEF Init
<1>2. DOMAIN partial = Nodes /\ DOMAIN fed = Nodes
  BY DEF Init
<1>3. ASSUME NEW n \in Nodes
      PROVE  /\ DOMAIN partial[n] = Shards(codec) /\ DOMAIN fed[n] = Shards(codec)
             /\ \A i \in Shards(codec) : BufferIs(codec, expect, i, partial[n][i], fed[n][i])
  <2>1. Allocations(codec) \subseteq [Shards(codec) -> Seq({0})]
    BY <1>1, CodecShape
  <2>2. partial[n] \in [Shards(codec) -> Seq({0})]
    BY <2>1 DEF Init
  <2>3. fed[n] = [i \in Shards(codec) |-> {{}}]
    BY DEF Init
  <2>4. ASSUME NEW i \in Shards(codec)
        PROVE  BufferIs(codec, expect, i, partial[n][i], fed[n][i])
    <3>1. partial[n][i] \in Seq({0}) /\ fed[n][i] = {{}}
      BY <2>2, <2>3
    <3> QED
      BY <1>1, <3>1, FreshBuffer
  <2> QED
    BY <2>2, <2>3, <2>4
<1>4. answer \in Answers
  BY DEF Init, Answers
<1>5. calls \in 0 .. MaxCalls
  BY IdxAssumption DEF Init
<1> QED
  BY <1>1, <1>2, <1>3, <1>4, <1>5 DEF IInv

\* The calls that touch a buffer have found all of them fit.
LEMMA WorkIs ==
  ASSUME IInv, NEW n \in Nodes, NEW arrived, Verdict(n, arrived) = "work"
  PROVE  /\ Decodable(codec, expect)
         /\ \A i \in Buffers(n) : i \in Shards(codec) /\ Len(partial[n][i]) = ShardLen
<1>1. /\ Cardinality(expect) = codec.d /\ DecodeMatrix[codec][expect] # Singular
      /\ arrived \cap FirstExpected(codec, expect) # {}
      /\ \A i \in Buffers(n) : Len(partial[n][i]) = SessionLen(n, arrived)
  BY DEF Verdict
<1>2. expect \in Selections(codec)
  <2>1. codec \in Codecs /\ expect \in Expectations(codec)
    BY DEF IInv
  <2>2. expect \in SUBSET Shards(codec)
    BY <2>1, CodecShape
  <2> QED
    BY <1>1, <2>2 DEF Selections
<1>3. SessionLen(n, arrived) = ShardLen
  BY <1>1 DEF SessionLen
<1>4. Buffers(n) \subseteq Shards(codec)
  BY DEF Buffers
<1> QED
  BY <1>1, <1>2, <1>3, <1>4 DEF Decodable

LEMMA AccumulateHolds ==
  ASSUME CustomsAreBuilt, IInv, NEW n \in Nodes, NEW arrived, Accumulate(n, arrived)
  PROVE  IInv'
<1>1. /\ codec' = codec /\ expect' = expect /\ codec \in Codecs /\ expect \in Expectations(codec)
  BY DEF Accumulate, IInv
<1>2. calls' \in 0 .. MaxCalls
  BY IdxAssumption DEF Accumulate, IInv
<1>3. CASE Verdict(n, arrived) # "work"
  <2>1. answer' = Verdict(n, arrived) /\ partial' = partial /\ fed' = fed
    BY <1>3 DEF Accumulate
  <2>2. Verdict(n, arrived) \in Answers
    BY <1>3 DEF Verdict, Answers
  <2> QED
    BY <1>1, <1>2, <2>1, <2>2 DEF IInv
<1>4. CASE Verdict(n, arrived) = "work"
  <2> DEFINE buffers == [i \in Shards(codec) |->
                           IF i \in Buffers(n) THEN Accumulated(partial[n][i], i, arrived)
                           ELSE Absent]
             feds == [i \in Shards(codec) |->
                        {Toggled(S, arrived \cap expect) : S \in fed[n][i]}]
  <2>1. /\ answer' = "ok"
        /\ partial' = [partial EXCEPT ![n] = buffers]
        /\ fed' = [fed EXCEPT ![n] = feds]
    BY <1>4 DEF Accumulate
  <2>2. answer' \in Answers
    BY <2>1 DEF Answers
  <2>3. /\ Decodable(codec, expect)
        /\ \A i \in Buffers(n) : Len(partial[n][i]) = ShardLen
    BY <1>4, WorkIs
  <2>4. ASSUME NEW i \in Shards(codec)
        PROVE  BufferIs(codec, expect, i, buffers[i], feds[i])
    <3> DEFINE new == Toggles(fed[n][i], {arrived \cap expect})
    <3>1. BufferIs(codec, expect, i, partial[n][i], fed[n][i])
      BY DEF IInv
    <3>2. feds[i] = new
      BY DEF Toggles
    <3>3. CASE i \in Buffers(n)
      <4>1. buffers[i] = Accumulated(partial[n][i], i, arrived)
        BY <3>3
      <4>2. Len(partial[n][i]) = ShardLen
        BY <2>3, <3>3
      <4>3. BufferIs(codec, expect, i, Accumulated(partial[n][i], i, arrived), new)
        BY <1>1, <2>3, <3>1, <4>2, AccumulatedBuffer
      <4> QED
        BY <3>2, <4>1, <4>3
    <3>4. CASE i \notin Buffers(n)
      <4>1. buffers[i] = <<>> /\ <<>> \in Seq(Byte) /\ Len(<<>>) = 0
        BY <3>4 DEF Absent
      <4>2. ShardLen # 0
        BY IdxAssumption
      <4>3. new \in (SUBSET SUBSET Shards(codec)) \ {{}}
        <5> DEFINE before == fed[n][i]
                   T == arrived \cap expect
        <5>1. before \in (SUBSET SUBSET Shards(codec)) \ {{}}
          BY <3>1 DEF BufferIs
        <5>2. {T} \in (SUBSET SUBSET Shards(codec)) \ {{}}
          BY <1>1, CodecShape
        <5> HIDE DEF before, T
        <5>3. Toggles(before, {T}) \in (SUBSET SUBSET Shards(codec)) \ {{}}
          BY ONLY <5>1, <5>2, TogglesAre
        <5> QED
          BY <5>3 DEF before, T
      <4> HIDE DEF new, buffers, feds
      <4> QED
        BY <2>3, <3>2, <4>1, <4>2, <4>3 DEF BufferIs
    <3> QED
      BY <3>3, <3>4
  <2>5. DOMAIN buffers = Shards(codec) /\ DOMAIN feds = Shards(codec)
    OBVIOUS
  <2> HIDE DEF buffers, feds
  <2>6. DOMAIN partial' = Nodes /\ DOMAIN fed' = Nodes
    BY <2>1 DEF IInv
  <2>7. ASSUME NEW k \in Nodes
        PROVE  /\ DOMAIN partial'[k] = Shards(codec) /\ DOMAIN fed'[k] = Shards(codec)
               /\ \A i \in Shards(codec) : BufferIs(codec, expect, i, partial'[k][i], fed'[k][i])
    <3>1. CASE k = n
      <4>1. partial'[k] = buffers /\ fed'[k] = feds
        BY <2>1, <3>1 DEF IInv
      <4> QED
        BY <2>4, <2>5, <4>1
    <3>2. CASE k # n
      <4>1. partial'[k] = partial[k] /\ fed'[k] = fed[k]
        BY <2>1, <3>2 DEF IInv
      <4> QED
        BY <4>1 DEF IInv
    <3> QED
      BY <3>1, <3>2
  <2> QED
    BY <1>1, <1>2, <2>2, <2>6, <2>7 DEF IInv
<1> QED
  BY <1>3, <1>4

\* A merge stops at the first buffer that does not fit.
LEMMA MergeStopIs ==
  ASSUME IInv, NEW n \in Nodes, NEW m \in Nodes
  PROVE  /\ \A i \in Buffers(n) \cap Buffers(m) :
              i < MergeStop(n, m) => Len(partial[n][i]) = Len(partial[m][i])
         /\ MergeAnswer(n, m) \in Answers
         /\ MergeAnswer(n, m) = "ok" =>
              \A i \in Buffers(n) \cap Buffers(m) : i < MergeStop(n, m)
<1>1. codec \in Codecs
  BY DEF IInv
<1>2. /\ Total(codec) \in Nat /\ Shards(codec) = 0 .. Total(codec) - 1
      /\ IsFiniteSet(Shards(codec)) /\ Shards(codec) \subseteq Nat
  BY <1>1, CodecShape
<1>3. Buffers(n) \subseteq Shards(codec) /\ Misfit(n, m) \subseteq Shards(codec)
  BY DEF Buffers, Misfit
<1>4. MergeAnswer(n, m) \in Answers
  BY DEF MergeAnswer, Answers
<1>5. CASE Misfit(n, m) = {}
  <2>1. \A i \in Buffers(n) \cap Buffers(m) : Len(partial[n][i]) = Len(partial[m][i])
    BY <1>5 DEF Misfit
  <2>2. MergeStop(n, m) = Total(codec)
    BY <1>5 DEF MergeStop
  <2>3. \A i \in Buffers(n) \cap Buffers(m) : i < MergeStop(n, m)
    BY <1>2, <1>3, <2>2
  <2> QED
    BY <1>4, <2>1, <2>3
<1>6. CASE Misfit(n, m) # {}
  <2>1. MergeStop(n, m) = Nth(Misfit(n, m), 0)
    BY <1>6 DEF MergeStop
  <2>2. IsFiniteSet(Misfit(n, m)) /\ Misfit(n, m) \subseteq Nat
    BY <1>2, <1>3, FS_Subset
  <2>3. \A i \in Misfit(n, m) : ~(i < MergeStop(n, m))
    BY <1>6, <2>1, <2>2, FirstIsLeast
  <2>4. \A i \in Buffers(n) \cap Buffers(m) :
          i < MergeStop(n, m) => Len(partial[n][i]) = Len(partial[m][i])
    BY <2>3 DEF Misfit
  <2>5. MergeAnswer(n, m) # "ok"
    BY <1>6 DEF MergeAnswer
  <2> QED
    BY <1>4, <2>4, <2>5
<1> QED
  BY <1>5, <1>6

LEMMA MergeHolds ==
  ASSUME CustomsAreBuilt, IInv, NEW n \in Nodes, NEW m \in Nodes, Merge(n, m)
  PROVE  IInv'
<1>1. codec' = codec /\ expect' = expect /\ codec \in Codecs /\ expect \in Expectations(codec)
  BY DEF Merge, IInv
<1>2. calls' \in 0 .. MaxCalls
  BY IdxAssumption DEF Merge, IInv
<1>3. answer' = MergeAnswer(n, m) /\ answer' \in Answers
  BY MergeStopIs DEF Merge
<1> DEFINE both == Buffers(n) \cap Buffers(m)
           buffers == [i \in Shards(codec) |->
             IF i \in both /\ i < MergeStop(n, m)
             THEN mul_slice_xor(1, partial[m][i], partial[n][i]) ELSE partial[n][i]]
           feds == [i \in Shards(codec) |->
             IF i \notin both THEN fed[n][i]
             ELSE {Toggled(S, T) : S \in fed[n][i], T \in fed[m][i]}
                  \cup (IF answer' = "ok" THEN {} ELSE fed[n][i])]
<1>4. partial' = [partial EXCEPT ![n] = buffers] /\ fed' = [fed EXCEPT ![n] = feds]
  BY DEF Merge
<1>5. ASSUME NEW i \in Shards(codec)
      PROVE  BufferIs(codec, expect, i, buffers[i], feds[i])
  <2> DEFINE x == partial[n][i]
             y == partial[m][i]
             new == Toggles(fed[n][i], fed[m][i])
             out == mul_slice_xor(1, y, x)
  <2>1. BufferIs(codec, expect, i, x, fed[n][i]) /\ BufferIs(codec, expect, i, y, fed[m][i])
    BY DEF IInv
  <2>2. CASE i \notin both
    <3>1. buffers[i] = x /\ feds[i] = fed[n][i]
      BY <2>2
    <3> QED
      BY <2>1, <3>1
  <2>3. CASE i \in both /\ i < MergeStop(n, m)
    <3>1. Len(x) = Len(y)
      BY <2>3, MergeStopIs
    <3>2. BufferIs(codec, expect, i, out, new)
      BY <1>1, <2>1, <3>1, MergedBuffer
    <3>3. buffers[i] = out
      BY <2>3
    <3>4. feds[i] = IF answer' = "ok" THEN new ELSE new \cup fed[n][i]
      BY <2>3 DEF Toggles
    <3> HIDE DEF out, new, x, y, buffers, feds
    <3>5. BufferIs(codec, expect, i, out, new \cup fed[n][i])
      BY ONLY <1>1, <2>1, <3>2, PerhapsFed
    <3> QED
      BY <3>2, <3>3, <3>4, <3>5
  <2>4. CASE i \in both /\ ~(i < MergeStop(n, m))
    <3>1. answer' # "ok"
      BY <1>3, <2>4, MergeStopIs
    <3>2. buffers[i] = x /\ feds[i] = new \cup fed[n][i]
      BY <2>4, <3>1 DEF Toggles
    <3>3. new \in (SUBSET SUBSET Shards(codec)) \ {{}}
      <4> DEFINE before == fed[n][i]
                 other == fed[m][i]
      <4>1. /\ before \in (SUBSET SUBSET Shards(codec)) \ {{}}
            /\ other \in (SUBSET SUBSET Shards(codec)) \ {{}}
        BY <2>1 DEF BufferIs
      <4> HIDE DEF before, other
      <4>2. Toggles(before, other) \in (SUBSET SUBSET Shards(codec)) \ {{}}
        BY ONLY <4>1, TogglesAre
      <4> QED
        BY <4>2 DEF before, other
    <3>4. ~Decodable(codec, expect) => new = {{}}
      BY <2>1, NothingToggles DEF BufferIs
    <3> HIDE DEF new, x, y, buffers, feds
    <3> QED
      BY <2>1, <3>2, <3>3, <3>4 DEF BufferIs
  <2> QED
    BY <2>2, <2>3, <2>4
<1>6. DOMAIN buffers = Shards(codec) /\ DOMAIN feds = Shards(codec)
  OBVIOUS
<1> HIDE DEF buffers, feds, both
<1>7. DOMAIN partial' = Nodes /\ DOMAIN fed' = Nodes
  BY <1>4 DEF IInv
<1>8. ASSUME NEW k \in Nodes
      PROVE  /\ DOMAIN partial'[k] = Shards(codec) /\ DOMAIN fed'[k] = Shards(codec)
             /\ \A i \in Shards(codec) : BufferIs(codec, expect, i, partial'[k][i], fed'[k][i])
  <2>1. CASE k = n
    <3>1. partial'[k] = buffers /\ fed'[k] = feds
      BY <1>4, <2>1 DEF IInv
    <3> QED
      BY <1>5, <1>6, <3>1
  <2>2. CASE k # n
    <3>1. partial'[k] = partial[k] /\ fed'[k] = fed[k]
      BY <1>4, <2>2 DEF IInv
    <3> QED
      BY <3>1 DEF IInv
  <2> QED
    BY <2>1, <2>2
<1> QED
  BY <1>1, <1>2, <1>3, <1>7, <1>8 DEF IInv

\* Every step keeps the invariant.
LEMMA StepHolds ==
  ASSUME CustomsAreBuilt, IInv, [Next]_vars
  PROVE  IInv'
<1>1. ASSUME NEW n \in Nodes, NEW arrived \in Arrivals(codec), Accumulate(n, arrived)
      PROVE  IInv'
  BY <1>1, AccumulateHolds
<1>2. ASSUME NEW n \in Nodes, NEW m \in Nodes, Merge(n, m)
      PROVE  IInv'
  BY <1>2, MergeHolds
<1>3. CASE UNCHANGED vars
  BY <1>3 DEF vars, IInv
<1> QED
  BY <1>1, <1>2, <1>3 DEF Next

LEMMA InvariantHolds ==
  ASSUME CustomsAreBuilt
  PROVE  Spec => []IInv
<1>1. Init => IInv
  BY InitHolds
<1>2. IInv /\ [Next]_vars => IInv'
  BY StepHolds
<1> QED
  BY <1>1, <1>2, PTL DEF Spec

\* Buffers stay sequences of bytes, and what they may have been fed sets of the
\* codec's shards (decode_idx in galois_8/policy.rs).
THEOREM TypeCorrect ==
  ASSUME CustomsAreBuilt
  PROVE  Spec => []TypeOK
<1>1. IInv => TypeOK
  BY DEF IInv, TypeOK, BufferIs, Answers
<1> QED
  BY <1>1, InvariantHolds, PTL

\* For every number of shards, matrix, data and order of calls: a buffer that
\* every expected shard reached once holds the lost shard (decode_idx in
\* galois_8/policy.rs).
THEOREM ProgressiveDecoding ==
  ASSUME CustomsAreBuilt
  PROVE  Spec => []CompleteIsTheShard
<1>1. ASSUME IInv
      PROVE  CompleteIsTheShard
  <2>1. ASSUME NEW n \in Nodes, NEW i \in Buffers(n), Sound(n, i), fed[n][i] = {expect}
        PROVE  partial[n][i] = Shard[codec][i]
    <3> DEFINE c == codec
               E == expect
               x == partial[n][i]
    <3>1. c \in Codecs /\ i \in Shards(c) /\ BufferIs(c, E, i, x, {E})
      BY <1>1, <2>1 DEF IInv, Buffers
    <3>2. Len(x) = ShardLen /\ E \in Selections(c) /\ ShardLen \in Nat
      BY <2>1, IdxAssumption DEF Sound
    <3>3. E # {}
      BY <3>1, <3>2, SelectionIs
    <3>4. Decodable(c, E)
      BY <3>1, <3>3 DEF BufferIs
    <3>5. \A b \in 1 .. ShardLen : x[b] = Part(c, E, i, E, b)
      BY <3>1, <3>2, <3>4 DEF BufferIs
    <3>6. \A b \in 1 .. ShardLen : x[b] = Shard[c][i][b]
      BY <3>1, <3>4, <3>5, PartOfAll
    <3>7. x = [b \in 1 .. ShardLen |-> x[b]]
      BY <3>1, <3>2 DEF BufferIs
    <3>8. Shard[c][i] = [b \in 1 .. ShardLen |-> Shard[c][i][b]]
      BY <3>1, ShardIs
    <3> QED
      BY <3>6, <3>7, <3>8
  <2> QED
    BY <2>1 DEF CompleteIsTheShard
<1> QED
  BY <1>1, InvariantHolds, PTL

\* No call for a codec of a mode other than Custom is told that its matrix is
\* of no use, whatever shards it names as expected (decode_idx in
\* galois_8/policy.rs, which returns what get_data_decode_matrix returns).
THEOREM NeverRefused ==
  Spec => [](codec.mode # "Custom" => answer # "InvalidCustomMatrix")
<1> DEFINE J == /\ codec \in Codecs /\ expect \in Expectations(codec)
                /\ codec.mode # "Custom" => answer # "InvalidCustomMatrix"
<1>1. Init => J
  BY DEF Init
<1>2. ASSUME J, [Next]_vars
      PROVE  J'
  <2>1. CASE UNCHANGED vars
    BY <1>2, <2>1 DEF vars
  <2>2. ASSUME NEW n \in Nodes, NEW m \in Nodes, Merge(n, m)
        PROVE  J'
    <3>1. answer' \in {"ok", "IncorrectShardSize", "TooFewShards"} /\ UNCHANGED <<codec, expect>>
      BY <2>2 DEF Merge, MergeAnswer
    <3> QED
      BY <1>2, <3>1
  <2>3. ASSUME NEW n \in Nodes, NEW arrived, Accumulate(n, arrived)
        PROVE  J'
    <3>1. UNCHANGED <<codec, expect>> /\ (answer' = "ok" \/ answer' = Verdict(n, arrived))
      BY <2>3 DEF Accumulate
    <3>2. ASSUME Verdict(n, arrived) = "InvalidCustomMatrix"
          PROVE  codec.mode = "Custom"
      <4>1. Cardinality(expect) = codec.d /\ DecodeMatrix[codec][expect] = Singular
        BY <3>2 DEF Verdict
      <4>2. expect \in Selections(codec)
        <5>1. expect \in SUBSET Shards(codec)
          BY <1>2, CodecShape
        <5> QED
          BY <4>1, <5>1 DEF Selections
      <4> QED
        BY <1>2, <4>1, <4>2, AnyShardsSuffice
    <3> QED
      BY <1>2, <3>1, <3>2
  <2> QED
    BY <1>2, <2>1, <2>2, <2>3 DEF Next
<1>3. J => (codec.mode # "Custom" => answer # "InvalidCustomMatrix")
  OBVIOUS
<1> QED
  BY <1>1, <1>2, <1>3, PTL DEF Spec

(* ------------------------------ determinants ----------------------------- *)

LEMMA ShortDots ==
  ASSUME NEW n \in Nat, NEW a, NEW b, IsVector(n, a), IsVector(n, b)
  PROVE  /\ n = 1 => Dot(n, a, b) = mul(a[0], b[0])
         /\ n = 2 => Dot(n, a, b) = add(mul(a[0], b[0]), mul(a[1], b[1]))
         /\ n = 3 => Dot(n, a, b) = add(add(mul(a[0], b[0]), mul(a[1], b[1])), mul(a[2], b[2]))
<1>1. CASE n = 1 \/ n = 2 \/ n = 3
  <2>1. Dot(0, a, b) = 0
    BY DotSteps
  <2>2. 0 \in 0 .. n - 1 /\ (n > 1 => 1 \in 0 .. n - 1) /\ (n > 2 => 2 \in 0 .. n - 1)
    BY <1>1
  <2>3. Dot(0 + 1, a, b) = add(Dot(0, a, b), mul(a[0], b[0]))
    BY <2>2, DotNext
  <2>4. n > 1 => Dot(1 + 1, a, b) = add(Dot(1, a, b), mul(a[1], b[1]))
    BY <2>2, DotNext
  <2>5. n > 2 => Dot(2 + 1, a, b) = add(Dot(2, a, b), mul(a[2], b[2]))
    BY <2>2, DotNext
  <2>6. mul(a[0], b[0]) \in Byte
    BY <2>2, Products DEF IsVector
  <2>7. Dot(1, a, b) = mul(a[0], b[0])
    <3>1. add(0, mul(a[0], b[0])) = mul(a[0], b[0]) /\ 0 + 1 = 1
      BY <2>6, Sums
    <3> QED
      BY <2>1, <2>3, <3>1
  <2>8. 1 + 1 = 2 /\ 2 + 1 = 3
    OBVIOUS
  <2>9. CASE n = 1
    BY <2>7, <2>9
  <2>10. CASE n = 2
    BY <2>4, <2>7, <2>8, <2>10
  <2>11. CASE n = 3
    BY <2>4, <2>5, <2>7, <2>8, <2>11
  <2> QED
    BY <1>1, <2>9, <2>10, <2>11
<1> QED
  BY <1>1

\* The elements of vector c where Cross multiplies them with those of another.
Turn(c) == [k \in 0 .. 2 |-> [j \in 0 .. 2 |-> IF k = j THEN 0 ELSE c[3 - (k + j)]]]

Cross(b, c) == [k \in 0 .. 2 |-> Dot(3, Turn(c)[k], b)]

\* The determinant of three rows.
Triple(a, b, c) == Dot(3, a, Cross(b, c))

LEMMA TurnIs ==
  ASSUME NEW c, IsVector(3, c)
  PROVE  /\ Turn(c) \in Matrices(3, 3)
         /\ Turn(c)[0][0] = 0 /\ Turn(c)[0][1] = c[2] /\ Turn(c)[0][2] = c[1]
         /\ Turn(c)[1][0] = c[2] /\ Turn(c)[1][1] = 0 /\ Turn(c)[1][2] = c[0]
         /\ Turn(c)[2][0] = c[1] /\ Turn(c)[2][1] = c[0] /\ Turn(c)[2][2] = 0
<1>1. 3 - 1 = 2 /\ 0 \in 0 .. 2 /\ 1 \in 0 .. 2 /\ 2 \in 0 .. 2
      /\ 3 - (0 + 1) = 2 /\ 3 - (0 + 2) = 1 /\ 3 - (1 + 0) = 2
      /\ 3 - (1 + 2) = 0 /\ 3 - (2 + 0) = 1 /\ 3 - (2 + 1) = 0
  OBVIOUS
<1>2. \A k, j \in 0 .. 2 : Turn(c)[k][j] = IF k = j THEN 0 ELSE c[3 - (k + j)]
  BY DEF Turn
<1>3. \A k, j \in 0 .. 2 : k # j => 3 - (k + j) \in 0 .. 2
  OBVIOUS
<1>4. \A k, j \in 0 .. 2 : Turn(c)[k][j] \in Byte
  BY <1>1, <1>2, <1>3, SmallBytes DEF IsVector
<1>5. Turn(c) = [k \in 0 .. 2 |-> [j \in 0 .. 2 |-> Turn(c)[k][j]]]
  BY DEF Turn
<1>6. Turn(c) \in [0 .. 2 -> [0 .. 2 -> Byte]]
  <2> DEFINE T == Turn(c)
  <2>1. T = [k \in 0 .. 2 |-> [j \in 0 .. 2 |-> T[k][j]]] /\ \A k, j \in 0 .. 2 : T[k][j] \in Byte
    BY <1>4, <1>5
  <2> HIDE DEF T
  <2>2. T \in [0 .. 2 -> [0 .. 2 -> Byte]]
    BY <2>1
  <2> QED
    BY <2>2 DEF T
<1>7. Turn(c) \in Matrices(3, 3)
  BY <1>1, <1>6 DEF Matrices
<1>8. /\ Turn(c)[0][0] = 0 /\ Turn(c)[0][1] = c[2] /\ Turn(c)[0][2] = c[1]
      /\ Turn(c)[1][0] = c[2] /\ Turn(c)[1][1] = 0 /\ Turn(c)[1][2] = c[0]
      /\ Turn(c)[2][0] = c[1] /\ Turn(c)[2][1] = c[0] /\ Turn(c)[2][2] = 0
  BY <1>1, <1>2
<1> QED
  BY <1>7, <1>8

LEMMA CrossIs ==
  ASSUME NEW b, IsVector(3, b), NEW c, IsVector(3, c)
  PROVE  /\ IsVector(3, Cross(b, c))
         /\ Cross(b, c)[0] = add(mul(b[1], c[2]), mul(b[2], c[1]))
         /\ Cross(b, c)[1] = add(mul(b[0], c[2]), mul(b[2], c[0]))
         /\ Cross(b, c)[2] = add(mul(b[0], c[1]), mul(b[1], c[0]))
<1>0. 3 \in Nat /\ 3 - 1 = 2 /\ 0 \in 0 .. 3 - 1 /\ 1 \in 0 .. 3 - 1 /\ 2 \in 0 .. 3 - 1
  OBVIOUS
<1>1. \A k \in 0 .. 2 : IsVector(3, Turn(c)[k])
  BY <1>0, TurnIs, ColumnsAndRows
<1>2. \A k \in 0 .. 2 :
        Dot(3, Turn(c)[k], b) = add(add(mul(Turn(c)[k][0], b[0]), mul(Turn(c)[k][1], b[1])), mul(Turn(c)[k][2], b[2]))
  BY <1>0, <1>1, ShortDots
<1>3. /\ b[0] \in Byte /\ b[1] \in Byte /\ b[2] \in Byte /\ c[0] \in Byte /\ c[1] \in Byte /\ c[2] \in Byte
  BY <1>0 DEF IsVector
<1>4. \A k \in 0 .. 2 : Cross(b, c)[k] = Dot(3, Turn(c)[k], b)
  BY DEF Cross
<1>v. IsVector(3, Cross(b, c))
  <2>1. \A k \in 0 .. 2 : Dot(3, Turn(c)[k], b) \in Byte
    BY <1>0, <1>1, DotInByte
  <2> QED
    BY <1>0, <1>4, <2>1 DEF IsVector
<1>5. Cross(b, c)[0] = add(mul(b[1], c[2]), mul(b[2], c[1]))
  <2>1. Cross(b, c)[0] = add(add(mul(0, b[0]), mul(c[2], b[1])), mul(c[1], b[2]))
    BY <1>0, <1>2, <1>4, TurnIs
  <2>2. mul(c[2], b[1]) = mul(b[1], c[2]) /\ mul(c[1], b[2]) = mul(b[2], c[1])
        /\ mul(0, b[0]) = 0 /\ mul(b[1], c[2]) \in Byte
    BY <1>3, Products
  <2>3. add(0, mul(b[1], c[2])) = mul(b[1], c[2])
    BY <2>2, Sums
  <2> QED
    BY <2>1, <2>2, <2>3
<1>6. Cross(b, c)[1] = add(mul(b[0], c[2]), mul(b[2], c[0]))
  <2>1. Cross(b, c)[1] = add(add(mul(c[2], b[0]), mul(0, b[1])), mul(c[0], b[2]))
    BY <1>0, <1>2, <1>4, TurnIs
  <2>2. mul(c[2], b[0]) = mul(b[0], c[2]) /\ mul(c[0], b[2]) = mul(b[2], c[0])
        /\ mul(0, b[1]) = 0 /\ mul(b[0], c[2]) \in Byte
    BY <1>3, Products
  <2>3. add(mul(b[0], c[2]), 0) = mul(b[0], c[2])
    BY <2>2, Sums
  <2> QED
    BY <2>1, <2>2, <2>3
<1>7. Cross(b, c)[2] = add(mul(b[0], c[1]), mul(b[1], c[0]))
  <2>1. Cross(b, c)[2] = add(add(mul(c[1], b[0]), mul(c[0], b[1])), mul(0, b[2]))
    BY <1>0, <1>2, <1>4, TurnIs
  <2>2. mul(c[1], b[0]) = mul(b[0], c[1]) /\ mul(c[0], b[1]) = mul(b[1], c[0])
        /\ mul(0, b[2]) = 0 /\ mul(b[0], c[1]) \in Byte /\ mul(b[1], c[0]) \in Byte
    BY <1>3, Products
  <2>3. add(mul(b[0], c[1]), mul(b[1], c[0])) \in Byte
    BY <2>2, Sums
  <2>4. add(add(mul(b[0], c[1]), mul(b[1], c[0])), 0) = add(mul(b[0], c[1]), mul(b[1], c[0]))
    BY <2>3, Sums
  <2> QED
    BY <2>1, <2>2, <2>4
<1> QED
  BY <1>v, <1>5, <1>6, <1>7

\* The determinant is linear in its first row.
LEMMA TripleLinear ==
  ASSUME NEW R \in Matrices(3, 3), NEW x, IsVector(3, x), NEW w,
         \A j \in 0 .. 2 : w[j] = Dot(3, x, Column(3, R, j)),
         NEW b, IsVector(3, b), NEW c, IsVector(3, c)
  PROVE  Triple(w, b, c) = Dot(3, x, [j \in 0 .. 2 |-> Triple(R[j], b, c)])
<1> DEFINE v == Cross(b, c)
           inner == [j \in 0 .. 2 |-> Triple(R[j], b, c)]
<1>0. 3 \in Nat /\ 3 - 1 = 2
  OBVIOUS
<1>1. IsVector(3, v)
  BY CrossIs
<1>2. \A k \in 0 .. 3 - 1 : inner[k] = Dot(3, R[k], v)
  BY DEF Triple
<1>3. \A k \in 0 .. 3 - 1 : IsVector(3, R[k])
  BY <1>0, ColumnsAndRows
<1> HIDE DEF v, inner
<1>4. \A j \in 0 .. 3 - 1 : w[j] = Dot(3, x, Column(3, R, j))
  BY <1>0
<1>5. Dot(3, x, inner) = Dot(3, w, v)
  <2>1. PICK d \in Nat : d = 3
    OBVIOUS
  <2>2. IsVector(d, v) /\ IsVector(d, x) /\ \A k \in 0 .. d - 1 : IsVector(d, R[k])
    BY <1>1, <1>3, <2>1
  <2>3. \A k \in 0 .. d - 1 : inner[k] = Dot(d, R[k], v)
    BY <1>2, <2>1
  <2>4. \A j \in 0 .. d - 1 : w[j] = Dot(d, x, Column(d, R, j))
    BY <1>4, <2>1
  <2>5. Dot(d, x, inner) = Dot(d, w, v)
    BY ONLY d \in Nat, <2>2, <2>3, <2>4, DotsExchange
  <2> QED
    BY <2>1, <2>5
<1> QED
  BY <1>5 DEF inner, v, Triple

\* It does not matter in what order the rows come.
LEMMA TripleSymmetric ==
  ASSUME NEW a, IsVector(3, a), NEW b, IsVector(3, b), NEW c, IsVector(3, c)
  PROVE  Triple(a, b, c) = Triple(b, a, c) /\ Triple(a, b, c) = Triple(a, c, b)
<1>0. 3 \in Nat /\ 3 - 1 = 2 /\ 0 \in 0 .. 2 /\ 1 \in 0 .. 2 /\ 2 \in 0 .. 2
  OBVIOUS
<1>1. Triple(a, b, c) = Triple(b, a, c)
  <2> DEFINE M == Turn(c)
             inner == Cross(b, c)
             outer == Cross(a, c)
  <2>1. M \in Matrices(3, 3) /\ \A k \in 0 .. 3 - 1 : IsVector(3, M[k])
    BY <1>0, TurnIs, ColumnsAndRows
  <2>2. \A k \in 0 .. 3 - 1 : inner[k] = Dot(3, M[k], b)
    BY DEF Cross
  <2>3. \A j \in 0 .. 3 - 1 : outer[j] = Dot(3, a, Column(3, M, j))
    <3>1. ASSUME NEW j \in 0 .. 2
          PROVE  outer[j] = Dot(3, a, Column(3, M, j))
      <4> DEFINE row == M[j]
                 column == Column(3, M, j)
      <4>1. \A k \in 0 .. 3 - 1 : column[k] = row[k]
        <5>1. \A k \in 0 .. 2 : M[k][j] = M[j][k]
          <6>1. j = 0 \/ j = 1 \/ j = 2
            OBVIOUS
          <6>2. \A k \in 0 .. 2 : k = 0 \/ k = 1 \/ k = 2
            OBVIOUS
          <6> QED
            BY <6>1, <6>2, TurnIs
        <5> QED
          BY <1>0, <5>1 DEF Column
      <4>2. outer[j] = Dot(3, row, a) /\ IsVector(3, row)
        BY <1>0, <2>1 DEF Cross
      <4> HIDE DEF row, column
      <4>3. Dot(3, row, a) = Dot(3, a, row)
        BY <1>0, <4>2, DotCommutes
      <4>4. Dot(3, a, column) = Dot(3, a, row)
        BY <1>0, <4>1, <4>2, DotSame
      <4> QED
        BY <4>2, <4>3, <4>4 DEF column
    <3> QED
      BY <1>0, <3>1
  <2>4. IsVector(3, outer)
    BY CrossIs
  <2> HIDE DEF M, inner, outer
  <2>5. Dot(3, a, inner) = Dot(3, outer, b)
    <3>1. PICK d \in Nat : d = 3
      OBVIOUS
    <3>2. IsVector(d, a) /\ IsVector(d, b) /\ \A k \in 0 .. d - 1 : IsVector(d, M[k])
      BY <2>1, <3>1
    <3>3. \A k \in 0 .. d - 1 : inner[k] = Dot(d, M[k], b)
      BY <2>2, <3>1
    <3>4. \A j \in 0 .. d - 1 : outer[j] = Dot(d, a, Column(d, M, j))
      BY <2>3, <3>1
    <3>5. Dot(d, a, inner) = Dot(d, outer, b)
      BY ONLY d \in Nat, <3>2, <3>3, <3>4, DotsExchange
    <3> QED
      BY <3>1, <3>5
  <2>6. Dot(3, outer, b) = Dot(3, b, outer)
    BY <1>0, <2>4, DotCommutes
  <2> QED
    BY <2>5, <2>6 DEF Triple, inner, outer
<1>2. Triple(a, b, c) = Triple(a, c, b)
  <2>1. \A k \in 0 .. 2 : Cross(b, c)[k] = Cross(c, b)[k]
    <3>1. /\ b[0] \in Byte /\ b[1] \in Byte /\ b[2] \in Byte /\ c[0] \in Byte /\ c[1] \in Byte /\ c[2] \in Byte
      BY <1>0 DEF IsVector
    <3>2. \A i, j \in 0 .. 2 : /\ mul(b[i], c[j]) \in Byte
                               /\ mul(c[i], b[j]) = mul(b[j], c[i])
      BY <1>0, Products DEF IsVector
    <3>3. \A i, j \in 0 .. 2 : add(mul(b[i], c[j]), mul(b[j], c[i])) = add(mul(c[i], b[j]), mul(c[j], b[i]))
      BY <3>2, Sums
    <3>4. \A k \in 0 .. 2 : k = 0 \/ k = 1 \/ k = 2
      OBVIOUS
    <3> QED
      BY <1>0, <3>3, <3>4, CrossIs
  <2>2. Cross(b, c) = Cross(c, b)
    BY <2>1 DEF Cross
  <2> QED
    BY <2>2 DEF Triple
<1> QED
  BY <1>1, <1>2

LEMMA TripleAlternates ==
  ASSUME NEW b, IsVector(3, b), NEW c, IsVector(3, c)
  PROVE  Triple(b, b, c) = 0
<1>0. 3 \in Nat /\ 3 - 1 = 2 /\ 0 \in 0 .. 2 /\ 1 \in 0 .. 2 /\ 2 \in 0 .. 2
  OBVIOUS
<1> DEFINE p == mul(b[0], mul(b[1], c[2]))
           q == mul(b[0], mul(b[2], c[1]))
           r == mul(b[1], mul(b[2], c[0]))
<1>1. \A i, j, k \in 0 .. 2 :
        /\ b[i] \in Byte /\ mul(b[j], c[k]) \in Byte /\ mul(b[i], mul(b[j], c[k])) \in Byte
        /\ mul(b[i], mul(b[j], c[k])) = mul(b[j], mul(b[i], c[k]))
  <2>1. ASSUME NEW i \in 0 .. 2, NEW j \in 0 .. 2, NEW k \in 0 .. 2
        PROVE  /\ b[i] \in Byte /\ mul(b[j], c[k]) \in Byte /\ mul(b[i], mul(b[j], c[k])) \in Byte
               /\ mul(b[i], mul(b[j], c[k])) = mul(b[j], mul(b[i], c[k]))
    <3> DEFINE u == b[i]
               v == b[j]
               w == c[k]
    <3>1. u \in Byte /\ v \in Byte /\ w \in Byte
      BY <1>0 DEF IsVector
    <3> HIDE DEF u, v, w
    <3>2. mul(v, w) \in Byte
      BY <3>1, Products
    <3>3. mul(u, mul(v, w)) \in Byte
      BY <3>1, <3>2, Products
    <3>4. mul(u, mul(v, w)) = mul(v, mul(u, w))
      BY ONLY <3>1, ProductsMove
    <3> QED
      BY <3>1, <3>2, <3>3, <3>4 DEF u, v, w
  <2> QED
    BY <2>1
<1>2. p \in Byte /\ q \in Byte /\ r \in Byte
  BY <1>0, <1>1
<1>3. mul(b[0], Cross(b, c)[0]) = add(p, q)
  <2>1. mul(b[0], add(mul(b[1], c[2]), mul(b[2], c[1]))) = add(p, q)
    <3>1. b[0] \in Byte /\ mul(b[1], c[2]) \in Byte /\ mul(b[2], c[1]) \in Byte
      BY <1>0, <1>1
    <3> QED
      BY <3>1, Distributes
  <2> QED
    BY <2>1, CrossIs
<1>4. mul(b[1], Cross(b, c)[1]) = add(p, r)
  <2>1. mul(b[1], add(mul(b[0], c[2]), mul(b[2], c[0]))) = add(mul(b[1], mul(b[0], c[2])), r)
    <3>1. b[1] \in Byte /\ mul(b[0], c[2]) \in Byte /\ mul(b[2], c[0]) \in Byte
      BY <1>0, <1>1
    <3> QED
      BY <3>1, Distributes
  <2>2. mul(b[1], mul(b[0], c[2])) = p
    BY <1>0, <1>1
  <2> QED
    BY <2>1, <2>2, CrossIs
<1>5. mul(b[2], Cross(b, c)[2]) = add(q, r)
  <2>1. mul(b[2], add(mul(b[0], c[1]), mul(b[1], c[0]))) = add(mul(b[2], mul(b[0], c[1])), mul(b[2], mul(b[1], c[0])))
    <3>1. b[2] \in Byte /\ mul(b[0], c[1]) \in Byte /\ mul(b[1], c[0]) \in Byte
      BY <1>0, <1>1
    <3> QED
      BY <3>1, Distributes
  <2>2. mul(b[2], mul(b[0], c[1])) = q /\ mul(b[2], mul(b[1], c[0])) = r
    BY <1>0, <1>1
  <2> QED
    BY <2>1, <2>2, CrossIs
<1> DEFINE v == Cross(b, c)
<1>6. IsVector(3, v)
  BY CrossIs
<1>7. Triple(b, b, c) = Dot(3, b, v)
  BY DEF Triple
<1> HIDE DEF v
<1>8. Dot(3, b, v) = add(add(mul(b[0], v[0]), mul(b[1], v[1])), mul(b[2], v[2]))
  BY <1>0, <1>6, ShortDots
<1>9. Triple(b, b, c) = add(add(add(p, q), add(p, r)), add(q, r))
  BY <1>3, <1>4, <1>5, <1>7, <1>8 DEF v
<1> HIDE DEF p, q, r
<1>10. add(add(p, q), add(p, r)) = add(q, r)
  <2>1. add(add(p, q), add(p, r)) = add(add(p, p), add(q, r))
    BY <1>2, SumsExchange
  <2>2. add(p, p) = 0 /\ add(q, r) \in Byte
    BY <1>2, Sums
  <2>3. add(0, add(q, r)) = add(q, r)
    BY <2>2, Sums
  <2> QED
    BY <2>1, <2>2, <2>3
<1>11. add(add(q, r), add(q, r)) = 0
  <2>1. add(q, r) \in Byte
    BY <1>2, Sums
  <2> QED
    BY <2>1, Sums
<1> QED
  BY <1>9, <1>10, <1>11

LEMMA TripleOfZeros ==
  ASSUME NEW R \in Matrices(3, 3), NEW x, IsVector(3, x), NEW w,
         \A j \in 0 .. 2 : w[j] = Dot(3, x, Column(3, R, j)),
         NEW b, IsVector(3, b), NEW c, IsVector(3, c),
         \A j \in 0 .. 2 : Triple(R[j], b, c) = 0
  PROVE  Triple(w, b, c) = 0
<1> DEFINE y == [j \in 0 .. 2 |-> Triple(R[j], b, c)]
<1>1. \A j \in 0 .. 3 - 1 : y[j] = 0
  OBVIOUS
<1>2. Triple(w, b, c) = Dot(3, x, y)
  BY TripleLinear
<1> HIDE DEF y
<1>3. Dot(3, x, y) = 0
  BY <1>1, DotWithZero
<1> QED
  BY <1>2, <1>3

\* A determinant whose first row is a combination of the rows.
LEMMA TripleReplaced ==
  ASSUME NEW R \in Matrices(3, 3), NEW x, IsVector(3, x), NEW w,
         \A j \in 0 .. 2 : w[j] = Dot(3, x, Column(3, R, j)),
         NEW i \in 0 .. 2, NEW j \in 0 .. 2, NEW k \in 0 .. 2, i # j, i # k, j # k
  PROVE  Triple(w, R[j], R[k]) = mul(x[i], Triple(R[i], R[j], R[k]))
<1> DEFINE b == R[j]
           c == R[k]
           y == [l \in 0 .. 2 |-> Triple(R[l], b, c)]
<1>0. 3 \in Nat /\ 3 - 1 = 2
  OBVIOUS
<1>1. \A l \in 0 .. 2 : IsVector(3, R[l])
  BY <1>0, ColumnsAndRows
<1>2. Triple(w, b, c) = Dot(3, x, y)
  BY <1>1, TripleLinear
<1>3. \A l \in 0 .. 2 : l # i => l = j \/ l = k
  OBVIOUS
<1>4. \A l \in 0 .. 2 : y[l] = Triple(R[l], b, c)
  OBVIOUS
<1>5. \A l \in 0 .. 2 : y[l] \in Byte
  <2>1. IsVector(3, Cross(b, c))
    BY <1>1, CrossIs
  <2>2. \A l \in 0 .. 2 : Dot(3, R[l], Cross(b, c)) \in Byte
    BY <1>0, <1>1, <2>1, DotInByte
  <2> QED
    BY <1>4, <2>2 DEF Triple
<1>6. \A l \in 0 .. 2 : l # i => y[l] = 0
  <2>1. Triple(b, b, c) = 0
    BY <1>1, TripleAlternates
  <2>2. Triple(c, b, c) = Triple(c, c, b) /\ Triple(c, c, b) = 0
    BY <1>1, TripleSymmetric, TripleAlternates
  <2> QED
    BY <1>3, <1>4, <2>1, <2>2
<1> HIDE DEF y
<1>7. \A l \in 0 .. 2 : l # i => mul(x[l], y[l]) = 0
  BY <1>0, <1>6, Products DEF IsVector
<1>8. Dot(3, x, y) = mul(x[i], y[i])
  <2>1. PICK d \in Nat : d = 3
    OBVIOUS
  <2>2. IsVector(d, x) /\ IsVector(d, y) /\ i \in 0 .. d - 1
        /\ \A l \in 0 .. d - 1 : l # i => mul(x[l], y[l]) = 0
    BY <1>0, <1>5, <1>7, <2>1 DEF IsVector
  <2>3. Dot(d, x, y) = mul(x[i], y[i])
    BY ONLY d \in Nat, <2>2, DotPick
  <2> QED
    BY <2>1, <2>3
<1> QED
  BY <1>2, <1>4, <1>8

\* Two rows.
Turned(b) == [k \in 0 .. 1 |-> b[1 - k]]

Pair(a, b) == Dot(2, a, Turned(b))

LEMMA PairIs ==
  ASSUME NEW a, IsVector(2, a), NEW b, IsVector(2, b)
  PROVE  /\ IsVector(2, Turned(b)) /\ Pair(a, b) \in Byte
         /\ Pair(a, b) = add(mul(a[0], b[1]), mul(a[1], b[0]))
         /\ Pair(a, b) = Pair(b, a) /\ Pair(b, b) = 0
<1>0. 2 \in Nat /\ 2 - 1 = 1 /\ 0 \in 0 .. 1 /\ 1 \in 0 .. 1 /\ 1 - 0 = 1 /\ 1 - 1 = 0
  OBVIOUS
<1>1. Turned(a)[0] = a[1] /\ Turned(a)[1] = a[0] /\ Turned(b)[0] = b[1] /\ Turned(b)[1] = b[0]
  BY <1>0 DEF Turned
<1>2. a[0] \in Byte /\ a[1] \in Byte /\ b[0] \in Byte /\ b[1] \in Byte
  BY <1>0 DEF IsVector
<1>3. IsVector(2, Turned(a)) /\ IsVector(2, Turned(b))
  <2>1. \A k \in 0 .. 1 : k = 0 \/ k = 1
    OBVIOUS
  <2> QED
    BY <1>0, <1>1, <1>2, <2>1 DEF IsVector
<1>4. /\ Pair(a, b) = add(mul(a[0], b[1]), mul(a[1], b[0]))
      /\ Pair(b, a) = add(mul(b[0], a[1]), mul(b[1], a[0]))
      /\ Pair(b, b) = add(mul(b[0], b[1]), mul(b[1], b[0]))
  BY <1>1, <1>3, ShortDots DEF Pair
<1>5. /\ mul(a[0], b[1]) \in Byte /\ mul(a[1], b[0]) \in Byte /\ mul(b[0], b[1]) \in Byte
      /\ mul(b[1], a[0]) = mul(a[0], b[1]) /\ mul(b[0], a[1]) = mul(a[1], b[0])
      /\ mul(b[1], b[0]) = mul(b[0], b[1])
  BY <1>2, Products
<1>6. /\ add(mul(a[0], b[1]), mul(a[1], b[0])) \in Byte
      /\ add(mul(a[0], b[1]), mul(a[1], b[0])) = add(mul(a[1], b[0]), mul(a[0], b[1]))
      /\ add(mul(b[0], b[1]), mul(b[0], b[1])) = 0
  BY <1>5, Sums
<1> QED
  BY <1>3, <1>4, <1>5, <1>6

LEMMA PairLinear ==
  ASSUME NEW R \in Matrices(2, 2), NEW x, IsVector(2, x), NEW w,
         \A j \in 0 .. 1 : w[j] = Dot(2, x, Column(2, R, j)),
         NEW b, IsVector(2, b)
  PROVE  /\ IsVector(2, w)
         /\ Pair(w, b) = add(mul(x[0], Pair(R[0], b)), mul(x[1], Pair(R[1], b)))
<1> DEFINE v == Turned(b)
           inner == [j \in 0 .. 1 |-> Pair(R[j], b)]
<1>0. 2 \in Nat /\ 2 - 1 = 1 /\ 0 \in 0 .. 1 /\ 1 \in 0 .. 1
  OBVIOUS
<1>1. IsVector(2, v)
  BY PairIs
<1>2. \A k \in 0 .. 2 - 1 : inner[k] = Dot(2, R[k], v)
  BY DEF Pair
<1>3. \A k \in 0 .. 2 - 1 : IsVector(2, R[k]) /\ IsVector(2, Column(2, R, k))
  BY <1>0, ColumnsAndRows
<1>4. IsVector(2, inner) /\ inner[0] = Pair(R[0], b) /\ inner[1] = Pair(R[1], b)
  BY <1>0, <1>3, PairIs DEF IsVector
<1>w. IsVector(2, w)
  <2>1. \A k \in 0 .. 2 - 1 : Dot(2, x, Column(2, R, k)) \in Byte
    BY <1>0, <1>3, DotInByte
  <2> QED
    BY <1>0, <2>1 DEF IsVector
<1> HIDE DEF v, inner
<1>5. Dot(2, x, inner) = Dot(2, w, v)
  <2>1. PICK d \in Nat : d = 2
    OBVIOUS
  <2>2. IsVector(d, v) /\ IsVector(d, x) /\ \A k \in 0 .. d - 1 : IsVector(d, R[k])
    BY <1>1, <1>3, <2>1
  <2>3. \A k \in 0 .. d - 1 : inner[k] = Dot(d, R[k], v)
    BY <1>2, <2>1
  <2>4. \A j \in 0 .. d - 1 : w[j] = Dot(d, x, Column(d, R, j))
    BY <1>0, <2>1
  <2>5. Dot(d, x, inner) = Dot(d, w, v)
    BY ONLY d \in Nat, <2>2, <2>3, <2>4, DotsExchange
  <2> QED
    BY <2>1, <2>5
<1>6. Dot(2, x, inner) = add(mul(x[0], inner[0]), mul(x[1], inner[1]))
  BY <1>0, <1>4, ShortDots
<1> QED
  BY <1>4, <1>5, <1>6, <1>w DEF v, Pair

\* Det (ClassicMatrix) in these terms.
LEMMA DetIs ==
  ASSUME NEW d, NEW m \in Matrices(d, d)
  PROVE  /\ d = 1 => Det(m) = m[0][0]
         /\ d = 2 => Det(m) = Pair(m[0], m[1])
         /\ d = 3 => Det(m) = Triple(m[0], m[1], m[2])
<1>1. ASSUME d = 1 PROVE Det(m) = m[0][0]
  <2>1. Rows(m) = 1
    BY <1>1, MatrixShape
  <2> QED
    BY <2>1 DEF Det
<1>2. ASSUME d = 2 PROVE Det(m) = Pair(m[0], m[1])
  <2>1. Rows(m) = 2 /\ 2 \in Nat /\ 0 \in 0 .. 2 - 1 /\ 1 \in 0 .. 2 - 1
    BY <1>2, MatrixShape
  <2>2. IsVector(2, m[0]) /\ IsVector(2, m[1])
    BY <1>2, <2>1, ColumnsAndRows
  <2>3. Det(m) = Det2(m)
    BY <2>1 DEF Det
  <2> QED
    BY <2>2, <2>3, PairIs DEF Det2
<1>3. ASSUME d = 3 PROVE Det(m) = Triple(m[0], m[1], m[2])
  <2>1. /\ Rows(m) = 3 /\ 3 \in Nat /\ 0 \in 0 .. 2 /\ 1 \in 0 .. 2 /\ 2 \in 0 .. 2 /\ 3 - 1 = 2
        /\ 3 - 2 = 1 /\ 0 \in 0 .. 1 /\ 1 \in 0 .. 1
    BY <1>3, MatrixShape
  <2>2. IsVector(3, m[0]) /\ IsVector(3, m[1]) /\ IsVector(3, m[2])
    BY <1>3, <2>1, ColumnsAndRows
  <2>3. Det(m) = Dot(3, m[0], [c \in 0 .. 2 |-> Det2(Minor(m, c))])
    BY <2>1 DEF Det
  <2>4. \A col \in 0 .. 2 : \A r, c \in 0 .. 1 : Minor(m, col)[r][c] = m[r + 1][IF c < col THEN c ELSE c + 1]
    BY <2>1 DEF Minor
  <2>5. /\ 0 + 1 = 1 /\ 1 + 1 = 2 /\ ~(0 < 0) /\ ~(1 < 0) /\ 0 < 1 /\ ~(1 < 1) /\ 0 < 2 /\ 1 < 2
    OBVIOUS
  <2>6. Det2(Minor(m, 0)) = Cross(m[1], m[2])[0]
    <3>1. /\ Minor(m, 0)[0][0] = m[1][1] /\ Minor(m, 0)[0][1] = m[1][2]
          /\ Minor(m, 0)[1][0] = m[2][1] /\ Minor(m, 0)[1][1] = m[2][2]
      BY <2>1, <2>4, <2>5
    <3> QED
      BY <2>2, <3>1, CrossIs DEF Det2
  <2>7. Det2(Minor(m, 1)) = Cross(m[1], m[2])[1]
    <3>1. /\ Minor(m, 1)[0][0] = m[1][0] /\ Minor(m, 1)[0][1] = m[1][2]
          /\ Minor(m, 1)[1][0] = m[2][0] /\ Minor(m, 1)[1][1] = m[2][2]
      BY <2>1, <2>4, <2>5
    <3> QED
      BY <2>2, <3>1, CrossIs DEF Det2
  <2>8. Det2(Minor(m, 2)) = Cross(m[1], m[2])[2]
    <3>1. /\ Minor(m, 2)[0][0] = m[1][0] /\ Minor(m, 2)[0][1] = m[1][1]
          /\ Minor(m, 2)[1][0] = m[2][0] /\ Minor(m, 2)[1][1] = m[2][1]
      BY <2>1, <2>4, <2>5
    <3> QED
      BY <2>2, <3>1, CrossIs DEF Det2
  <2>9. \A c \in 0 .. 2 : Det2(Minor(m, c)) = Cross(m[1], m[2])[c]
    <3>1. \A c \in 0 .. 2 : c = 0 \/ c = 1 \/ c = 2
      OBVIOUS
    <3> QED
      BY <2>6, <2>7, <2>8, <3>1
  <2> DEFINE minors == [c \in 0 .. 2 |-> Det2(Minor(m, c))]
             cross == Cross(m[1], m[2])
  <2>10. \A c \in 0 .. 3 - 1 : minors[c] = cross[c]
    BY <2>9
  <2>11. IsVector(3, cross)
    BY <2>2, CrossIs
  <2> HIDE DEF minors, cross
  <2>12. Dot(3, m[0], minors) = Dot(3, m[0], cross)
    BY <2>1, <2>2, <2>10, <2>11, DotSame
  <2> QED
    BY <2>3, <2>12 DEF minors, cross, Triple
<1> QED
  BY <1>1, <1>2, <1>3

\* A combination of the rows of R.
Combines(d, R, w) ==
  \E x \in Vectors(d) : \A j \in 0 .. d - 1 : w[j] = Dot(d, x, Column(d, R, j))

LEMMA CombinesIs ==
  ASSUME NEW d \in Nat, NEW R \in Matrices(d, d), NEW w, Combines(d, R, w)
  PROVE  IsVector(d, w)
<1>1. PICK x \in Vectors(d) : \A j \in 0 .. d - 1 : w[j] = Dot(d, x, Column(d, R, j))
  BY DEF Combines
<1>2. IsVector(d, x)
  BY DEF Vectors, IsVector
<1>3. \A j \in 0 .. d - 1 : Dot(d, x, Column(d, R, j)) \in Byte
  BY <1>2, ColumnsAndRows, DotInByte
<1> QED
  BY <1>1, <1>3 DEF IsVector

LEMMA CombinationVanishes ==
  ASSUME NEW R \in Matrices(3, 3), NEW w, Combines(3, R, w),
         NEW b, IsVector(3, b), NEW c, IsVector(3, c),
         \A j \in 0 .. 2 : Triple(R[j], b, c) = 0
  PROVE  Triple(w, b, c) = 0
<1>1. PICK x \in Vectors(3) : \A j \in 0 .. 2 : w[j] = Dot(3, x, Column(3, R, j))
  BY DEF Combines
<1>2. IsVector(3, x)
  BY DEF Vectors, IsVector
<1> QED
  BY <1>1, <1>2, TripleOfZeros

\* Rows whose determinant is zero have only combinations whose determinant is
\* zero.
LEMMA TripleVanishes ==
  ASSUME NEW R \in Matrices(3, 3), Triple(R[0], R[1], R[2]) = 0,
         NEW u, NEW v, NEW w, Combines(3, R, u), Combines(3, R, v), Combines(3, R, w)
  PROVE  Triple(u, v, w) = 0
<1>0. 3 \in Nat /\ 3 - 1 = 2
  OBVIOUS
<1>1. /\ \A r \in 0 .. 2 : IsVector(3, R[r])
      /\ IsVector(3, u) /\ IsVector(3, v) /\ IsVector(3, w)
  BY <1>0, ColumnsAndRows, CombinesIs
<1>2. \A i, j, k \in 0 .. 2 : Triple(R[i], R[j], R[k]) = 0
  <2>1. \A i, j \in 0 .. 2 : /\ Triple(R[i], R[i], R[j]) = 0
                             /\ Triple(R[i], R[j], R[i]) = 0
                             /\ Triple(R[j], R[i], R[i]) = 0
    BY <1>1, TripleSymmetric, TripleAlternates
  <2>2. 0 \in 0 .. 2 /\ 1 \in 0 .. 2 /\ 2 \in 0 .. 2 /\ \A i \in 0 .. 2 : i = 0 \/ i = 1 \/ i = 2
    OBVIOUS
  <2>3. /\ Triple(R[1], R[0], R[2]) = 0 /\ Triple(R[0], R[2], R[1]) = 0
    BY <1>1, <2>2, TripleSymmetric
  <2>4. /\ Triple(R[1], R[2], R[0]) = 0 /\ Triple(R[2], R[0], R[1]) = 0
    BY <1>1, <2>2, <2>3, TripleSymmetric
  <2>5. Triple(R[2], R[1], R[0]) = 0
    BY <1>1, <2>2, <2>4, TripleSymmetric
  <2>6. ASSUME NEW i \in 0 .. 2, NEW j \in 0 .. 2, NEW k \in 0 .. 2, i # j, j # k, i # k
        PROVE  Triple(R[i], R[j], R[k]) = 0
    <3>1. \/ i = 0 /\ j = 1 /\ k = 2
          \/ i = 0 /\ j = 2 /\ k = 1
          \/ i = 1 /\ j = 0 /\ k = 2
          \/ i = 1 /\ j = 2 /\ k = 0
          \/ i = 2 /\ j = 0 /\ k = 1
          \/ i = 2 /\ j = 1 /\ k = 0
      BY <2>2, <2>6
    <3> QED
      BY <2>3, <2>4, <2>5, <3>1
  <2> QED
    BY <2>1, <2>6
<1>3. \A j, k \in 0 .. 2 : Triple(u, R[j], R[k]) = 0
  BY <1>1, <1>2, CombinationVanishes
<1>4. \A k \in 0 .. 2 : Triple(v, u, R[k]) = 0
  <2>1. \A j, k \in 0 .. 2 : Triple(R[j], u, R[k]) = 0
    BY <1>1, <1>3, TripleSymmetric
  <2> QED
    BY <1>1, <2>1, CombinationVanishes
<1>5. Triple(w, v, u) = 0
  <2>1. \A j \in 0 .. 2 : Triple(v, R[j], u) = 0
    BY <1>1, <1>4, TripleSymmetric
  <2>2. \A j \in 0 .. 2 : Triple(R[j], v, u) = 0
    BY <1>1, <2>1, TripleSymmetric
  <2> QED
    BY <1>1, <2>2, CombinationVanishes
<1>6. Triple(v, w, u) = 0
  BY <1>1, <1>5, TripleSymmetric
<1>7. Triple(v, u, w) = 0
  BY <1>1, <1>6, TripleSymmetric
<1> QED
  BY <1>1, <1>7, TripleSymmetric

LEMMA PairVanishes ==
  ASSUME NEW R \in Matrices(2, 2), Pair(R[0], R[1]) = 0,
         NEW u, NEW v, Combines(2, R, u), Combines(2, R, v)
  PROVE  Pair(u, v) = 0
<1>0. 2 \in Nat /\ 2 - 1 = 1 /\ 0 \in 0 .. 1 /\ 1 \in 0 .. 1 /\ add(0, 0) = 0
  BY SmallBytes, Sums
<1>1. IsVector(2, R[0]) /\ IsVector(2, R[1]) /\ IsVector(2, u) /\ IsVector(2, v)
  BY <1>0, ColumnsAndRows, CombinesIs
<1>2. ASSUME NEW b, IsVector(2, b), Pair(R[0], b) = 0, Pair(R[1], b) = 0, NEW w, Combines(2, R, w)
      PROVE  Pair(w, b) = 0
  <2>1. PICK x \in Vectors(2) : \A j \in 0 .. 1 : w[j] = Dot(2, x, Column(2, R, j))
    BY <1>2 DEF Combines
  <2>2. IsVector(2, x) /\ x[0] \in Byte /\ x[1] \in Byte
    BY <1>0 DEF Vectors, IsVector
  <2>3. Pair(w, b) = add(mul(x[0], 0), mul(x[1], 0))
    BY <1>2, <2>1, <2>2, PairLinear
  <2> QED
    BY <1>0, <2>2, <2>3, Products
<1>3. Pair(u, R[0]) = 0 /\ Pair(u, R[1]) = 0
  <2>1. Pair(R[1], R[0]) = 0 /\ Pair(R[0], R[0]) = 0 /\ Pair(R[1], R[1]) = 0
    BY <1>1, PairIs
  <2> QED
    BY <1>1, <1>2, <2>1
<1>4. Pair(R[0], u) = 0 /\ Pair(R[1], u) = 0
  BY <1>1, <1>3, PairIs
<1>5. Pair(v, u) = 0
  BY <1>1, <1>2, <1>4
<1> QED
  BY <1>1, <1>5, PairIs

\* The sizes that Det is defined for.
DetSizes == {1, 2, 3}

LEMMA DetVanishes ==
  ASSUME NEW d \in DetSizes, NEW R \in Matrices(d, d), NEW m \in Matrices(d, d), Det(R) = 0,
         \A r \in 0 .. d - 1 : Combines(d, R, m[r])
  PROVE  Det(m) = 0
<1>0. d \in Nat /\ d \in {1, 2, 3}
  BY DEF DetSizes
<1>1. CASE d = 1
  <2>1. /\ Det(R) = R[0][0] /\ Det(m) = m[0][0] /\ 0 \in 0 .. d - 1
    BY <1>1, DetIs
  <2>2. PICK x \in Vectors(d) : \A j \in 0 .. d - 1 : m[0][j] = Dot(d, x, Column(d, R, j))
    BY <2>1 DEF Combines
  <2>3. IsVector(d, x) /\ IsVector(d, Column(d, R, 0)) /\ x[0] \in Byte
    BY <1>0, <2>1, ColumnsAndRows DEF Vectors, IsVector
  <2>4. m[0][0] = mul(x[0], Column(d, R, 0)[0])
    BY <1>0, <1>1, <2>1, <2>2, <2>3, ShortDots
  <2>5. Column(d, R, 0)[0] = 0
    BY <2>1 DEF Column
  <2> QED
    BY <2>1, <2>3, <2>4, <2>5, Products
<1>2. CASE d = 2
  <2>1. /\ Det(R) = Pair(R[0], R[1]) /\ Det(m) = Pair(m[0], m[1]) /\ 0 \in 0 .. d - 1 /\ 1 \in 0 .. d - 1
    BY <1>2, DetIs
  <2>2. R \in Matrices(2, 2) /\ Combines(2, R, m[0]) /\ Combines(2, R, m[1])
    BY <1>2, <2>1
  <2> QED
    BY <2>1, <2>2, PairVanishes
<1>3. CASE d = 3
  <2>1. /\ Det(R) = Triple(R[0], R[1], R[2]) /\ Det(m) = Triple(m[0], m[1], m[2])
        /\ 0 \in 0 .. d - 1 /\ 1 \in 0 .. d - 1 /\ 2 \in 0 .. d - 1
    BY <1>3, DetIs
  <2>2. R \in Matrices(3, 3) /\ Combines(3, R, m[0]) /\ Combines(3, R, m[1]) /\ Combines(3, R, m[2])
    BY <1>3, <2>1
  <2> QED
    BY <2>1, <2>2, TripleVanishes
<1> QED
  BY <1>0, <1>1, <1>2, <1>3

\* Cramer's rule: a row that is replaced by a combination of the rows.
LEMMA DetCramer ==
  ASSUME NEW d \in DetSizes, NEW m \in Matrices(d, d), NEW x, IsVector(d, x),
         NEW w \in Vectors(d), \A j \in 0 .. d - 1 : w[j] = Dot(d, x, Column(d, m, j)),
         NEW k \in 0 .. d - 1
  PROVE  /\ [m EXCEPT ![k] = w] \in Matrices(d, d)
         /\ Det([m EXCEPT ![k] = w]) = mul(x[k], Det(m))
         /\ Det(m) \in Byte /\ Det([m EXCEPT ![k] = w]) \in Byte
<1> DEFINE u == [m EXCEPT ![k] = w]
<1>0. d \in Nat /\ d \in {1, 2, 3}
  BY DEF DetSizes
<1>1. /\ u \in Matrices(d, d) /\ u[k] = w
      /\ \A r \in 0 .. d - 1 : r # k => u[r] = m[r]
  <2>1. m \in [0 .. d - 1 -> Vectors(d)]
    BY DEF Matrices, Vectors
  <2>2. u \in [0 .. d - 1 -> Vectors(d)] /\ u[k] = w /\ \A r \in 0 .. d - 1 : r # k => u[r] = m[r]
    BY <2>1
  <2> QED
    BY <2>2 DEF Matrices, Vectors
<1>v. IsVector(d, w)
  BY DEF Vectors, IsVector
<1>r. \A r \in 0 .. d - 1 : IsVector(d, m[r]) /\ IsVector(d, u[r]) /\ IsVector(d, Column(d, m, r))
  <2> HIDE DEF u
  <2> QED
    BY <1>0, <1>1, ColumnsAndRows
<1> HIDE DEF u
<1>2. ASSUME d = 1
      PROVE  Det(u) = mul(x[k], Det(m)) /\ Det(m) \in Byte /\ Det(u) \in Byte
  <2>1. k = 0 /\ Det(u) = w[0] /\ Det(m) = m[0][0] /\ 0 \in 0 .. d - 1
    BY <1>1, <1>2, DetIs
  <2>2. w[0] = mul(x[0], Column(d, m, 0)[0])
    BY <1>0, <1>2, <1>r, <2>1, ShortDots
  <2>3. Column(d, m, 0)[0] = m[0][0]
    BY <2>1 DEF Column
  <2>4. w[0] \in Byte /\ m[0][0] \in Byte
    BY <1>v, <1>r, <2>1 DEF IsVector
  <2> QED
    BY <2>1, <2>2, <2>3, <2>4
<1>3. ASSUME d = 2
      PROVE  Det(u) = mul(x[k], Det(m)) /\ Det(m) \in Byte /\ Det(u) \in Byte
  <2>0. 2 - 1 = 1 /\ 0 \in 0 .. 1 /\ 1 \in 0 .. 1 /\ 0 # 1
    OBVIOUS
  <2>1. Det(u) = Pair(u[0], u[1]) /\ Det(m) = Pair(m[0], m[1]) /\ (k = 0 \/ k = 1)
    BY <1>1, <1>3, DetIs
  <2>2. /\ m \in Matrices(2, 2) /\ IsVector(2, m[0]) /\ IsVector(2, m[1]) /\ IsVector(2, w)
        /\ IsVector(2, x) /\ \A j \in 0 .. 1 : w[j] = Dot(2, x, Column(2, m, j))
    BY <1>3, <1>v, <1>r, <2>0
  <2>3. /\ Pair(w, m[0]) = add(mul(x[0], Pair(m[0], m[0])), mul(x[1], Pair(m[1], m[0])))
        /\ Pair(w, m[1]) = add(mul(x[0], Pair(m[0], m[1])), mul(x[1], Pair(m[1], m[1])))
    BY <2>2, PairLinear
  <2>4. /\ Pair(m[0], m[0]) = 0 /\ Pair(m[1], m[1]) = 0 /\ Pair(m[1], m[0]) = Pair(m[0], m[1])
        /\ Pair(m[0], m[1]) \in Byte /\ Pair(w, m[0]) = Pair(m[0], w)
        /\ Pair(w, m[0]) \in Byte /\ Pair(w, m[1]) \in Byte
    BY <2>2, PairIs
  <2>5. x[0] \in Byte /\ x[1] \in Byte
    BY <2>0, <2>2 DEF IsVector
  <2>6. \A y \in Byte : /\ add(mul(x[0], 0), mul(x[1], y)) = mul(x[1], y)
                        /\ add(mul(x[0], y), mul(x[1], 0)) = mul(x[0], y)
    BY <2>5, Products, Sums
  <2>7. Pair(w, m[0]) = mul(x[1], Pair(m[0], m[1])) /\ Pair(w, m[1]) = mul(x[0], Pair(m[0], m[1]))
    BY <2>3, <2>4, <2>6
  <2>8. CASE k = 0
    <3>1. Det(u) = Pair(w, m[1])
      BY <1>1, <1>3, <2>0, <2>1, <2>8
    <3> QED
      BY <2>1, <2>4, <2>7, <2>8, <3>1
  <2>9. CASE k = 1
    <3>1. Det(u) = Pair(m[0], w)
      BY <1>1, <1>3, <2>0, <2>1, <2>9
    <3> QED
      BY <2>1, <2>4, <2>7, <2>9, <3>1
  <2> QED
    BY <2>1, <2>8, <2>9
<1>4. ASSUME d = 3
      PROVE  Det(u) = mul(x[k], Det(m)) /\ Det(m) \in Byte /\ Det(u) \in Byte
  <2>0. 3 - 1 = 2 /\ 0 \in 0 .. 2 /\ 1 \in 0 .. 2 /\ 2 \in 0 .. 2 /\ 0 # 1 /\ 0 # 2 /\ 1 # 2 /\ 3 \in Nat
    OBVIOUS
  <2>1. /\ Det(u) = Triple(u[0], u[1], u[2]) /\ Det(m) = Triple(m[0], m[1], m[2])
        /\ (k = 0 \/ k = 1 \/ k = 2)
    BY <1>1, <1>4, DetIs
  <2>2. /\ m \in Matrices(3, 3) /\ IsVector(3, m[0]) /\ IsVector(3, m[1]) /\ IsVector(3, m[2])
        /\ IsVector(3, w) /\ IsVector(3, x)
        /\ \A j \in 0 .. 2 : w[j] = Dot(3, x, Column(3, m, j))
        /\ IsVector(3, u[0]) /\ IsVector(3, u[1]) /\ IsVector(3, u[2])
    BY <1>4, <1>v, <1>r, <2>0
  <2>3. \A a, b, c : IsVector(3, a) /\ IsVector(3, b) /\ IsVector(3, c) => Triple(a, b, c) \in Byte
    <3>1. ASSUME NEW a, NEW b, NEW c, IsVector(3, a), IsVector(3, b), IsVector(3, c)
          PROVE  Triple(a, b, c) \in Byte
      BY <2>0, <3>1, CrossIs, DotInByte DEF Triple
    <3> QED
      BY <3>1
  <2>4. \A i, j, l \in 0 .. 2 : i # j /\ i # l /\ j # l =>
          Triple(w, m[j], m[l]) = mul(x[i], Triple(m[i], m[j], m[l]))
    BY <2>2, TripleReplaced
  <2>5. CASE k = 0
    <3>1. Det(u) = Triple(w, m[1], m[2])
      BY <1>1, <1>4, <2>0, <2>1, <2>5
    <3> QED
      BY <2>0, <2>1, <2>2, <2>3, <2>4, <2>5, <3>1
  <2>6. CASE k = 1
    <3>1. Det(u) = Triple(m[0], w, m[2])
      BY <1>1, <1>4, <2>0, <2>1, <2>6
    <3>2. Triple(m[0], w, m[2]) = Triple(w, m[0], m[2]) /\ Triple(m[1], m[0], m[2]) = Triple(m[0], m[1], m[2])
      BY <2>2, TripleSymmetric
    <3>3. Triple(w, m[0], m[2]) = mul(x[1], Triple(m[1], m[0], m[2]))
      BY <2>0, <2>4
    <3> QED
      BY <2>1, <2>2, <2>3, <2>6, <3>1, <3>2, <3>3
  <2>7. CASE k = 2
    <3>1. Det(u) = Triple(m[0], m[1], w)
      BY <1>1, <1>4, <2>0, <2>1, <2>7
    <3>2. /\ Triple(m[0], m[1], w) = Triple(m[0], w, m[1]) /\ Triple(m[0], w, m[1]) = Triple(w, m[0], m[1])
          /\ Triple(m[0], m[1], m[2]) = Triple(m[0], m[2], m[1])
          /\ Triple(m[0], m[2], m[1]) = Triple(m[2], m[0], m[1])
      BY <2>2, TripleSymmetric
    <3>3. Triple(w, m[0], m[1]) = mul(x[2], Triple(m[2], m[0], m[1]))
      BY <2>0, <2>4
    <3> QED
      BY <2>1, <2>2, <2>3, <2>7, <3>1, <3>2, <3>3
  <2> QED
    BY <2>1, <2>5, <2>6, <2>7
<1> QED
  BY <1>0, <1>1, <1>2, <1>3, <1>4 DEF u

LEMMA DetIdentity == \A d \in DetSizes : Det(identity(d)) = 1
<1>1. ASSUME NEW d \in DetSizes
      PROVE  Det(identity(d)) = 1
  <2> DEFINE I == identity(d)
  <2>0. d \in Nat /\ d \in {1, 2, 3}
    BY DEF DetSizes
  <2>1. I \in Matrices(d, d) /\ \A r, c \in 0 .. d - 1 : I[r][c] = IF r = c THEN 1 ELSE 0
    BY <2>0, IdentityIs
  <2> HIDE DEF I
  <2>2. /\ mul(1, 1) = 1 /\ mul(0, 0) = 0 /\ mul(1, 0) = 0 /\ mul(0, 1) = 0 /\ add(1, 0) = 1 /\ add(0, 0) = 0
        /\ 0 # 1 /\ 0 # 2 /\ 1 # 2
    BY SmallBytes, Products, Sums
  <2>3. CASE d = 1
    BY <2>1, <2>3, DetIs DEF I
  <2>4. CASE d = 2
    <3>1. 2 \in Nat /\ 2 - 1 = 1 /\ 0 \in 0 .. 1 /\ 1 \in 0 .. 1
      OBVIOUS
    <3>2. /\ I[0][0] = 1 /\ I[0][1] = 0 /\ I[1][0] = 0 /\ I[1][1] = 1
          /\ IsVector(2, I[0]) /\ IsVector(2, I[1]) /\ Det(I) = Pair(I[0], I[1])
      BY <2>1, <2>2, <2>4, <3>1, DetIs, ColumnsAndRows
    <3>3. Pair(I[0], I[1]) = add(mul(1, 1), mul(0, 0))
      BY <3>2, PairIs
    <3> QED
      BY <2>2, <3>2, <3>3 DEF I
  <2>5. CASE d = 3
    <3>1. 3 \in Nat /\ 3 - 1 = 2 /\ 0 \in 0 .. 2 /\ 1 \in 0 .. 2 /\ 2 \in 0 .. 2
      OBVIOUS
    <3>2. /\ I[0][0] = 1 /\ I[0][1] = 0 /\ I[0][2] = 0
          /\ I[1][0] = 0 /\ I[1][1] = 1 /\ I[1][2] = 0
          /\ I[2][0] = 0 /\ I[2][1] = 0 /\ I[2][2] = 1
          /\ IsVector(3, I[0]) /\ IsVector(3, I[1]) /\ IsVector(3, I[2])
          /\ Det(I) = Triple(I[0], I[1], I[2])
      BY <2>1, <2>2, <2>5, <3>1, DetIs, ColumnsAndRows
    <3> DEFINE v == Cross(I[1], I[2])
    <3>3. IsVector(3, v) /\ v[0] = 1
      <4>1. v[0] = add(mul(1, 1), mul(0, 0)) /\ IsVector(3, v)
        BY <3>2, CrossIs
      <4> QED
        BY <2>2, <4>1
    <3>4. v[1] \in Byte /\ v[2] \in Byte
      BY <3>1, <3>3 DEF IsVector
    <3> HIDE DEF v
    <3>5. Dot(3, I[0], v) = add(add(mul(1, 1), mul(0, v[1])), mul(0, v[2]))
      BY <3>1, <3>2, <3>3, ShortDots
    <3>6. mul(0, v[1]) = 0 /\ mul(0, v[2]) = 0
      BY <3>4, Products
    <3> QED
      BY <2>2, <3>2, <3>5, <3>6 DEF I, v, Triple
  <2> QED
    BY <2>0, <2>3, <2>4, <2>5 DEF I
<1> QED
  BY <1>1

\* What can be inverted has a determinant other than zero.
LEMMA InvertedHasDet ==
  ASSUME NEW d \in DetSizes, NEW m \in Matrices(d, d), invert(m) # Singular
  PROVE  Det(m) # 0
<1> DEFINE B == invert(m)
           I == identity(d)
<1>0. d \in Nat \ {0} /\ d \in Nat
  BY DEF DetSizes
<1>1. B \in Matrices(d, d) /\ multiply(B, m) = I
  BY <1>0, InvertInverts
<1>2. I \in Matrices(d, d)
  BY <1>0, IdentityIs
<1>3. Det(I) = 1
  BY DetIdentity
<1> HIDE DEF B, I
<1>4. \A r, c \in 0 .. d - 1 : I[r][c] = Dot(d, B[r], Column(d, m, c))
  BY <1>0, <1>1, ProductIs
<1>5. \A r \in 0 .. d - 1 : Combines(d, m, I[r])
  <2>1. \A r \in 0 .. d - 1 : B[r] \in Vectors(d)
    BY <1>1 DEF Matrices, Vectors
  <2> QED
    BY <1>4, <2>1 DEF Combines
<1>6. Det(m) = 0 => Det(I) = 0
  BY <1>2, <1>5, DetVanishes
<1> QED
  BY <1>3, <1>6

\* The rows that make up the rows of m, when m takes x to zero and x[k] is not.
Leftover(d, x, k) ==
  [j \in 0 .. d - 1 |-> [c \in 0 .. d - 1 |->
     IF j = k THEN 0 ELSE IF c = k THEN mul(div(1, x[k]), x[j]) ELSE IF c = j THEN 1 ELSE 0]]

LEMMA LeftoverIs ==
  ASSUME NEW d \in DetSizes, NEW x \in Vectors(d), NEW k \in 0 .. d - 1, x[k] # 0
  PROVE  Leftover(d, x, k) \in Matrices(d, d) /\ Det(Leftover(d, x, k)) = 0
<1> DEFINE R == Leftover(d, x, k)
           zeros == [c \in 0 .. d - 1 |-> 0]
<1>0. d \in Nat
  BY DEF DetSizes
<1>1. \A j \in 0 .. d - 1 : mul(div(1, x[k]), x[j]) \in Byte
  BY Inverses, Products DEF Vectors
<1>2. R \in Matrices(d, d) /\ R[k] = zeros
  BY <1>1, SmallBytes DEF Leftover, Matrices
<1>3. IsVector(d, zeros) /\ zeros \in Vectors(d) /\ \A j \in 0 .. d - 1 : zeros[j] = 0
  BY SmallBytes DEF IsVector, Vectors
<1> HIDE DEF R, zeros
<1>4. \A j \in 0 .. d - 1 : Dot(d, zeros, Column(d, R, j)) = 0
  <2>1. ASSUME NEW j \in 0 .. d - 1
        PROVE  Dot(d, zeros, Column(d, R, j)) = 0
    <3> DEFINE v == Column(d, R, j)
    <3>1. IsVector(d, v)
      BY <1>0, <1>2, ColumnsAndRows
    <3> HIDE DEF v
    <3>2. Dot(d, v, zeros) = 0 /\ Dot(d, zeros, v) = Dot(d, v, zeros)
      BY <1>0, <1>3, <3>1, DotWithZero, DotCommutes
    <3> QED
      BY <3>2 DEF v
  <2> QED
    BY <2>1
<1>5. Det([R EXCEPT ![k] = zeros]) = mul(0, Det(R)) /\ Det(R) \in Byte
  BY <1>2, <1>3, <1>4, DetCramer
<1>6. [R EXCEPT ![k] = zeros] = R
  BY <1>2 DEF Matrices
<1> QED
  BY <1>2, <1>5, <1>6, Products DEF R

LEMMA MadeOfTheLeftover ==
  ASSUME NEW d \in Nat, NEW row \in Vectors(d), NEW x \in Vectors(d), NEW k \in 0 .. d - 1, x[k] # 0,
         Dot(d, row, x) = 0, Leftover(d, x, k) \in Matrices(d, d)
  PROVE  Combines(d, Leftover(d, x, k), row)
<1> DEFINE R == Leftover(d, x, k)
           s == [j \in 0 .. d - 1 |-> mul(div(1, x[k]), x[j])]
           t == [j \in 0 .. d - 1 |-> IF j = k THEN 0 ELSE s[j]]
           e == [j \in 0 .. d - 1 |-> IF j = k THEN 1 ELSE 0]
<1>1. /\ IsVector(d, row) /\ IsVector(d, x) /\ x[k] \in Byte /\ row[k] \in Byte
      /\ div(1, x[k]) \in Byte /\ mul(div(1, x[k]), x[k]) = 1
  BY Inverses DEF Vectors, IsVector
<1>2. \A j \in 0 .. d - 1 : s[j] \in Byte
  BY <1>1, Products DEF IsVector
<1>3. IsVector(d, s) /\ IsVector(d, t) /\ s[k] = 1
  BY <1>1, <1>2, SmallBytes DEF IsVector
<1>4. Dot(d, row, s) = 0
  <2>1. Dot(d, s, row) = mul(div(1, x[k]), Dot(d, x, row))
    <3>1. \A j \in 0 .. d - 1 : s[j] = mul(div(1, x[k]), x[j])
      OBVIOUS
    <3> HIDE DEF s
    <3> QED
      BY <1>1, <3>1, DotOfAMultiple
  <2>2. Dot(d, x, row) = 0 /\ Dot(d, row, s) = Dot(d, s, row)
    BY <1>1, <1>3, DotCommutes
  <2> QED
    BY <1>1, <2>1, <2>2, Products
<1>5. Dot(d, row, t) = row[k]
  <2>1. \A j \in 0 .. d - 1 : s[j] = add(t[j], e[j])
    <3>1. \A j \in 0 .. d - 1 : add(s[j], 0) = s[j]
      BY <1>2, Sums
    <3>2. add(0, 1) = 1
      BY SmallBytes, Sums
    <3> QED
      BY <1>3, <3>1, <3>2
  <2>2. \A j \in 0 .. d - 1 : e[j] = IF j = k THEN 1 ELSE 0
    OBVIOUS
  <2> HIDE DEF s, t, e
  <2>3. Dot(d, row, e) = row[k] /\ Dot(d, e, row) = row[k] /\ IsVector(d, e)
    BY <1>1, <2>2, DotUnit
  <2>4. Dot(d, s, row) = add(Dot(d, t, row), Dot(d, e, row))
    BY <1>1, <1>3, <2>1, <2>3, DotOfASum
  <2>5. Dot(d, s, row) = Dot(d, row, s) /\ Dot(d, t, row) = Dot(d, row, t)
    BY <1>1, <1>3, DotCommutes
  <2>6. add(Dot(d, row, t), row[k]) = 0 /\ Dot(d, row, t) \in Byte
    BY <1>1, <1>3, <1>4, <2>3, <2>4, <2>5, DotInByte
  <2> QED
    BY <1>1, <2>6, SumsCancel
<1>6. ASSUME NEW c \in 0 .. d - 1
      PROVE  row[c] = Dot(d, row, Column(d, R, c))
  <2>1. \A j \in 0 .. d - 1 :
          Column(d, R, c)[j] = IF j = k THEN 0 ELSE IF c = k THEN s[j] ELSE IF c = j THEN 1 ELSE 0
    BY DEF Column, Leftover
  <2>2. CASE c = k
    <3>1. \A j \in 0 .. d - 1 : Column(d, R, c)[j] = t[j]
      BY <2>1, <2>2
    <3> DEFINE v == Column(d, R, c)
    <3> HIDE DEF v, t
    <3>2. Dot(d, row, v) = Dot(d, row, t)
      BY <1>1, <1>3, <3>1, DotSame DEF v
    <3> QED
      BY <1>5, <2>2, <3>2 DEF v
  <2>3. CASE c # k
    <3>1. \A j \in 0 .. d - 1 : Column(d, R, c)[j] = IF j = c THEN 1 ELSE 0
      BY <2>1, <2>3
    <3> DEFINE v == Column(d, R, c)
    <3> HIDE DEF v
    <3>2. Dot(d, row, v) = row[c]
      BY <1>1, <3>1, DotUnit DEF v
    <3> QED
      BY <3>2 DEF v
  <2> QED
    BY <2>2, <2>3
<1> QED
  BY <1>6 DEF Combines

\* What has a determinant other than zero can be inverted.
LEMMA DetInverts ==
  ASSUME NEW d \in DetSizes, NEW m \in Matrices(d, d), Det(m) # 0
  PROVE  invert(m) # Singular
<1>0. d \in Nat \ {0} /\ d \in Nat
  BY DEF DetSizes
<1>1. \A r \in 0 .. d - 1 : m[r] \in Vectors(d)
  BY DEF Matrices, Vectors
<1>2. ASSUME NEW x \in Vectors(d), \A r \in 0 .. d - 1 : Dot(d, m[r], x) = 0,
             NEW k \in 0 .. d - 1, x[k] # 0
      PROVE  FALSE
  <2> DEFINE R == Leftover(d, x, k)
  <2>1. R \in Matrices(d, d) /\ Det(R) = 0
    BY <1>2, LeftoverIs
  <2>2. \A r \in 0 .. d - 1 : Combines(d, R, m[r])
    BY <1>0, <1>1, <1>2, <2>1, MadeOfTheLeftover
  <2> HIDE DEF R
  <2> QED
    BY <2>1, <2>2, DetVanishes
<1>3. NoKernel(d, m)
  BY <1>2 DEF NoKernel
<1> QED
  BY <1>0, <1>3, NoKernelInverts

LEMMA QuotientOfAProduct ==
  ASSUME NEW x \in Byte, NEW y \in Byte, y # 0
  PROVE  div(mul(x, y), y) = x
<1> DEFINE q == div(mul(x, y), y)
           inverse == div(1, y)
<1>1. mul(x, y) \in Byte
  BY Products
<1>2. q \in Byte /\ mul(q, y) = mul(x, y)
  BY <1>1, Quotients
<1>3. inverse \in Byte /\ mul(y, inverse) = 1
  BY Inverses
<1> HIDE DEF q, inverse
<1>4. /\ mul(mul(q, y), inverse) = mul(q, mul(y, inverse))
      /\ mul(mul(x, y), inverse) = mul(x, mul(y, inverse))
  BY <1>2, <1>3, ProductsMove
<1>5. mul(q, 1) = q /\ mul(x, 1) = x
  BY <1>2, Products
<1> QED
  BY <1>2, <1>3, <1>4, <1>5 DEF q

\* Det is defined for the codecs that there are.
SmallCodecs == \A c \in Codecs : c.d \in DetSizes

LEMMA DecodableIs ==
  ASSUME CustomsAreBuilt, SmallCodecs, NEW c \in Codecs, NEW E \in Selections(c)
  PROVE  /\ DecodeMatrix[c][E] = invert(SelectedRows(c, E))
         /\ DecodeMatrix[c][E] = Singular <=> Det(SelectedRows(c, E)) = 0
<1> DEFINE m == SelectedRows(c, E)
           d == c.d
<1>1. d \in DetSizes /\ m \in Matrices(d, d)
  BY SelectedRowsAre DEF SmallCodecs
<1>2. DecodeMatrix[c][E] = invert(m)
  BY DEF DecodeMatrix
<1> HIDE DEF m, d
<1>3. invert(m) = Singular <=> Det(m) = 0
  BY <1>1, InvertedHasDet, DetInverts
<1> QED
  BY <1>2, <1>3 DEF m

\* The recovery row has the coefficients of Cramer's rule.
LEMMA CoefficientIs ==
  ASSUME CustomsAreBuilt, SmallCodecs, NEW c \in Codecs, NEW E \in Selections(c),
         DecodeMatrix[c][E] # Singular, NEW i \in Shards(c), NEW k \in 0 .. c.d - 1
  PROVE  Coefficient[c][E][i][k] = ReducedRow(c, E, i, k)
<1> DEFINE m == SelectedRows(c, E)
           d == c.d
           x == RecoveryRow(c, E, i)
           row == EncodingMatrix[c][i]
<1>1. d \in DetSizes /\ m \in Matrices(d, d) /\ Det(m) # 0 /\ k \in 0 .. d - 1
  BY SelectedRowsAre, DecodableIs DEF SmallCodecs
<1>2. /\ IsVector(d, x)
      /\ \A j \in 0 .. d - 1 : row[j] = Dot(d, x, Column(d, m, j))
  BY RecoveryRowIs
<1>3. row \in Vectors(d)
  BY BuiltIs, CodecShape DEF Matrices, Vectors
<1>4. x[k] = ReducedRow(c, E, i, k)
  BY DEF RecoveryRow
<1>5. Coefficient[c][E][i][k] = div(Det([m EXCEPT ![k] = row]), Det(m))
  BY DEF Coefficient, Cramer
<1> HIDE DEF m, d, x, row
<1>6. Det([m EXCEPT ![k] = row]) = mul(x[k], Det(m)) /\ Det(m) \in Byte
  BY <1>1, <1>2, <1>3, DetCramer
<1>7. x[k] \in Byte
  BY <1>1, <1>2 DEF IsVector
<1> QED
  BY <1>1, <1>4, <1>5, <1>6, <1>7, QuotientOfAProduct

LEMMA PartOfIs ==
  ASSUME CustomsAreBuilt, SmallCodecs, codec \in Codecs, Decodable(codec, expect),
         NEW i \in Shards(codec), NEW S
  PROVE  PartOf(i, S) = [b \in 1 .. ShardLen |-> Part(codec, expect, i, S, b)]
<1>1. \A k \in 0 .. codec.d - 1 : Coefficient[codec][expect][i][k] = ReducedRow(codec, expect, i, k)
  BY CoefficientIs DEF Decodable
<1>2. [k \in 0 .. codec.d - 1 |-> IF Nth(expect, k) \in S THEN Coefficient[codec][expect][i][k] ELSE 0]
        = PartRow(codec, expect, i, S)
  BY <1>1 DEF PartRow
<1> QED
  BY <1>2 DEF PartOf, Part, UsedBytes

\* For every matrix of up to three data shards, and every order of calls and
\* merges: a buffer holds the sum of the parts of the shards that reached it an
\* odd number of times (decode_idx in galois_8/policy.rs).
THEOREM SlotsHoldTheFed ==
  ASSUME CustomsAreBuilt, SmallCodecs
  PROVE  Spec => []SlotsAreOfTheFed
<1>1. ASSUME IInv
      PROVE  SlotsAreOfTheFed
  <2>1. ASSUME NEW n \in Nodes, NEW i \in Buffers(n)
        PROVE  IF Sound(n, i) /\ Det(SelectedRows(codec, expect)) # 0
               THEN \E S \in fed[n][i] : partial[n][i] = PartOf(i, S)
               ELSE \A b \in DOMAIN partial[n][i] : partial[n][i][b] = 0
    <3> DEFINE x == partial[n][i]
               feds == fed[n][i]
    <3>1. codec \in Codecs /\ i \in Shards(codec) /\ BufferIs(codec, expect, i, x, feds)
      BY <1>1 DEF IInv, Buffers
    <3>2. Sound(n, i) /\ Det(SelectedRows(codec, expect)) # 0
            <=> Decodable(codec, expect) /\ Len(x) = ShardLen
      BY <3>1, DecodableIs DEF Sound, Decodable
    <3>3. ASSUME Decodable(codec, expect), Len(x) = ShardLen
          PROVE  \E S \in feds : x = PartOf(i, S)
      <4>1. PICK S \in feds : \A b \in 1 .. ShardLen : x[b] = Part(codec, expect, i, S, b)
        BY <3>1, <3>3 DEF BufferIs
      <4>2. x = [b \in 1 .. ShardLen |-> x[b]]
        BY <3>1, <3>3 DEF BufferIs
      <4>3. x = [b \in 1 .. ShardLen |-> Part(codec, expect, i, S, b)]
        BY <4>1, <4>2
      <4> QED
        BY <3>1, <3>3, <4>3, PartOfIs
    <3>4. ASSUME ~(Decodable(codec, expect) /\ Len(x) = ShardLen)
          PROVE  \A b \in DOMAIN x : x[b] = 0
      BY <3>1, <3>4 DEF BufferIs
    <3> QED
      BY <3>2, <3>3, <3>4
  <2> QED
    BY <2>1 DEF SlotsAreOfTheFed
<1> QED
  BY <1>1, InvariantHolds, PTL

\* Of up to three data shards: every choice of as many rows is inverted exactly
\* when its determinant is not zero, which for the matrices of the library it
\* never is, and what is returned is the inverse (matrix.rs, core/codec.rs).
THEOREM DecodesAll ==
  ASSUME CustomsAreBuilt, SmallCodecs
  PROVE  Spec => []DecodesWhatItCan
<1>1. ASSUME IInv
      PROVE  DecodesWhatItCan
  <2> DEFINE c == codec
  <2>1. c \in Codecs /\ c.d \in Nat \ {0}
    BY <1>1, CodecShape DEF IInv
  <2>2. EncodingMatrix[c] # InvalidCustomMatrix
    BY <2>1, AnyShardsSuffice DEF CustomsAreBuilt
  <2>3. ASSUME NEW E \in Selections(c)
        PROVE  Decodes(c, SelectedRows(c, E), DecodeMatrix[c][E])
    <3>1. c.mode # "Custom" => DecodeMatrix[c][E] # Singular
      BY <2>1, AnyShardsSuffice
    <3>2. /\ DecodeMatrix[c][E] = invert(SelectedRows(c, E))
          /\ DecodeMatrix[c][E] = Singular <=> Det(SelectedRows(c, E)) = 0
      BY <2>1, DecodableIs
    <3>3. SelectedRows(c, E) \in Matrices(c.d, c.d)
      BY <2>1, SelectedRowsAre
    <3>4. DecodeMatrix[c][E] # Singular => multiply(SelectedRows(c, E), DecodeMatrix[c][E]) = identity(c.d)
      BY <2>1, <3>2, <3>3, InvertInverts
    <3> QED
      BY <3>1, <3>2, <3>4 DEF Decodes
  <2> QED
    BY <2>2, <2>3 DEF DecodesWhatItCan
<1> QED
  BY <1>1, InvariantHolds, PTL

=============================================================================
