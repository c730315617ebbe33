---------------------------- MODULE LeopardField ----------------------------
(* The finite field and the tables of the two Leopard engines, which build    *)
(* the same tables at two widths (core/leopard_gf8/{mod,tables,ops}.rs and    *)
(* core/leopard_gf16/{mod,tables,ops}.rs).  Field elements are the numbers    *)
(* below Order; logarithms are the numbers up to Modulus, and two of them, 0  *)
(* and Modulus, stand for the same power.                                     *)
(*                                                                            *)
(* Everything here is constant: TLC evaluates each table once, as the program *)
(* builds its tables once behind a spin::Once.                                *)
EXTENDS Integers, Sequences, FiniteSets, Words

CONSTANTS Bitwidth,      \* 8 or 16 in the program
          Polynomial,    \* the generator polynomial of the field
          CantorBasis    \* <<1, ...>>: x^2 + x = the element before, for each

ASSUME FieldAssumption ==
  /\ Bitwidth \in {4, 8, 16}
  /\ Polynomial \in 2^Bitwidth .. 2^(Bitwidth + 1) - 1
  /\ CantorBasis \in Seq(1 .. 2^Bitwidth - 1)
  /\ Len(CantorBasis) = Bitwidth

Order   == 2^Bitwidth
Modulus == Order - 1
Element == 0 .. Modulus

(* Addition in the field is exclusive or, of one byte or of two.             *)
Plus(a, b) ==
  IF Bitwidth <= 8 THEN ByteXor(a, b)
  ELSE 256 * ByteXor(a \div 256, b \div 256) + ByteXor(a % 256, b % 256)

Bit(n, i) == (n \div 2^i) % 2 = 1

(* The sum of the v[i] over the bits i of j: the element with coordinates j  *)
(* in the basis v.                                                           *)
Span(v, j) ==
  LET sum[i \in 0 .. Bitwidth] ==
        IF i = 0 THEN 0
        ELSE IF Bit(j, i - 1) THEN Plus(sum[i - 1], v[i - 1]) ELSE sum[i - 1]
  IN sum[Bitwidth]

(* The smallest power of two that is not below n (usize::next_power_of_two). *)
CeilPow2(n) == CHOOSE p \in {2^i : i \in 0 .. 2 * Bitwidth} :
                  p >= n /\ (p = 1 \/ p \div 2 < n)

(* ----------------------------- logarithms -------------------------------- *)

(* The powers of the generator, by the shift register of init_luts8, in runs *)
(* of 16 (TLC's stack does not hold a recursion through all of them).        *)
Powers ==
  LET Shift(s) == IF 2 * s >= Order THEN Plus(2 * s - Order, Polynomial - Order)
                  ELSE 2 * s
      run[i \in 0 .. 16, s \in Element] == IF i = 0 THEN s ELSE run[i - 1, Shift(s)]
      start[k \in 0 .. Order \div 16] == IF k = 0 THEN 1 ELSE run[16, start[k - 1]]
  IN [i \in 0 .. Modulus - 1 |-> run[i % 16, start[i \div 16]]]

(* Coordinates: the element whose Cantor coordinates are the bits of j.      *)
Cantor == [j \in Element |-> Span([i \in 0 .. Bitwidth - 1 |-> CantorBasis[i + 1]], j)]

(* init_luts8: the logarithm of the element with these coordinates; zero has *)
(* the logarithm Modulus.                                                    *)
LogLut ==
  [j \in Element |-> IF j = 0 THEN Modulus
                     ELSE CHOOSE i \in 0 .. Modulus - 1 : Powers[i] = Cantor[j]]

(* init_luts8: the coordinates of each power, and of the alias Modulus of 0. *)
ExpLut == [l \in Element |-> CHOOSE j \in 1 .. Modulus : LogLut[j] = l % Modulus]

(* The tables are complete: every element other than zero is a power, and     *)
(* every power has coordinates.                                               *)
ASSUME TablesAssumption ==
  /\ \A j \in 1 .. Modulus : \E i \in 0 .. Modulus - 1 : Powers[i] = Cantor[j]
  /\ \A i \in 0 .. Modulus - 1 : \E j \in 1 .. Modulus : LogLut[j] = i

(* add_mod8, sub_mod8: sums of logarithms, the carry folded back once.  The  *)
(* borrow of the wrapping subtraction is a carry of -1.                      *)
Folded(n) == (n + (n \div Order)) % Order
AddMod(a, b) == Folded(a + b)
SubMod(a, b) == Folded(a - b)

(* mul_log8: the product of an element by a power.                           *)
MulLog(a, log_b) == IF a = 0 THEN 0 ELSE ExpLut[AddMod(LogLut[a], log_b)]

(* init_mul8_lut, NibbleTables16: the same product from the tables the inner  *)
(* loops use, one for each nibble that an element of two bytes has.  A nibble *)
(* that is shifted out of a shorter element is zero.                          *)
NibbleProducts ==
  [log_m \in Element |-> [nibble \in 0 .. 3 |->
    [x \in 0 .. 15 |-> MulLog((x * 16^nibble) % Order, log_m)]]]

MulLut ==
  LET Sum(x) == Plus(Plus(x[0], x[1]), Plus(x[2], x[3]))
  IN [log_m \in Element |-> [e \in Element |->
        Sum([nibble \in 0 .. 3 |-> NibbleProducts[log_m][nibble][(e \div 16^nibble) % 16]])]]

(* ------------------------ Walsh-Hadamard transforms ---------------------- *)

(* One radix-4 pass over the blocks that start before mtrunc.                *)
Fwht4(data, dist, mtrunc) ==
  [i \in DOMAIN data |->
     LET q == (i \div dist) % 4
         o == i - (q * dist)
         s01 == AddMod(data[o], data[o + dist])
         d01 == SubMod(data[o], data[o + dist])
         s23 == AddMod(data[o + 2 * dist], data[o + 3 * dist])
         d23 == SubMod(data[o + 2 * dist], data[o + 3 * dist])
     IN IF o - (o % (4 * dist)) >= mtrunc THEN data[i]
        ELSE CASE q = 0 -> AddMod(s01, s23) [] q = 1 -> AddMod(d01, d23)
               [] q = 2 -> SubMod(s01, s23) [] q = 3 -> SubMod(d01, d23)]

(* fwht8_mtrunc: all the passes over Order positions, truncated.             *)
FwhtTrunc(data, mtrunc) ==
  LET pass[k \in 0 .. Bitwidth \div 2] ==
        IF k = 0 THEN data ELSE Fwht4(pass[k - 1], 4^(k - 1), mtrunc)
  IN pass[Bitwidth \div 2]

(* fwht8                                                                     *)
Fwht(data) == FwhtTrunc(data, Order)

(* fwht_variable: the passes that the length of data allows, and one radix-2 *)
(* pass when it is no power of four.                                         *)
fwht_variable(data) ==
  LET n == Cardinality(DOMAIN data)
      Last(f, dist) == [i \in DOMAIN f |->
                          IF (i \div dist) % 2 = 0 THEN AddMod(f[i], f[i + dist])
                          ELSE SubMod(f[i - dist], f[i])]
      After(f, dist) == CASE 4 * dist <= n -> Fwht4(f, dist, n)
                          [] 2 * dist = n  -> Last(f, dist)
                          [] OTHER         -> f
      pass[k \in 0 .. Bitwidth] == IF k = 0 THEN data ELSE After(pass[k - 1], 4^(k - 1))
  IN pass[Bitwidth]

(* ------------------------------- the tables ------------------------------ *)

(* The logarithm of 1 / (x * (x + 1)).                                       *)
InverseOf(x) == Modulus - LogLut[MulLog(x, LogLut[Plus(x, 1)])]

(* What round m does to the subspace, inv the logarithm that it keeps for it. *)
SkewRound(temp, m, inv) ==
  [i \in DOMAIN temp |->
     CASE i = m -> inv
       [] i > m -> MulLog(temp[i], AddMod(LogLut[Plus(temp[i], 1)], inv))
       [] OTHER -> temp[i]]

(* init_fft_skew8: the subspace that round m leaves, temp, and the points at *)
(* which the normalised subspace polynomials are evaluated.                  *)
SkewTemp[m \in 0 .. Bitwidth - 2] ==
  IF m = 0 THEN [i \in 0 .. Bitwidth - 2 |-> 2^(i + 1)]
  ELSE SkewRound(SkewTemp[m - 1], m - 1, InverseOf(SkewTemp[m - 1][m - 1]))

SkewPositions == 0 .. Modulus - 1

(* Position 2^m - 1 + 2^(m+1) * k is filled in round m: every bit i+1 of the *)
(* position above m adds temp[i].                                            *)
FftSkew ==
  [pos \in SkewPositions |->
     LET m == CHOOSE i \in 0 .. Bitwidth - 1 :
                 (pos + 1) % 2^i = 0 /\ (pos + 1) % 2^(i + 1) # 0
     IN LogLut[Span([i \in 0 .. Bitwidth - 1 |->
                        IF i \in m .. Bitwidth - 2 THEN SkewTemp[m][i] ELSE 0], pos \div 2)]]

(* The transform of the logarithms, that of zero taken as 0.                 *)
LogWalsh == Fwht([LogLut EXCEPT ![0] = 0])

=============================================================================
