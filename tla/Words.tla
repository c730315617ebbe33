-------------------------------- MODULE Words --------------------------------
(* Exclusive or of bytes, the addition of every field here, from a table of   *)
(* nibbles.                                                                   *)
EXTENDS Integers

(* The lowest bits of a nibble's sum, up to the one that is worth w.         *)
LowBitsXor[w \in {0, 1, 2, 4, 8}, a \in 0 .. 15, b \in 0 .. 15] ==
  IF w = 0 THEN 0 ELSE LowBitsXor[w \div 2, a, b] + ((a \div w + b \div w) % 2) * w

NibbleXor == [a \in 0 .. 15 |-> [b \in 0 .. 15 |-> LowBitsXor[8, a, b]]]

(* Sums of nibbles: a commutative group, in which each is its own inverse.    *)
ASSUME NibbleAssumption ==
  \A a, b \in 0 .. 15 :
    /\ NibbleXor[a][b] \in 0 .. 15
    /\ NibbleXor[a][b] = NibbleXor[b][a]
    /\ NibbleXor[a][0] = a
    /\ NibbleXor[a][a] = 0
    /\ \A c \in 0 .. 15 : NibbleXor[NibbleXor[a][b]][c] = NibbleXor[a][NibbleXor[b][c]]

ByteXor(a, b) ==
  16 * NibbleXor[a \div 16][b \div 16] + NibbleXor[a % 16][b % 16]
=============================================================================
