---------------------------- MODULE ClassicField ----------------------------
(* GF(2^8) of the Classic family: the tables that build.rs generates and the  *)
(* arithmetic of galois_8/mod.rs over them.  Constant, and evaluated once, as *)
(* the tables are generated once when the crate is built.                     *)
EXTENDS Integers, Words

FIELD_SIZE == 256
GENERATING_POLYNOMIAL == 29
Byte == 0 .. FIELD_SIZE - 1

add(a, b) == ByteXor(a, b)

(* The powers of the generator by the shift register of gen_log_table, in     *)
(* runs of 16 (TLC's stack does not hold a recursion through all of them).    *)
Powers ==
  LET Shift(b) == IF 2 * b >= FIELD_SIZE
                  THEN ByteXor(2 * b - FIELD_SIZE, GENERATING_POLYNOMIAL)
                  ELSE 2 * b
      run[i \in 0 .. 16, b \in Byte] == IF i = 0 THEN b ELSE run[i - 1, Shift(b)]
      start[k \in 0 .. 15] == IF k = 0 THEN 1 ELSE run[16, start[k - 1]]
  IN [log \in 0 .. FIELD_SIZE - 2 |-> run[log % 16, start[log \div 16]]]

(* gen_log_table; zero has no logarithm, and its entry stays 0.              *)
LOG_TABLE ==
  [b \in Byte |-> IF b = 0 THEN 0 ELSE CHOOSE log \in 0 .. FIELD_SIZE - 2 : Powers[log] = b]

(* gen_exp_table: every power twice, so that a sum of two logarithms needs    *)
(* no reduction.                                                              *)
EXP_TABLE == [e \in 0 .. 2 * FIELD_SIZE - 3 |-> Powers[e % (FIELD_SIZE - 1)]]

(* multiply                                                                   *)
Multiply(a, b) == IF a = 0 \/ b = 0 THEN 0 ELSE EXP_TABLE[LOG_TABLE[a] + LOG_TABLE[b]]

MUL_TABLE == [a \in Byte |-> [b \in Byte |-> Multiply(a, b)]]

(* gen_mul_table_half: the products by the low and by the high nibbles, which *)
(* the vector kernels look up.                                                *)
MUL_TABLE_LOW  == [a \in Byte |-> [b \in 0 .. 15 |-> Multiply(a, b)]]
MUL_TABLE_HIGH == [a \in Byte |-> [b \in 0 .. 15 |-> Multiply(a, 16 * b)]]

mul(a, b) == MUL_TABLE[a][b]

(* A quotient by zero is 0.                                                  *)
div(a, b) ==
  LET Wrapped(log_result) == IF log_result < 0 THEN log_result + 255 ELSE log_result
  IN IF a = 0 \/ b = 0 THEN 0 ELSE EXP_TABLE[Wrapped(LOG_TABLE[a] - LOG_TABLE[b])]

exp(a, n) ==
  CASE n = 0 -> 1
    [] n > 0 /\ a = 0 -> 0
    [] OTHER -> EXP_TABLE[(LOG_TABLE[a] * n) % 255]

(* The element that stands for row or column n.                              *)
nth(n) == n % FIELD_SIZE

(* What the generated tables have to be for the products to be those of a      *)
(* field: logarithms and powers are inverse to each other, and doubling        *)
(* distributes over sums.                                                     *)
ASSUME TablesAssumption ==
  /\ \A a \in Byte \ {0} : LOG_TABLE[a] \in 0 .. 254 /\ EXP_TABLE[LOG_TABLE[a]] = a
  /\ \A e \in 0 .. 254 : EXP_TABLE[e] \in Byte \ {0} /\ LOG_TABLE[EXP_TABLE[e]] = e
  /\ LOG_TABLE[1] = 0 /\ LOG_TABLE[2] = 1
  /\ \A a, b \in Byte : mul(2, add(a, b)) = add(mul(2, a), mul(2, b))

(* A mutant: sums with a carry.                                              *)
MulSliceSum(c, input, out) == [i \in DOMAIN out |-> out[i] + mul(c, input[i])]

(* mul_slice_xor: a multiple of a slice is added to another slice.            *)
mul_slice_xor(c, input, out) ==
  CASE c = 0 -> out
    [] c = 1 -> [i \in DOMAIN out |-> ByteXor(out[i], input[i])]
    [] OTHER -> [i \in DOMAIN out |-> ByteXor(out[i], MUL_TABLE[c][input[i]])]
=============================================================================
