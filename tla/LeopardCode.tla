---------------------------- MODULE LeopardCode ----------------------------
(* The code that both Leopard engines compute, without transforms: the shards *)
(* are the values at the points 0, 1, 2, ... of a polynomial of degree below  *)
(* n - m: parity first, then data, then zeros.  Parity is what Lagrange's     *)
(* formula makes of the points from m on.                                     *)
EXTENDS LeopardTransform

(* The drivers' dimensions: m parity lanes, n lanes of the whole transform.  *)
M(s) == CeilPow2(IF s.p > 1 THEN s.p ELSE 1)
N(s) == CeilPow2(M(s) + s.d)

LogDistance(a, b) == LogLut[Plus(a, b)]

(* The weights, as logarithms, of the data shards in each parity shard.      *)
LagrangeLog(s) ==
  [k \in 0 .. s.p - 1 |-> [i \in M(s) .. M(s) + s.d - 1 |->
     MapThenSumSet(LAMBDA j : LogDistance(k, j) - LogDistance(i, j),
                   (M(s) .. N(s) - 1) \ {i}) % Modulus]]

(* The sum of count elements, each times a power.                            *)
Weighted(elements, logs, count) ==
  LET sum[i \in 0 .. count - 1, j \in 0 .. count - 1] ==
        IF i = j THEN MulLog(elements[i], logs[i])
        ELSE Plus(sum[i, (i + j) \div 2], sum[(i + j) \div 2 + 1, j])
  IN sum[0, count - 1]

(* One element of a parity shard, from those of the data shards.             *)
ParityElement(s, weights, elements) ==
  Weighted(elements, [i \in 0 .. s.d - 1 |-> weights[M(s) + i]], s.d)

=============================================================================
