---------------------------- MODULE MCDecodeIdx -----------------------------
(* Two nodes and every way of building the encoding matrix.                   *)
EXTENDS DecodeIdx, FiniteSetsExt, TLC

CONSTANTS a, b

MCSymmetry == Permutations(Nodes)

Built(d, p, mode) == [d |-> d, p |-> p, mode |-> mode, custom |-> <<>>]

(* A caller's matrix with equal columns in both rows: no data shard can be    *)
(* recovered from the two parity shards.  Its rows are longer than needed.    *)
EqualRows == [d |-> 2, p |-> 2, mode |-> "Custom",
              custom |-> [r \in 0 .. 1 |-> [c \in 0 .. 2 |-> 7 + 2 * r]]]

MCCodecs ==
  {Built(2, 2, mode) : mode \in {"Vandermonde", "Cauchy", "JerasureLike"}}
    \cup {Built(3, 3, mode) : mode \in {"Vandermonde", "Cauchy", "JerasureLike"}}
    \cup {EqualRows}

(* One shard too few, as many as needed, one too many.  Of the larger codes   *)
(* two selections whose rows have to be exchanged in the elimination.         *)
MCExpectations(c) ==
  IF c.d = 2 THEN UNION {kSubset(k, Shards(c)) : k \in 1 .. 3}
  ELSE {{1, 2, 4}, {0, 3, 5}}

MCData == [i \in Byte |-> [j \in 1 .. ShardLen |-> (41 * i + 7 * j + 29) % FIELD_SIZE]]

Zeroed(len) == [j \in 1 .. len |-> 0]

(* All the buffers, a data and a parity buffer, a wrong length, none.        *)
MCAllocations(c) ==
  {[i \in Shards(c) |-> Zeroed(ShardLen)],
   [i \in Shards(c) |-> IF i \in {0, c.d} THEN Zeroed(ShardLen) ELSE Absent]}
    \cup (IF c.mode \in {"Vandermonde", "Custom"} /\ c.d = 2
          THEN {[i \in Shards(c) |-> IF i = 1 THEN Zeroed(ShardLen + 1) ELSE Zeroed(ShardLen)],
                [i \in Shards(c) |-> Absent]}
          ELSE {})

MCArrivals(c) ==
  IF c.d = 2 THEN UNION {kSubset(k, Shards(c)) : k \in 0 .. 2}
  ELSE {{1}, {0, 3}, {2, 4, 5}}
=============================================================================
