-------------------------------- MODULE Codec --------------------------------
(***************************************************************************)
(* What every part of the Classic codec shares: the shard indices, which   *)
(* rows of the encoding matrix a set of present shards selects, and which   *)
(* selections can be inverted.                                              *)
(*                                                                          *)
(* Shard i is row i of the encoding matrix; rows 0..DataShards-1 are the    *)
(* identity. A square sub-matrix is named by the set of its rows: the code  *)
(* always lists them in increasing order, so the set determines the list.   *)
(***************************************************************************)
EXTENDS Integers, FiniteSets

CONSTANTS
  DataShards,    \* data_shard_count
  ParityShards,  \* parity_shard_count
  SingularRows   \* row sets of a custom matrix whose sub-matrix has no inverse

ASSUME CodecAssumption ==
  /\ DataShards \in Nat \ {0}
  /\ ParityShards \in Nat \ {0}
  /\ SingularRows \subseteq SUBSET (0 .. DataShards + ParityShards - 1)

Shards == 0 .. DataShards + ParityShards - 1
DataIndices == 0 .. DataShards - 1

\* The first DataShards present shards, in index order: valid_indices.
FirstPresent(present) ==
  {i \in present : Cardinality({j \in present : j < i}) < DataShards}

\* The patterns from which the codec can decode.
Decodable == {present \in SUBSET Shards : Cardinality(present) >= DataShards}

\* The answers of get_data_decode_matrix. A decode matrix is named by the
\* rows whose sub-matrix it inverts.
Matrix(rows) == [status |-> "ok", rows |-> rows]
Failure(error) == [status |-> error, rows |-> {}]
Errors == {"TooFewShardsPresent", "InvalidCustomMatrix"}
Answers == {Matrix(rows) : rows \in SUBSET Shards} \cup {Failure(e) : e \in Errors}

\* Matrix::invert through get_data_decode_matrix: the only failure is a
\* singular sub-matrix, reported as InvalidCustomMatrix.
Invert(rows) ==
  IF rows \in SingularRows THEN Failure("InvalidCustomMatrix") ELSE Matrix(rows)

=============================================================================
