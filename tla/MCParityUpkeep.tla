--------------------------- MODULE MCParityUpkeep ---------------------------
(* Two data shards, whose Vandermonde parity row is (3, 2), and the three ways *)
(* a codec computes its parity.                                               *)
EXTENDS ParityUpkeep

MCClassic == [family |-> "Classic", xor |-> FALSE]
MCFastParity == [family |-> "Classic", xor |-> TRUE]
MCLeopard == [family |-> "LeopardGF8", xor |-> FALSE]

MCAll == {MCClassic, MCFastParity, MCLeopard}
MCFastOnly == {MCFastParity}
=============================================================================
