---------------------------- MODULE MCReconstruct ----------------------------
(* Two data and two parity shards of a custom matrix of which one square      *)
(* sub-matrix, rows 1 and 3, has no inverse.                                  *)
EXTENDS Reconstruct

MCSingularRows == {{1, 3}}

=============================================================================
