------------------------- MODULE MCStreamReconstruct -------------------------
(* Two data and two parity shards of three bytes, read one, two or four bytes  *)
(* at a time: a cut shard ends before, at or inside a block. Rows 1 and 3 have *)
(* no inverse.                                                                *)
EXTENDS StreamVerify

MCSingularRows == {{1, 3}}
MCBlockSizes == {1, 2, 4}

=============================================================================
