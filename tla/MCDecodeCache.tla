---------------------------- MODULE MCDecodeCache ----------------------------
(***************************************************************************)
(* DecodeCache on a 2+2 codec: two threads, three calls, room for two       *)
(* entries. Three presence patterns have three different keys, so a third   *)
(* insertion evicts; two of them lose the same data shard and decode from   *)
(* different rows; one has more present shards than data shards; the fourth *)
(* has a singular sub-matrix.                                               *)
(***************************************************************************)
EXTENDS DecodeCache

MCPatterns == {{1, 2, 3}, {1, 3}, {0, 2}, {0, 3}}
MCSingularRows == {{0, 3}}

=============================================================================
