--------------------------- MODULE MCStreamEncode ---------------------------
(* Two data and two parity streams, blocks of two bytes. Lengths end before,   *)
(* in and after the second block; a reader may fail inside it; a parity stream *)
(* may be full after one byte or have room for everything.                     *)
EXTENDS StreamEncode

MCLengths == {0, 1, 3}
MCFailPoints == {NoFailure, 2}
MCRooms == {1, 3}

=============================================================================
