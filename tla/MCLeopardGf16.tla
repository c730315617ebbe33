---------------------------- MODULE MCLeopardGf16 ----------------------------
(* The engine on elements of four bits, two to a byte's place: 16 points, so   *)
(* that containers of 7 or 8 lanes are as wide as the decoder takes.          *)
EXTENDS LeopardGf16

MCCantorBasis == <<1, 6, 2, 10>>

Shape(d, p, bytes) == [d |-> d, p |-> p, bytes |-> bytes]

(* Two codes of four shards, one of them in two sizes (one chunk; a chunk and *)
(* a short one); padding of the parity, and several groups, both on the eight *)
(* points that the decoder takes at most; then a wide code that cannot be     *)
(* restored, one whose plans leave the tables, a length that does not fit.    *)
MCShapes ==
  {Shape(2, 2, 8), Shape(2, 2, 12), Shape(3, 1, 12), Shape(3, 3, 4), Shape(5, 2, 4),
   Shape(8, 1, 4), Shape(13, 3, 4), Shape(1, 1, 6)}

MCLostSets(s) ==
  IF s.d + s.p > 8 THEN {{0}}
  ELSE {{0}, {s.d}, {0, s.d}, 0 .. s.p - 1, 0 .. s.p}

\* What the theorems about the code's shards take as given, for these codes.
ASSUME TransformsCompute == TransformsComputeTheCode
=============================================================================
