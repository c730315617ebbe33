---------------------------- MODULE MCLeopardGf8 ----------------------------
(* The engine at its real width on containers of a few shards.                *)
EXTENDS LeopardGf8

MCCantorBasis == <<1, 214, 152, 146, 86, 200, 88, 230>>

Shape(d, p, cols) == [d |-> d, p |-> p, cols |-> cols]

(* One, two and four parity lanes with and without padding; fewer data shards *)
(* than lanes, a remainder group, several groups; one chunk, a short last     *)
(* chunk, a wide chunk.  The last four are refused somewhere: no columns, too *)
(* many parity shards, plans beyond the tables, a container too wide to       *)
(* restore.                                                                   *)
MCShapes ==
  {Shape(1, 1, 1), Shape(3, 2, 3), Shape(5, 3, 3), Shape(2, 4, 3), Shape(9, 2, 2),
   Shape(2, 5, 1),
   Shape(2, 1, 0), Shape(1, 129, 1), Shape(253, 3, 1), Shape(100, 30, 1)}

(* All the sets that can be restored, and those with one shard more; of the   *)
(* widest container only one set.                                             *)
MCLostSets(s) ==
  IF s.d + s.p > 16 THEN {{0}}
  ELSE UNION {kSubset(k, 0 .. s.d + s.p - 1) : k \in 1 .. s.p + 1}

(* README.md: LeopardGF8 "supports up to 256 total shards". Of two containers *)
(* within that, the encoding of one panics, since the plan of its last group  *)
(* begins where fft_skew ends, and the other is encoded but never restored:   *)
(* 128 lanes and 100 shards round up to one point more than the decoder takes. *)
ASSUME WideContainers ==
  /\ Total(Shape(253, 3, 1)) <= Order /\ Total(Shape(100, 30, 1)) <= Order
  /\ ~PlansFit(EncodePlans(Shape(253, 3, 1)))
  /\ Encodable(Shape(100, 30, 1)) /\ ~Decodable(Shape(100, 30, 1))

MCOneLost(s) == {{0}}

(* Shards of a short chunk, of whole chunks, and of whole ones and a short.  *)
MCDebugShapes == {Shape(3, 2, cols) : cols \in {1, 2, 3, 4}}
=============================================================================
