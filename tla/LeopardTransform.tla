-------------------------- MODULE LeopardTransform --------------------------
(* The transforms of the Leopard engines (core/leopard_gf8/{mod,encode,       *)
(* decode}.rs; leopard_gf16 has the same plans and the same butterflies).     *)
(*                                                                            *)
(* A lane is a sequence of field elements, one for each column of the shards; *)
(* work is a function from lane numbers 0 .. lanes-1 to lanes.  A plan is the *)
(* list of blocks that the program precomputes.  A block keeps the positions  *)
(* of its factors in fft_skew, not their values: building a plan reads those  *)
(* positions, and reading past the table is a panic.                          *)
EXTENDS LeopardField, SequencesExt

Lanes(n)      == 0 .. n - 1
Fill(len, v)  == [c \in 1 .. len |-> v]
LessOf(a, b)  == IF a <= b THEN a ELSE b
RoundDown4(n) == n - (n % 4)
RoundUp4(n)   == RoundDown4(n + 3)

(* ------------------------------- butterflies ----------------------------- *)

(* slice_xor; mulgf8 and lut_xor: the loops over the bytes of two lanes.     *)
LanePlus(x, y) == [c \in DOMAIN x |-> Plus(x[c], y[c])]
LaneMul(y, log_m) == [c \in DOMAIN y |-> MulLut[log_m][y[c]]]

(* dit2_step_prebuilt: the factor Modulus is that of zero, and is skipped.   *)
AddMultiple(x, y, log_m) ==
  IF log_m = Modulus THEN x ELSE LanePlus(x, LaneMul(y, log_m))

FftDit2(x, y, log_m) ==
  LET After(x1) == <<x1, LanePlus(y, x1)>>
  IN After(AddMultiple(x, y, log_m))

(* dit2_step_inv_prebuilt *)
IfftDit2(x, y, log_m) ==
  LET After(y1) == <<AddMultiple(x, y1, log_m), y1>>
  IN After(LanePlus(y, x))

Dit2(dir, x, y, log_m) ==
  IF dir = "forward" THEN FftDit2(x, y, log_m) ELSE IfftDit2(x, y, log_m)

(* One step of a transform: a butterfly on the lanes i and j.  A lane that   *)
(* the work area does not have leaves the other as it is.                    *)
Pair(dir, lanes, step) ==
  IF {step.i, step.j} \subseteq DOMAIN lanes
  THEN LET After(xy) == [lanes EXCEPT ![step.i] = xy[1], ![step.j] = xy[2]]
       IN After(Dit2(dir, lanes[step.i], lanes[step.j], FftSkew[step.at]))
  ELSE lanes

(* The steps, one after another.                                             *)
RunSteps(dir, lanes, steps) ==
  LET run[k \in 0 .. Len(steps)] ==
        IF k = 0 THEN lanes ELSE Pair(dir, run[k - 1], steps[k])
  IN run[Len(steps)]

(* --------------------------------- plans --------------------------------- *)

Stage4Block(r, dist, at) ==
  [r |-> r, dist |-> dist, m01 |-> at, m02 |-> at + dist, m23 |-> at + 2 * dist]
Stage2Block(r, dist, at) == [r |-> r, dist |-> dist, m |-> at]

(* Starts of the blocks of width dist4 below mtrunc, in ascending order.     *)
BlockStarts(dist4, mtrunc) ==
  [k \in 1 .. (mtrunc + dist4 - 1) \div dist4 |-> (k - 1) * dist4]

(* build_fft_dit8_plan: radix-4 stages from the widest block down, and a     *)
(* radix-2 stage at the end when m is no power of four.                      *)
build_fft_plan(mtrunc, m) ==
  LET Stage(dist) == [k \in DOMAIN BlockStarts(4 * dist, mtrunc) |->
                        LET r == BlockStarts(4 * dist, mtrunc)[k]
                        IN Stage4Block(r, dist, r + dist - 1)]
      odd == \E k \in 0 .. Bitwidth : m = 2 * 4^k
  IN [mtrunc |-> mtrunc,
      stage4_blocks |-> FlattenSeq([k \in 1 .. Bitwidth |->
                          IF m < 4^k THEN <<>> ELSE Stage(m \div 4^k)]),
      final_stage |->
        IF ~odd THEN <<>>
        ELSE [k \in DOMAIN BlockStarts(2, mtrunc) |->
                Stage2Block(BlockStarts(2, mtrunc)[k], 1, BlockStarts(2, mtrunc)[k])]]

(* The inverse plan, for factors read from position base on: the stages from *)
(* the narrowest block up, a last radix-2 stage over the whole width when m  *)
(* is no power of four, and the first lane that the input does not reach.    *)
IfftPlan(mtrunc, m, base) ==
  LET Stage(dist) == [k \in DOMAIN BlockStarts(4 * dist, mtrunc) |->
                        LET r == BlockStarts(4 * dist, mtrunc)[k]
                        IN Stage4Block(r, dist, base + r + dist)]
      last == CHOOSE p \in {4^k : k \in 0 .. Bitwidth} : p <= m /\ 4 * p > m
  IN [mtrunc |-> mtrunc, m |-> m,
      initial_blocks |-> IF m >= 4 THEN Stage(1) ELSE <<>>,
      later_blocks   |-> FlattenSeq([k \in 1 .. Bitwidth |->
                           IF 4 * 4^k > m THEN <<>> ELSE Stage(4^k)]),
      clear_start    |-> RoundUp4(mtrunc),
      final_stage    |-> IF last < m THEN <<Stage2Block(0, last, base + last)>>
                         ELSE <<>>]

(* build_ifft_dit8_plan: the encoder's slice of fft_skew starts at base.     *)
build_ifft_plan(mtrunc, m, base) == IfftPlan(mtrunc, m, base)

(* build_ifft_decode_dit8_plan: the whole table, one position earlier.       *)
build_ifft_decode_plan(mtrunc, m) == IfftPlan(mtrunc, m, -1)

(* The positions of fft_skew that building these blocks reads.               *)
SkewReads(blocks) ==
  UNION {IF "m" \in DOMAIN blocks[k] THEN {blocks[k].m}
         ELSE {blocks[k].m01, blocks[k].m02, blocks[k].m23} : k \in DOMAIN blocks}

IfftReads(plan) ==
  SkewReads(plan.initial_blocks) \union SkewReads(plan.later_blocks)
    \union SkewReads(plan.final_stage)
FftReads(plan) == SkewReads(plan.stage4_blocks) \union SkewReads(plan.final_stage)

(* The plans of an encoding of d data shards with m lanes: one for the first *)
(* group of m shards, one for each whole group after it, one for a shorter   *)
(* last group; the first of them starts at position m - 1 of fft_skew.       *)
GroupPlans(d, p, m) ==
  LET whole == d \div m
      Base(g) == m - 1 + g * m
  IN [ifft |-> <<build_ifft_plan(LessOf(d, m), m, Base(0))>>
                \o (IF d <= m THEN <<>>
                    ELSE [g \in 1 .. whole - 1 |-> build_ifft_plan(m, m, Base(g))]
                         \o (IF d % m = 0 THEN <<>>
                             ELSE <<build_ifft_plan(d % m, m, Base(whole))>>)),
      fft  |-> build_fft_plan(p, m)]

(* Building the plans reads only positions that fft_skew has.                *)
PlansFit(plans) ==
  /\ \A g \in DOMAIN plans.ifft : IfftReads(plans.ifft[g]) \subseteq SkewPositions
  /\ FftReads(plans.fft) \subseteq SkewPositions

(* -------------------------- plans on a work area ------------------------- *)

(* A view of the first columns of every lane of a work area, and the work    *)
(* area with the view written back.                                          *)
View(lanes, size) == [l \in DOMAIN lanes |-> SubSeq(lanes[l], 1, size)]
(* Mutant: the columns after the view are lost.                              *)
SpliceShort(lanes, view) == view

Splice(lanes, view) ==
  [l \in DOMAIN lanes |->
     view[l] \o SubSeq(lanes[l], Len(view[l]) + 1, Len(lanes[l]))]

(* A butterfly on the lanes i and j, by the factor at a position of fft_skew. *)
Step(i, j, at) == [i |-> i, j |-> j, at |-> at]

(* The four butterflies of one radix-4 group, on the lanes a, a + dist, ...   *)
(* dit4_pairwise_one takes them in pairs, the outer ones first or last;       *)
(* fft_dit4_full_lut_scratch and ifft_dit4_full_lut_scratch on four lanes at  *)
(* once, the inverse in another order.                                        *)
dit4_pairwise_one(dir, b, a) ==
  LET outer == <<Step(a, a + 2 * b.dist, b.m02), Step(a + b.dist, a + 3 * b.dist, b.m02)>>
      inner == <<Step(a, a + b.dist, b.m01), Step(a + 2 * b.dist, a + 3 * b.dist, b.m23)>>
  IN IF dir = "forward" THEN outer \o inner ELSE inner \o outer

fft_dit4(b, a) == dit4_pairwise_one("forward", b, a)
ifft_dit4(b, a) ==
  <<Step(a, a + b.dist, b.m01), Step(a + 2 * b.dist, a + 3 * b.dist, b.m23),
    Step(a + b.dist, a + 3 * b.dist, b.m02), Step(a, a + 2 * b.dist, b.m02)>>

(* All the groups of a block by each strategy: pairs only, or four lanes at   *)
(* once as long as there are four.  The direct one tells the groups that have *)
(* four lanes apart beforehand, the safe one group by group.                  *)
dit4_at_decomposed(dir, b) ==
  FlattenSeq([k \in 1 .. b.dist |-> dit4_pairwise_one(dir, b, b.r + k - 1)])

FourLanes(dir, b, a) == IF dir = "forward" THEN fft_dit4(b, a) ELSE ifft_dit4(b, a)
dit4_at_direct(dir, b, lanes) ==
  LET bulk_end == LessOf(b.dist, IF lanes > b.r + 3 * b.dist THEN lanes - b.r - 3 * b.dist ELSE 0)
  IN FlattenSeq([k \in 1 .. bulk_end |-> FourLanes(dir, b, b.r + k - 1)])
     \o FlattenSeq([k \in 1 .. b.dist - bulk_end |->
                      dit4_pairwise_one(dir, b, b.r + bulk_end + k - 1)])
dit4_at_direct_safe(dir, b, lanes) ==
  FlattenSeq([k \in 1 .. b.dist |->
    LET a == b.r + k - 1
    IN IF a + 3 * b.dist < lanes THEN FourLanes(dir, b, a) ELSE dit4_pairwise_one(dir, b, a)])

dit4_at(dir, b, lanes, strategy) ==
  CASE strategy = "Decomposed" -> dit4_at_decomposed(dir, b)
    [] strategy = "Direct"     -> dit4_at_direct(dir, b, lanes)
    [] strategy = "DirectSafe" -> dit4_at_direct_safe(dir, b, lanes)

PlanSteps(dir, blocks, lanes, strategy) ==
  FlattenSeq([k \in DOMAIN blocks |-> dit4_at(dir, blocks[k], lanes, strategy)])
Radix2Steps(blocks) ==
  FlattenSeq([k \in DOMAIN blocks |->
     [i \in 1 .. blocks[k].dist |->
        Step(blocks[k].r + i - 1, blocks[k].r + i - 1 + blocks[k].dist, blocks[k].m)]])

(* zero_trailing_lanes                                                       *)
ZeroLanes(lanes, zeroed) ==
  [l \in DOMAIN lanes |-> IF l \in zeroed THEN [c \in DOMAIN lanes[l] |-> 0] ELSE lanes[l]]

FftSteps(plan, lanes, strategy) ==
  PlanSteps("forward", plan.stage4_blocks, lanes, strategy) \o Radix2Steps(plan.final_stage)

(* The stages of an inverse plan, once its input is in place.                *)
IfftSteps(plan, lanes, strategy) ==
  PlanSteps("inverse", plan.initial_blocks, lanes, strategy)
    \o PlanSteps("inverse", plan.later_blocks, lanes, strategy)
    \o Radix2Steps(plan.final_stage)

(* An inverse plan with the steps it stands for.                             *)
Planned(plan, strategy) == [plan |-> plan, steps |-> IfftSteps(plan, plan.m, strategy)]

(* Mutant: only the lanes after the blocks are zeroed.                       *)
TailLanesAfterBlocks(plan) == plan.clear_start .. plan.m - 1

(* The lanes that the inverse transform zeroes: the rest of the blocks that  *)
(* the input reaches, and the lanes after them.                              *)
TailLanes(plan) ==
  IF plan.initial_blocks = <<>> THEN plan.mtrunc .. plan.m - 1
  ELSE (UNION {plan.mtrunc .. plan.initial_blocks[k].r + 3 : k \in DOMAIN plan.initial_blocks})
         \union (plan.clear_start .. plan.m - 1)

(* Mutant: the lower lanes are added to the upper ones.                      *)
DerivativeUpwards(lanes, n) ==
  LET Width(i) == CHOOSE w \in {2^k : k \in 0 .. Bitwidth} : i % w = 0 /\ i % (2 * w) # 0
      Added(w, i) == [l \in DOMAIN w |->
                        IF l \in i .. i + Width(i) - 1 THEN LanePlus(w[l - Width(i)], w[l])
                        ELSE w[l]]
      after[i \in 0 .. n - 1] == IF i = 0 THEN lanes ELSE Added(after[i - 1], i)
  IN after[n - 1]

(* compute_formal_derivative: the lanes i .. i+width-1 are added to those    *)
(* before them, width the lowest bit of i, for each i in turn.               *)
Derivative(lanes, n) ==
  LET Width(i) == CHOOSE w \in {2^k : k \in 0 .. Bitwidth} : i % w = 0 /\ i % (2 * w) # 0
      Added(w, i) == [l \in DOMAIN w |->
                        IF l \in i - Width(i) .. i - 1 THEN LanePlus(w[l + Width(i)], w[l])
                        ELSE w[l]]
      after[i \in 0 .. n - 1] == IF i = 0 THEN lanes ELSE Added(after[i - 1], i)
  IN after[n - 1]

(* ---------------------------- the error locator -------------------------- *)

(* compute_error_locs: the positions that are erased (padding of the parity  *)
(* counts as erased) are transformed, multiplied by the transformed          *)
(* logarithms and transformed back.  The result is the sum of the logarithms *)
(* of the distances to the erased positions, for each position.              *)
compute_error_locs(erased, work_size) ==
  LET indicator == [i \in Element |-> IF i \in erased THEN 1 ELSE 0]
      times[f \in [Element -> Element]] == [i \in Element |-> (f[i] * LogWalsh[i]) % Modulus]
  IN fwht_variable(times[FwhtTrunc(indicator, work_size)])
=============================================================================
