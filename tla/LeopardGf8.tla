----------------------------- MODULE LeopardGf8 -----------------------------
(* The Leopard engine for bytes (core/leopard_gf8), as the calls of one       *)
(* thread: encodings and reconstructions of containers of different shapes,   *)
(* one chunk of the columns at a time.                                        *)
(*                                                                            *)
(* The work area of the encoder is kept for the thread (FLAT_WORK_CACHE) and  *)
(* is taken by the next encoding that needs the same dimensions, with what    *)
(* the last one left in it; a new one is not initialised.  The decoder takes  *)
(* a zeroed one for each call and keeps it from chunk to chunk.               *)
EXTENDS LeopardCode, FiniteSets

CONSTANTS Shapes,           \* [d, p, cols]: data and parity shards, columns in each
          Seeds,            \* which data is encoded
          Junk,             \* what memory that is not initialised may hold
          MaxCalls,         \* bound on the encodings
          LostSets(_),      \* the sets of shards a container of this shape may lose
          WORK_SIZE8,       \* columns of a chunk
          WORK_SIZE8_HIGH_FANOUT,
          HIGH_FANOUT_TOTAL_SHARDS,
          HIGH_FANOUT_TOTAL_SHARDS_WITH_REMAINDER,
          Dit4Modes,        \* what RSE_DIT4_STRATEGY may ask for
          DIT4_DIRECT_FROM, \* columns from which "Auto" is "Direct"
          DebugAssertions   \* built with debug_assertions

ASSUME ShapesAssumption ==
  \A s \in Shapes : s.d \in Nat \ {0} /\ s.p \in Nat \ {0} /\ s.cols \in Nat

ASSUME BuildAssumption == DebugAssertions \in BOOLEAN

VARIABLES dit4_mode,  \* RSE_DIT4_STRATEGY, read once
          pc,         \* what the call does next, "idle" between calls
          object,     \* [shape, seed] of the container
          shard,      \* the container: a lane for each shard, <<>> where absent
          answer,     \* the answer to the last call
          cache,      \* FLAT_WORK_CACHE: a work area or <<>>
          work,       \* the work area of the running call
          offset,     \* columns done
          group,      \* groups of m data shards done in this chunk
          err_locs,   \* logarithms of the error locator, during a reconstruction
          outputs,    \* the buffers that a reconstruction writes
          calls       \* encodings so far

vars == <<dit4_mode, pc, object, shard, answer, cache, work, offset, group, err_locs,
          outputs, calls>>

Absent == <<>>
NoWork == <<>>

shape == object.shape
Total(s) == s.d + s.p

(* The data shards of an object.                                             *)
DataLane(o, i) ==
  [c \in 1 .. o.shape.cols |->
     (37 * i + 101 * c + 59 * o.seed + 7 * i * i * c + 1) % Order]

(* ----------------------------- the drivers ------------------------------- *)

(* build_leopard_gf8_encode_driver                                           *)
EncodeDriver(s) ==
  LET last_count == s.d % M(s)
      high_fanout == \/ Total(s) >= HIGH_FANOUT_TOTAL_SHARDS
                     \/ /\ Total(s) >= HIGH_FANOUT_TOTAL_SHARDS_WITH_REMAINDER
                        /\ last_count # 0
  IN [m |-> M(s), mtrunc |-> LessOf(s.d, M(s)), last_count |-> last_count,
      chunk_size |-> IF high_fanout /\ s.cols >= WORK_SIZE8_HIGH_FANOUT
                     THEN WORK_SIZE8_HIGH_FANOUT ELSE WORK_SIZE8,
      work_slices |-> 2 * M(s), skew_offset |-> M(s) - 1]

EncodePlans(s) == GroupPlans(s.d, s.p, EncodeDriver(s).m)

Encodable(s) == s.cols > 0 /\ M(s) <= Modulus /\ PlansFit(EncodePlans(s))
Decodable(s) == s.cols > 0 /\ M(s) <= Modulus /\ N(s) <= Modulus

(* The plans of every shape, with the steps they stand for, evaluated once.  *)
EncodePlan ==
  [strategy \in {"Decomposed", "Direct", "DirectSafe"} |->
    [s \in {t \in Shapes : Encodable(t)} |->
       LET plans == EncodePlans(s)
       IN [ifft |-> [g \in DOMAIN plans.ifft |-> Planned(plans.ifft[g], strategy)],
           fft  |-> FftSteps(plans.fft, M(s), strategy)]]]
DecodePlan ==
  [s \in {t \in Shapes : Decodable(t)} |->
     [ifft |-> [input_count \in M(s) .. M(s) + s.d |->
                  Planned(build_ifft_decode_plan(input_count, N(s)), "Direct")],
      fft  |-> FftSteps(build_fft_plan(M(s) + s.d, N(s)), N(s), "Direct")]]

(* ------------------------------- encoding -------------------------------- *)

ChunkEnd(chunk) == LessOf(offset + chunk, shape.cols)
Chunk(i, chunk) == SubSeq(shard[i], offset + 1, ChunkEnd(chunk))

Driver == EncodeDriver(shape)
active_dit4_strategy ==
  IF dit4_mode # "Auto" THEN dit4_mode
  ELSE IF shape.cols < DIT4_DIRECT_FROM THEN "Decomposed" ELSE "Direct"

(* encode_with_tables up to the first chunk: the checks, the plans, and the  *)
(* work area.  A call that is refused, or panics, writes nothing.            *)
BeginEncode(s, seed, junk) ==
  LET dr == EncodeDriver(s)
      len == LessOf(s.cols, dr.chunk_size)
      Reusable == /\ cache # NoWork
                  /\ DOMAIN cache = Lanes(dr.work_slices)
                  /\ Len(cache[0]) = len
  IN /\ pc = "idle" /\ calls < MaxCalls
     /\ calls' = calls + 1
     /\ object' = [shape |-> s, seed |-> seed]
     /\ offset' = 0 /\ group' = 0
     /\ err_locs' = <<>> /\ outputs' = <<>>
     /\ IF Encodable(s)
        THEN /\ pc' = "group"
             /\ shard' = [i \in Lanes(Total(s)) |->
                            IF i < s.d THEN DataLane(object', i) ELSE Fill(s.cols, junk)]
             /\ work' = IF Reusable THEN cache
                        ELSE [l \in Lanes(dr.work_slices) |-> Fill(len, junk)]
             /\ cache' = NoWork
             /\ answer' = "none"
        ELSE /\ pc' = "idle"
             /\ shard' = <<>>
             /\ answer' = CASE s.cols = 0      -> "IncorrectShardSize"
                            [] M(s) > Modulus  -> "TooManyShards"
                            [] OTHER           -> "panic"
             /\ UNCHANGED <<cache, work>>

(* ifft_dit_encoder8_with_plan: a group of data shards into the lanes of the *)
(* view, the rest of the lanes zeroed, and the inverse transform.            *)
GroupIfft(lanes, planned, first) ==
  LET plan == planned.plan
      loaded == [l \in DOMAIN lanes |->
                   IF l < plan.mtrunc THEN Chunk(first + l, Driver.chunk_size) ELSE lanes[l]]
  IN RunSteps("inverse", ZeroLanes(loaded, TailLanes(plan)), planned.steps)

(* The next group of the chunk: the first into the lower m lanes, the others *)
(* into the upper ones and from there added to the lower.                    *)
EncodeGroup ==
  /\ pc = "group"
  /\ LET m == Driver.m
         view == View(work, ChunkEnd(Driver.chunk_size) - offset)
         into == IF group = 0 THEN 0 ELSE m
         planned == EncodePlan[active_dit4_strategy][shape].ifft[group + 1]
     IN \E t \in {GroupIfft([l \in Lanes(m) |-> view[l + into]], planned, group * m)} :
          work' = Splice(work, [l \in DOMAIN view |->
                    IF l >= into /\ l < into + m THEN t[l - into]
                    ELSE IF l < m THEN LanePlus(t[l], view[l]) ELSE view[l]])
  /\ group' = group + 1
  /\ pc' = IF group + 1 = Len(EncodePlan[active_dit4_strategy][shape].ifft) THEN "fft" ELSE "group"
  /\ UNCHANGED <<object, shard, answer, cache, offset, err_locs, outputs, calls>>

(* fft_dit8_with_plan on the lower lanes, the parity written back, the next  *)
(* chunk or, after the last, the work area left to the thread.               *)
EncodeChunkEnd ==
  /\ pc = "fft"
  /\ LET m == Driver.m
         end == ChunkEnd(Driver.chunk_size)
         view == View(work, end - offset)
     IN \E t \in {RunSteps("forward", [l \in Lanes(m) |-> view[l]], EncodePlan[active_dit4_strategy][shape].fft)} :
          /\ shard' = [i \in DOMAIN shard |->
                         IF i < shape.d THEN shard[i]
                         ELSE SubSeq(shard[i], 1, offset) \o t[i - shape.d]
                                \o SubSeq(shard[i], end + 1, shape.cols)]
          /\ LET done == Splice(work, [l \in DOMAIN view |->
                                         IF l < m THEN t[l] ELSE view[l]])
             IN IF end < shape.cols
                THEN /\ pc' = "group" /\ work' = done
                     /\ UNCHANGED <<cache, answer>>
                ELSE /\ pc' = "idle" /\ answer' = "ok"
                     /\ cache' = done /\ work' = NoWork
          /\ offset' = end
  /\ group' = 0
  /\ UNCHANGED <<object, err_locs, outputs, calls>>

(* ---------------------------- reconstruction ----------------------------- *)

Present == {i \in DOMAIN shard : shard[i] # Absent}

(* Shards are lost between calls.                                            *)
Lose ==
  /\ pc = "idle" /\ answer = "ok" /\ Present = DOMAIN shard /\ outputs = <<>>
  /\ \E lost \in LostSets(shape) :
       shard' = [i \in DOMAIN shard |-> IF i \in lost THEN Absent ELSE shard[i]]
  /\ answer' = "none"
  /\ UNCHANGED <<pc, object, cache, work, offset, group, err_locs, outputs, calls>>

(* The lane of a shard: parity first, then its padding, then the data.       *)
Lane(i) == IF i < shape.d THEN M(shape) + i ELSE i - shape.d

Erased == {Lane(i) : i \in DOMAIN shard \ Present} \union shape.p .. M(shape) - 1

(* reconstruct_leopard_impl and reconstruct_with_tables up to the first      *)
(* chunk: the checks in their order, the error locator, a zeroed work area.  *)
BeginReconstruct ==
  /\ pc = "idle" /\ answer = "none" /\ shard # <<>>
  /\ LET refusal == CASE Present = {}                      -> "EmptyShard"
                      [] Present = DOMAIN shard            -> "ok"
                      [] Cardinality(Present) < shape.d    -> "TooFewShardsPresent"
                      [] M(shape) > Modulus \/ N(shape) > Modulus -> "TooManyShards"
                      [] OTHER                             -> "none"
     IN IF refusal # "none"
        THEN /\ answer' = refusal
             /\ UNCHANGED <<pc, work, offset, err_locs, outputs>>
        ELSE /\ \E locs \in {compute_error_locs(Erased, M(shape) + shape.d)} :
                  err_locs' = [i \in Lanes(M(shape) + shape.d) |-> locs[i]]
             /\ work' = [l \in Lanes(N(shape)) |-> Fill(LessOf(shape.cols, WORK_SIZE8), 0)]
             /\ outputs' = [i \in DOMAIN shard |-> Fill(shape.cols, 0)]
             /\ offset' = 0
             /\ pc' = "load"
             /\ UNCHANGED answer
  /\ UNCHANGED <<object, shard, cache, group, calls>>

(* mulgf8: a debug build asserts that its slices are equally long; any other *)
(* one zips them, so that what out has beyond input is left as it was.       *)
Mulgf8(out, input, log_m) ==
  [c \in DOMAIN out |-> IF c <= Len(input) THEN MulLut[log_m][input[c]] ELSE out[c]]

(* The decoder gives mulgf8 a whole lane on one side and the columns of the  *)
(* chunk on the other: a short last chunk fails the assertion, since there   *)
(* is always some shard that was received and has to be loaded.              *)
AssertionFails ==
  DebugAssertions /\ Len(work[0]) # ChunkEnd(WORK_SIZE8) - offset

(* The panic leaves the container alone: outputs are the call's own buffers. *)
Panic ==
  /\ pc' = "idle" /\ answer' = "assertion"
  /\ work' = NoWork /\ outputs' = <<>>

(* Step 1: what was received, times the locator, into whole lanes, and zeros *)
(* into the chunk's columns of the others.  Without the assertion a short    *)
(* last chunk leaves the columns after it as the chunk before had them.      *)
Load ==
  /\ pc = "load"
  /\ LET Shard(l) == IF l >= M(shape) THEN l - M(shape) ELSE shape.d + l
         Received(l) == l < M(shape) + shape.d /\ ~(l \in Erased)
         size == ChunkEnd(WORK_SIZE8) - offset
     IN IF AssertionFails THEN Panic
        ELSE /\ work' = [l \in DOMAIN work |->
                  IF Received(l)
                  THEN Mulgf8(work[l], Chunk(Shard(l), WORK_SIZE8), err_locs[l])
                  ELSE Fill(size, 0) \o SubSeq(work[l], size + 1, Len(work[l]))]
             /\ pc' = "ifft"
             /\ UNCHANGED <<answer, outputs>>
  /\ UNCHANGED <<object, shard, cache, offset, group, err_locs, calls>>

(* Step 2: ifft_dit_decode8_with_plan, truncated after the last data shard   *)
(* that is present.                                                          *)
InputCount ==
  M(shape) + Max({0} \union {i + 1 : i \in {j \in Present : j < shape.d}})

DecodeIfft ==
  /\ pc = "ifft"
  /\ LET planned == DecodePlan[shape].ifft[InputCount]
         size == ChunkEnd(WORK_SIZE8) - offset
         cleared == ZeroLanes(View(work, size), TailLanes(planned.plan))
     IN work' = RunSteps("inverse", Splice(work, cleared), planned.steps)
  /\ pc' = "derivative"
  /\ UNCHANGED <<object, shard, answer, cache, offset, group, err_locs, outputs, calls>>

(* Step 3                                                                    *)
DecodeDerivative ==
  /\ pc = "derivative"
  /\ work' = Derivative(work, N(shape))
  /\ pc' = "fft_decode"
  /\ UNCHANGED <<object, shard, answer, cache, offset, group, err_locs, outputs, calls>>

(* Step 4: fft_dit_decode8_with_plan                                         *)
DecodeFft ==
  /\ pc = "fft_decode"
  /\ work' = RunSteps("forward", work, DecodePlan[shape].fft)
  /\ pc' = "recover"
  /\ UNCHANGED <<object, shard, answer, cache, offset, group, err_locs, outputs, calls>>

(* Step 5: the missing shards of this chunk, divided by the locator; mulgf8  *)
(* writes the chunk of the output from the whole lane.  After the last chunk *)
(* reconstruct_leopard_impl copies them into the container.                  *)
Recover ==
  /\ pc = "recover"
  /\ LET end == ChunkEnd(WORK_SIZE8)
         Recovered(i) == Mulgf8(SubSeq(outputs[i], offset + 1, end), work[Lane(i)],
                                Modulus - err_locs[Lane(i)])
     IN IF AssertionFails THEN Panic /\ UNCHANGED <<shard, offset>>
        ELSE /\ outputs' = [i \in DOMAIN outputs |->
                  IF i \in Present THEN outputs[i]
                  ELSE SubSeq(outputs[i], 1, offset) \o Recovered(i)
                         \o SubSeq(outputs[i], end + 1, shape.cols)]
             /\ offset' = end
             /\ IF end < shape.cols
                THEN pc' = "load" /\ UNCHANGED <<shard, answer, work>>
                ELSE /\ pc' = "idle" /\ answer' = "ok" /\ work' = NoWork
                     /\ shard' = [i \in DOMAIN shard |->
                                    IF i \in Present THEN shard[i] ELSE outputs'[i]]
  /\ UNCHANGED <<object, cache, group, err_locs, calls>>

Init ==
  /\ dit4_mode \in Dit4Modes
  /\ pc = "idle" /\ object = <<>> /\ shard = <<>> /\ answer = "none"
  /\ cache = NoWork /\ work = NoWork /\ offset = 0 /\ group = 0
  /\ err_locs = <<>> /\ outputs = <<>> /\ calls = 0

Next ==
  /\ \/ \E s \in Shapes, seed \in Seeds, junk \in Junk : BeginEncode(s, seed, junk)
     \/ EncodeGroup
     \/ EncodeChunkEnd
     \/ Lose
     \/ BeginReconstruct
     \/ Load \/ DecodeIfft \/ DecodeDerivative \/ DecodeFft
     \/ Recover
  /\ UNCHANGED dit4_mode

Spec == Init /\ [][Next]_vars

(* ------------------------------- properties ------------------------------ *)

Phases == {"idle", "group", "fft", "load", "ifft", "derivative", "fft_decode", "recover"}
Answers == {"none", "ok", "panic", "assertion", "EmptyShard", "IncorrectShardSize",
            "TooFewShardsPresent", "TooManyShards"}

\* The values the variables range over: lanes of one length of field elements,
\* the phases of the two calls, a work area only while a call runs.
TypeOK ==
  /\ pc \in Phases /\ answer \in Answers
  /\ calls \in 0 .. MaxCalls /\ offset \in Nat /\ group \in Nat
  /\ \A i \in DOMAIN shard : shard[i] \in Seq(Element)
  /\ (pc = "idle") = (work = NoWork)
  /\ LET chunk == IF pc \in {"group", "fft"} THEN Driver.chunk_size ELSE WORK_SIZE8
     IN \A l \in DOMAIN work :
          work[l] \in Seq(Element) /\ Len(work[l]) = LessOf(shape.cols, chunk)
  /\ \A l \in DOMAIN err_locs : err_locs[l] \in Element

(* The code itself, see LeopardCode.                                         *)
Lagrange == [s \in DOMAIN EncodePlan["Direct"] |-> LagrangeLog(s)]

ParityLane(o, k) ==
  [c \in 1 .. o.shape.cols |->
     ParityElement(o.shape, Lagrange[o.shape][k],
                   [i \in 0 .. o.shape.d - 1 |-> DataLane(o, i)[c]])]

Codeword(o) ==
  [i \in Lanes(Total(o.shape)) |->
     IF i < o.shape.d THEN DataLane(o, i) ELSE ParityLane(o, i - o.shape.d)]

\* However the work area came to be (fresh and not initialised, or left by an
\* encoding of another shape), the columns that encode_with_tables has done so
\* far are those of the code: nothing stale is ever read.
ParityIsOfTheCode ==
  pc \in {"group", "fft"} \/ (pc = "idle" /\ answer = "ok") =>
    \A i \in DOMAIN shard :
      SubSeq(shard[i], 1, offset) = SubSeq(Codeword(object)[i], 1, offset)

\* The engine implements an erasure code: see ErasureCode.  A container that is
\* being encoded has no shards yet, one that is being reconstructed still has
\* those it came with.
Abstract == INSTANCE ErasureCode WITH
  Objects <- [shape : Shapes, seed : Seeds],
  DataShards <- LAMBDA o : o.shape.d,
  Encodable  <- LAMBDA o : Encodable(o.shape),
  Decodable  <- LAMBDA o : Decodable(o.shape),
  None   <- <<>>,
  object <- IF shard = <<>> \/ pc \in {"group", "fft"} THEN <<>> ELSE object,
  shards <- IF pc \in {"group", "fft"} THEN <<>> ELSE shard,
  answer <- IF answer \in {"none", "ok"} THEN answer ELSE "refused"

ImplementsErasureCode == Abstract!Spec

\* core/leopard_gf8/ops.rs: "debug_assert_eq!(input.len(), out.len());".  No call
\* of a debug build ends in that assertion, whatever the length of the shards.
AssertionsHold == answer # "assertion"
=============================================================================
