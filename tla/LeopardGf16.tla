---------------------------- MODULE LeopardGf16 ----------------------------
(* The Leopard engine for 16-bit elements (core/leopard_gf16): several        *)
(* threads encode and reconstruct at the same time.  They share one cache of  *)
(* decode plans; each keeps its own work area between its encodings; the      *)
(* chunks of one reconstruction are jobs of a thread pool, whose workers keep *)
(* a work area each for the length of the call.                               *)
(*                                                                            *)
(* A shard is a sequence of bytes, half a field element each: blocks of       *)
(* 2 * BLOCK bytes, the low halves of BLOCK elements before the high ones.    *)
EXTENDS LeopardCode, FiniteSets

CONSTANTS Threads,
          Workers,          \* of the thread pool, for one call
          Shapes,           \* [d, p, bytes]: data and parity shards, bytes in each
          LostSets(_),      \* the sets of shards a container of this shape may lose
          BLOCK,            \* elements of a block: 32 in the program
          WORK_SIZE16,      \* elements of a chunk
          CACHE_CAPACITY,   \* plans kept: 16 in the program
          MaxCalls          \* bound on the encodings of all threads

ASSUME BlocksAssumption ==
  /\ BLOCK \in Nat \ {0} /\ WORK_SIZE16 \in Nat \ {0}
  /\ WORK_SIZE16 % BLOCK = 0
  /\ CACHE_CAPACITY \in Nat \ {0}
  /\ MaxCalls \in Nat

\* with_options: no more shards than the field has elements.
ASSUME ShapesAssumption ==
  /\ Shapes \subseteq [d : Nat \ {0}, p : Nat \ {0}, bytes : Nat]
  /\ \A s \in Shapes : s.d + s.p <= Order

VARIABLES phase,       \* of each thread: "idle", "build" or "chunks"
          shape,       \* of the container of each thread
          shard,       \* the container: bytes for each shard, <<>> where absent
          answer,      \* to the last call of the thread
          flat_work,   \* FLAT_WORK16_CACHE of the thread: a work area or <<>>
          plan_cache,  \* CACHE of decode_plan_for: entries [key, rows], rows the plan
          held,        \* the plan of the running reconstruction
          jobs,        \* its chunks that are not done
          areas,       \* the work area of each worker in this call, or <<>>
          outputs,     \* the buffers that it writes
          calls        \* encodings so far

vars == <<phase, shape, shard, answer, flat_work, plan_cache, held, jobs, areas,
          outputs, calls>>

Lru == INSTANCE LruCache

Absent == <<>>
NoWork == <<>>
NoPlan == <<>>

Total(s) == s.d + s.p
Elements(s) == s.bytes \div 2
HalfOrder == 2^(Bitwidth \div 2)

(* The data shards that callers encode.                                      *)
DataBytes(s, i) ==
  [q \in 1 .. s.bytes |-> (5 * i + 3 * q + i * q + s.d) % HalfOrder]

(* ---------------------------- the byte layout ---------------------------- *)

(* Mutant: neighbouring bytes are paired, as in a little-endian word.        *)
NeighboursToWork(user) ==
  [e \in 1 .. Len(user) \div 2 |-> user[2 * e - 1] + HalfOrder * user[2 * e]]

(* user_bytes_to_work_u16 and back.                                          *)
user_bytes_to_work_u16(user) ==
  [e \in 1 .. Len(user) \div 2 |->
     LET base == 2 * BLOCK * ((e - 1) \div BLOCK)
         i == (e - 1) % BLOCK
     IN user[base + i + 1] + HalfOrder * user[base + BLOCK + i + 1]]

(* Mutant: the low half of an element is not cut off.                        *)
LowHalfWhole(elements) ==
  [q \in 1 .. 2 * Len(elements) |->
     LET i == (q - 1) % (2 * BLOCK)
         e == elements[BLOCK * ((q - 1) \div (2 * BLOCK)) + (i % BLOCK) + 1]
     IN IF i < BLOCK THEN e ELSE e \div HalfOrder]

work_u16_to_user_bytes(elements) ==
  [q \in 1 .. 2 * Len(elements) |->
     LET i == (q - 1) % (2 * BLOCK)
         e == elements[BLOCK * ((q - 1) \div (2 * BLOCK)) + (i % BLOCK) + 1]
     IN IF i < BLOCK THEN e % HalfOrder ELSE e \div HalfOrder]

ChunkEnd(s, from) == LessOf(from + WORK_SIZE16, Elements(s))
Chunks(s) == (Elements(s) + WORK_SIZE16 - 1) \div WORK_SIZE16
LaneLen(s) == LessOf(Elements(s), WORK_SIZE16)
ZeroWork(lanes, len) == [l \in Lanes(lanes) |-> Fill(len, 0)]

(* --------------------------- plans and transforms ------------------------ *)

(* validate_leopard_shard_len, build_leopard_gf16_encode_driver and the plans *)
(* of encode_with_tables16; what would be read past the tables is a panic.    *)
ShardLenFits(s) == s.bytes > 0 /\ s.bytes % (2 * BLOCK) = 0
EncodePlans(s) == GroupPlans(s.d, s.p, M(s))
Encodable(s) == ShardLenFits(s) /\ M(s) <= Modulus /\ PlansFit(EncodePlans(s))

(* build_leopard_gf16_decode_driver                                          *)
Decodable(s) == ShardLenFits(s) /\ M(s) <= Modulus /\ N(s) <= Modulus

(* dit4_at_16 and dit4_decode_at_16 look, group by group, whether a block has *)
(* four lanes left, and take pairs where it has not.                          *)
dit4_at_16        == "DirectSafe"
dit4_decode_at_16 == "DirectSafe"

EncodePlan16 ==
  [s \in {t \in Shapes : Encodable(t)} |->
     LET plans == EncodePlans(s)
     IN [ifft |-> [g \in DOMAIN plans.ifft |-> Planned(plans.ifft[g], dit4_at_16)],
         fft  |-> FftSteps(plans.fft, M(s), dit4_at_16)]]

(* ifft_dit_encoder16_with_plan: shards first, first+1, ... of the data into  *)
(* the lanes, the rest zeroed, and the inverse transform.                     *)
ifft_dit_encoder16(data, planned, lanes, first, from, to) ==
  LET loaded == [l \in DOMAIN lanes |->
        IF l < planned.plan.mtrunc THEN SubSeq(data[first + l], from + 1, to) ELSE lanes[l]]
  IN RunSteps("inverse", ZeroLanes(loaded, TailLanes(planned.plan)), planned.steps)

(* fft_dit16_with_plan and fft_dit_decode16_with_plan, on steps or on a plan. *)
fft_dit16(lanes, fft_steps) == RunSteps("forward", lanes, fft_steps)
fft_dit_decode16(lanes, plan) ==
  RunSteps("forward", lanes, FftSteps(plan, Cardinality(DOMAIN lanes), dit4_decode_at_16))

(* ifft_dit_decode16_with_plan: the first size columns of the lanes after the *)
(* input are zeroed, the butterflies take whole lanes.                        *)
ifft_dit_decode16(lanes, size, plan) ==
  RunSteps("inverse", Splice(lanes, ZeroLanes(View(lanes, size), TailLanes(plan))),
           IfftSteps(plan, plan.m, dit4_decode_at_16))

compute_formal_derivative16(lanes, n) == Derivative(lanes, n)

(* ------------------------------- encoding -------------------------------- *)

(* One chunk: the groups of m shards, the first in the lower lanes, the      *)
(* others in the upper lanes and added to the lower; then the transform that *)
(* leaves the parity in the lower lanes.                                     *)
EncodeChunk(s, data, area, from, to) ==
  LET m == M(s)
      plans == EncodePlan16[s]
      Into(g) == IF g = 1 THEN 0 ELSE m
      Put(into, v, u) ==
        [l \in DOMAIN v |-> IF l >= into /\ l < into + m THEN u[l - into]
                            ELSE IF l < m THEN LanePlus(u[l], v[l]) ELSE v[l]]
      Grouped(v, g) ==
        Put(Into(g), v, ifft_dit_encoder16(data, plans.ifft[g],
              [l \in Lanes(m) |-> v[l + Into(g)]], (g - 1) * m, from, to))
      group[g \in 0 .. Len(plans.ifft)] == IF g = 0 THEN area ELSE Grouped(group[g - 1], g)
      Parity(v) == Put(0, v, fft_dit16([l \in Lanes(m) |-> v[l]], plans.fft))
  IN Parity(group[Len(plans.ifft)])

(* encode_with_tables16 after its checks: the work area is zeroed, and the    *)
(* parity of each chunk goes out in the user's layout.                        *)
encode_with_tables16(s, data_bytes, area) ==
  LET data == [i \in Lanes(s.d) |-> user_bytes_to_work_u16(data_bytes[i])]
      From(k) == (k - 1) * WORK_SIZE16
      Size(k) == ChunkEnd(s, From(k)) - From(k)
      Written(parity, v, k) ==
        [area |-> v,
         parity |-> [r \in Lanes(s.p) |->
                       parity[r] \o work_u16_to_user_bytes(SubSeq(v[r], 1, Size(k)))]]
      Chunk(st, k) ==
        Written(st.parity, Splice(st.area, EncodeChunk(s, data, View(st.area, Size(k)),
                                                       From(k), ChunkEnd(s, From(k)))), k)
      chunk[k \in 0 .. Chunks(s)] ==
        IF k = 0 THEN [area   |-> ZeroLanes(area, DOMAIN area),
                       parity |-> [r \in Lanes(s.p) |-> <<>>]]
        ELSE Chunk(chunk[k - 1], k)
  IN chunk[Chunks(s)]

(* A call of encode on fresh buffers: it touches only its thread's state.    *)
Encode(t, s) ==
  LET Reusable == /\ flat_work[t] # NoWork
                  /\ DOMAIN flat_work[t] = Lanes(2 * M(s))
                  /\ Len(flat_work[t][0]) = LaneLen(s)
      area == IF Reusable THEN flat_work[t] ELSE ZeroWork(2 * M(s), LaneLen(s))
      data == [i \in Lanes(s.d) |-> DataBytes(s, i)]
  IN /\ phase[t] = "idle" /\ calls < MaxCalls
     /\ calls' = calls + 1
     /\ shape' = [shape EXCEPT ![t] = s]
     /\ IF Encodable(s)
        THEN \E encoded \in {encode_with_tables16(s, data, area)} :
               /\ flat_work' = [flat_work EXCEPT ![t] = encoded.area]
               /\ shard' = [shard EXCEPT ![t] =
                    [i \in Lanes(Total(s)) |->
                       IF i < s.d THEN data[i] ELSE encoded.parity[i - s.d]]]
               /\ answer' = [answer EXCEPT ![t] = "ok"]
        ELSE /\ shard' = [shard EXCEPT ![t] = <<>>]
             /\ answer' = [answer EXCEPT ![t] =
                  CASE ~ShardLenFits(s) -> "IncorrectShardSize"
                    [] M(s) > Modulus   -> "TooManyShards"
                    [] OTHER            -> "panic"]
             /\ UNCHANGED flat_work
  /\ outputs' = [outputs EXCEPT ![t] = <<>>]
  /\ UNCHANGED <<phase, plan_cache, held, jobs, areas>>

Present(t) == {i \in DOMAIN shard[t] : shard[t][i] # Absent}

(* Shards are lost between calls.                                            *)
Lose(t) ==
  /\ phase[t] = "idle" /\ answer[t] = "ok" /\ outputs[t] = <<>>
  /\ \E lost \in LostSets(shape[t]) :
       shard' = [shard EXCEPT ![t] = [i \in DOMAIN @ |-> IF i \in lost THEN Absent ELSE @[i]]]
  /\ answer' = [answer EXCEPT ![t] = "none"]
  /\ UNCHANGED <<phase, shape, flat_work, plan_cache, held, jobs, areas, outputs, calls>>

(* ---------------------------- reconstruction ----------------------------- *)

(* The lane of a shard: parity first, then its padding, then the data.       *)
Lane(s, i) == IF i < s.d THEN M(s) + i ELSE i - s.d

(* compute_error_locs16: the missing shards and the padding of the parity.   *)
compute_error_locs16(s, present) ==
  compute_error_locs({Lane(s, i) : i \in Lanes(Total(s)) \ present} \union s.p .. M(s) - 1,
                     M(s) + s.d)

(* build_fft_dit16_plan and build_ifft_decode_dit16_plan on the whole table.  *)
build_fft_dit16_plan(mtrunc, m) == build_fft_plan(mtrunc, m)
build_ifft_decode_dit16_plan(mtrunc, m) == build_ifft_decode_plan(mtrunc, m)

(* build_decode_plan                                                         *)
build_decode_plan(s, present) ==
  LET input_count == M(s) + Max({0} \union {i + 1 : i \in {j \in present : j < s.d}})
  IN [err_locs    |-> compute_error_locs16(s, present),
      input_count |-> input_count,
      ifft_plan   |-> build_ifft_decode_dit16_plan(input_count, N(s)),
      fft_plan    |-> build_fft_dit16_plan(M(s) + s.d, N(s))]

(* Mutant: two codes with as many shards share their plans.                  *)
PatternKey(s, present) == <<Total(s), present>>

(* The key of a plan.  The shard size is not part of it.                     *)
PlanKey(s, present) == <<s.d, s.p, present>>

(* reconstruct_with_tables16 goes on with this plan: the chunks become jobs. *)
Go(t, decode_plan) ==
  /\ phase' = [phase EXCEPT ![t] = "chunks"]
  /\ held' = [held EXCEPT ![t] = decode_plan]
  /\ jobs' = [jobs EXCEPT ![t] = {k \in 0 .. Elements(shape[t]) - 1 : k % WORK_SIZE16 = 0}]

(* reconstruct_leopard_impl and reconstruct_with_tables16 up to the lookup of *)
(* the plan under the lock of the cache.                                      *)
BeginReconstruct(t) ==
  LET s == shape[t]
      present == Present(t)
      key == PlanKey(s, present)
      refusal == CASE present = {}                -> "EmptyShard"
                   [] present = DOMAIN shard[t]   -> "ok"
                   [] Cardinality(present) < s.d  -> "TooFewShardsPresent"
                   [] ~Decodable(s)               -> "TooManyShards"
                   [] OTHER                       -> "none"
  IN /\ phase[t] = "idle" /\ answer[t] = "none" /\ shard[t] # <<>>
     /\ IF refusal # "none"
        THEN /\ answer' = [answer EXCEPT ![t] = refusal]
             /\ UNCHANGED <<phase, plan_cache, held, jobs, outputs>>
        ELSE /\ outputs' = [outputs EXCEPT ![t] =
                              [i \in DOMAIN shard[t] |-> Fill(s.bytes, 0)]]
             /\ IF Lru!Holds(plan_cache, key)
                THEN /\ plan_cache' = Lru!Touch(plan_cache, key)
                     /\ Go(t, Lru!Lookup(plan_cache, key))
                ELSE /\ phase' = [phase EXCEPT ![t] = "build"]
                     /\ UNCHANGED <<plan_cache, held, jobs>>
             /\ UNCHANGED answer
  /\ UNCHANGED <<shape, shard, flat_work, areas, calls>>

(* decode_plan_for after a miss: the plan is built outside the lock, and      *)
(* inserted under it, whatever other threads inserted meanwhile.              *)
BuildAndInsert(t) ==
  /\ phase[t] = "build"
  /\ \E built \in {build_decode_plan(shape[t], Present(t))} :
       /\ plan_cache' =
            Lru!Insert(plan_cache, [key |-> PlanKey(shape[t], Present(t)), rows |-> built],
                       CACHE_CAPACITY)
       /\ Go(t, built)
  /\ UNCHANGED <<shape, shard, answer, flat_work, areas, outputs, calls>>

(* Mutant: lanes that nothing was received for keep the last chunk's.        *)
LoadOverLast(s, data, err_locs, area, from, to) ==
  Splice(area, [l \in DOMAIN area |->
    LET i == IF l >= M(s) THEN l - M(s) ELSE s.d + l
    IN IF l < M(s) + s.d /\ ~(l \in s.p .. M(s) - 1) /\ data[i] # Absent
       THEN LaneMul(SubSeq(data[i], from + 1, to), err_locs[l])
       ELSE View(area, to - from)[l]])

(* Step 1 of compute_reconstruct_chunk: what was received times the locator. *)
LoadChunk(s, data, err_locs, area, from, to) ==
  Splice(area, [l \in DOMAIN area |->
    LET i == IF l >= M(s) THEN l - M(s) ELSE s.d + l
    IN IF l < M(s) + s.d /\ ~(l \in s.p .. M(s) - 1) /\ data[i] # Absent
       THEN LaneMul(SubSeq(data[i], from + 1, to), err_locs[l])
       ELSE Fill(to - from, 0)])

(* compute_reconstruct_chunk: the work area after its four steps.            *)
compute_reconstruct_chunk(s, data, decode_plan, area, from, to) ==
  LET Area == [Lanes(N(s)) -> Seq(Element)]
      fft[v \in Area] == fft_dit_decode16(v, decode_plan.fft_plan)
      derivative[v \in Area] == fft[compute_formal_derivative16(v, N(s))]
      ifft[v \in Area] == derivative[ifft_dit_decode16(v, to - from, decode_plan.ifft_plan)]
  IN ifft[LoadChunk(s, data, decode_plan.err_locs, area, from, to)]

(* One job of reconstruct_chunks_parallel: a worker, with the work area that  *)
(* its last job of this call left or with a new one, writes the missing       *)
(* shards' bytes of this chunk.  A call of one chunk has one job; without     *)
(* std one worker takes the chunks in their order.                            *)
ChunkJob(t, worker, from) ==
  LET s == shape[t]
      to == ChunkEnd(s, from)
      area == IF areas[t][worker] = NoWork THEN ZeroWork(N(s), LaneLen(s)) ELSE areas[t][worker]
      data == [i \in DOMAIN shard[t] |->
                 IF shard[t][i] = Absent THEN Absent ELSE user_bytes_to_work_u16(shard[t][i])]
  IN /\ phase[t] = "chunks" /\ from \in jobs[t]
     /\ jobs' = [jobs EXCEPT ![t] = @ \ {from}]
     /\ \E left \in {compute_reconstruct_chunk(s, data, held[t], area, from, to)} :
          /\ areas' = [areas EXCEPT ![t][worker] = left]
          /\ outputs' = [outputs EXCEPT ![t] = [i \in DOMAIN @ |->
               IF i \in Present(t) THEN @[i]
               ELSE SubSeq(@[i], 1, 2 * from)
                      \o work_u16_to_user_bytes(
                           LaneMul(SubSeq(left[Lane(s, i)], 1, to - from),
                                   Modulus - held[t].err_locs[Lane(s, i)]))
                      \o SubSeq(@[i], 2 * to + 1, s.bytes)]]
  /\ UNCHANGED <<phase, shape, shard, answer, flat_work, plan_cache, held, calls>>

(* After the last job the call copies the missing shards into the container. *)
Finish(t) ==
  /\ phase[t] = "chunks" /\ jobs[t] = {}
  /\ shard' = [shard EXCEPT ![t] = [i \in DOMAIN @ |->
                 IF i \in Present(t) THEN @[i] ELSE outputs[t][i]]]
  /\ phase' = [phase EXCEPT ![t] = "idle"]
  /\ answer' = [answer EXCEPT ![t] = "ok"]
  /\ held' = [held EXCEPT ![t] = NoPlan]
  /\ areas' = [areas EXCEPT ![t] = [w \in Workers |-> NoWork]]
  /\ UNCHANGED <<shape, flat_work, plan_cache, jobs, outputs, calls>>

Init ==
  /\ phase = [t \in Threads |-> "idle"] /\ shape = [t \in Threads |-> <<>>]
  /\ shard = [t \in Threads |-> <<>>] /\ answer = [t \in Threads |-> "none"]
  /\ flat_work = [t \in Threads |-> NoWork] /\ plan_cache = <<>>
  /\ held = [t \in Threads |-> NoPlan] /\ jobs = [t \in Threads |-> {}]
  /\ areas = [t \in Threads |-> [w \in Workers |-> NoWork]]
  /\ outputs = [t \in Threads |-> <<>>] /\ calls = 0

Next == \E t \in Threads :
  \/ \E s \in Shapes : Encode(t, s)
  \/ Lose(t)
  \/ BeginReconstruct(t)
  \/ BuildAndInsert(t)
  \/ \E worker \in Workers, from \in jobs[t] : ChunkJob(t, worker, from)
  \/ Finish(t)

Spec == Init /\ [][Next]_vars

(* ------------------------------- properties ------------------------------ *)

Answers == {"none", "ok", "panic", "EmptyShard", "IncorrectShardSize",
            "TooFewShardsPresent", "TooManyShards"}

(* The work areas of the encoder and of the decoder, as flat_work and the     *)
(* workers keep them: as many lanes as the plans name, of a chunk each.       *)
WorkAreas(s) == [Lanes(2 * M(s)) -> [1 .. LaneLen(s) -> Element]]
CallAreas(s) == [Lanes(N(s)) -> [1 .. LaneLen(s) -> Element]]

\* The values the variables range over.  A plan, chunks and the workers' areas are
\* there only while a call is running, and there are never more plans than the
\* cache may keep.  What a thread keeps between encodings is a whole area of some
\* code, and what a worker keeps between chunks one of the call's code, whichever
\* plans ran over it.
TypeOK ==
  /\ calls \in 0 .. MaxCalls
  /\ Len(plan_cache) <= CACHE_CAPACITY
  /\ \A t \in Threads :
       /\ phase[t] \in {"idle", "build", "chunks"} /\ answer[t] \in Answers
       /\ \A i \in DOMAIN shard[t] : shard[t][i] \in Seq(0 .. HalfOrder - 1)
       /\ (held[t] # NoPlan) = (phase[t] = "chunks")
       /\ jobs[t] # {} => phase[t] = "chunks"
       /\ \A i \in DOMAIN outputs[t] : Len(outputs[t][i]) = shape[t].bytes
       /\ flat_work[t] # NoWork => \E s \in Shapes : flat_work[t] \in WorkAreas(s)
       /\ \A w \in Workers :
            areas[t][w] # NoWork => phase[t] = "chunks" /\ areas[t][w] \in CallAreas(shape[t])

(* The code itself, see LeopardCode, on the e-th element of each shard.      *)
Lagrange == [s \in DOMAIN EncodePlan16 |-> LagrangeLog(s)]
ElementOf(bytes, e) ==
  LET low == e + BLOCK * ((e - 1) \div BLOCK)
  IN bytes[low] + HalfOrder * bytes[low + BLOCK]
Code ==
  [s \in DOMAIN EncodePlan16 |-> [i \in Lanes(Total(s)) |-> [e \in 1 .. Elements(s) |->
     IF i < s.d THEN ElementOf(DataBytes(s, i), e)
     ELSE ParityElement(s, Lagrange[s][i - s.d],
                        [j \in 0 .. s.d - 1 |-> ElementOf(DataBytes(s, j), e)])]]]
IsOfTheCode(s, i, bytes, e) == ElementOf(bytes, e) = Code[s][i][e]

(* What the transforms owe, chunk by chunk, on a work area fresh from zero:   *)
(* the parity of the code, and from d of its shards or more all the others.   *)
\* Nothing here is about threads, bytes or the work area of an earlier chunk.
ChunkStarts(s) == {k \in 0 .. Elements(s) - 1 : k % WORK_SIZE16 = 0}
EncodesTheCode(s) ==
  \A from \in ChunkStarts(s) :
    LET size == ChunkEnd(s, from) - from
        work == EncodeChunk(s, [i \in Lanes(s.d) |-> Code[s][i]], ZeroWork(2 * M(s), size),
                            from, ChunkEnd(s, from))
    IN \A r \in Lanes(s.p) : \A c \in 1 .. size : work[r][c] = Code[s][s.d + r][from + c]
DecodesTheCode(s) ==
  \A present \in SUBSET Lanes(Total(s)) : Cardinality(present) >= s.d =>
    \A from \in ChunkStarts(s) :
      LET size == ChunkEnd(s, from) - from
          plan == build_decode_plan(s, present)
          data == [i \in Lanes(Total(s)) |-> IF i \in present THEN Code[s][i] ELSE Absent]
          work == compute_reconstruct_chunk(s, data, plan, ZeroWork(N(s), LaneLen(s)),
                                            from, ChunkEnd(s, from))
      IN \A i \in Lanes(Total(s)) \ present : \A c \in 1 .. size :
           LaneMul(SubSeq(work[Lane(s, i)], 1, size), Modulus - plan.err_locs[Lane(s, i)])[c]
             = Code[s][i][from + c]
TransformsComputeTheCode ==
  \A s \in Shapes : Encodable(s) => EncodesTheCode(s) /\ (Decodable(s) => DecodesTheCode(s))

\* Whatever work area the thread kept from its last encoding, and however the
\* bytes pair up into elements, the shards that encode_with_tables16 leaves are
\* those of the code; so are those that a reconstruction leaves.
ParityIsOfTheCode ==
  \A t \in Threads : answer[t] = "ok" =>
    \A i \in DOMAIN shard[t] : \A e \in 1 .. Elements(shape[t]) :
      IsOfTheCode(shape[t], i, shard[t][i], e)

\* Two threads may miss the same plan at once, a plan may be evicted and built
\* again, calls with shards of other sizes use it: the plan that a call goes on
\* with is the one it would have built itself.
PlanIsOfTheCall ==
  \A t \in Threads : held[t] # NoPlan =>
    held[t] = build_decode_plan(shape[t], Present(t))

\* In whatever order the chunks are done, by whichever workers with what their
\* last job left in their work area, the chunks done so far of every missing
\* shard are those of the code.
RecoveredIsOfTheCode ==
  \A t \in Threads : phase[t] = "chunks" =>
    \A i \in DOMAIN shard[t] \ Present(t) : \A e \in 1 .. Elements(shape[t]) :
      (e - 1) - ((e - 1) % WORK_SIZE16) \notin jobs[t] =>
        IsOfTheCode(shape[t], i, outputs[t][i], e)
=============================================================================
