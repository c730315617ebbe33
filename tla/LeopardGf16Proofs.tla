--------------------------- MODULE LeopardGf16Proofs ---------------------------
(***************************************************************************)
(* For every number of threads and workers, every set of codes and shard      *)
(* sizes, every field, size of block and of chunk, and every capacity: the    *)
(* cache of decode plans that the threads share never hands a reconstruction  *)
(* a plan other than its own; the variables keep their types; and whatever    *)
(* the work areas were used for before, in whatever order the chunks are      *)
(* done, the shards are those of the code, if the transforms compute the code *)
(* on a fresh work area (TransformsComputeTheCode).                           *)
(***************************************************************************)
EXTENDS LeopardGf16, SequenceTheorems, FiniteSetTheorems, WellFoundedInduction, TLAPS

\* The entries that some container could have brought into the cache.
PlanEntries ==
  {[key |-> PlanKey(s, present), rows |-> build_decode_plan(s, present)] :
     s \in Shapes, present \in SUBSET Int}

CacheIsOfPlans == plan_cache \in Seq(PlanEntries) /\ Len(plan_cache) <= CACHE_CAPACITY

\* A container has the shards of its shape, and a call runs on a container.
ContainersHaveShapes ==
  \A t \in Threads :
    /\ DOMAIN shard[t] \subseteq Int
    /\ shard[t] # <<>> => shape[t] \in Shapes
    /\ phase[t] # "idle" => shard[t] # <<>>
    /\ held[t] # NoPlan => phase[t] = "chunks"

PerThread ==
  /\ DOMAIN phase = Threads /\ DOMAIN shape = Threads /\ DOMAIN shard = Threads
  /\ DOMAIN held = Threads

PlanInv == PerThread /\ CacheIsOfPlans /\ ContainersHaveShapes /\ PlanIsOfTheCall

----------------------------------------------------------------------------
(* The cache.                                                                *)

\* Removing an entry leaves entries, and one less.
LEMMA WithoutKeeps ==
  ASSUME NEW S, NEW cache \in Seq(S), NEW i \in 1 .. Len(cache)
  PROVE  Lru!Without(cache, i) \in Seq(S) /\ Len(Lru!Without(cache, i)) + 1 = Len(cache)
<1> DEFINE front == SubSeq(cache, 1, i - 1)
           back  == SubSeq(cache, i + 1, Len(cache))
<1>1. front \in Seq(S) /\ Len(front) = i - 1
  BY SubSeqProperties
<1>2. back \in Seq(S) /\ Len(back) = Len(cache) - i
  BY SubSeqProperties
<1>3. Lru!Without(cache, i) = front \o back
  BY DEF Lru!Without
<1>4. Len(cache) \in Nat
  BY LenProperties
<1> HIDE DEF front, back
<1>5. front \o back \in Seq(S) /\ Len(front \o back) = Len(front) + Len(back)
  BY <1>1, <1>2, ConcatProperties
<1>6. Len(front) + Len(back) + 1 = Len(cache)
  BY <1>1, <1>2, <1>4
<1> QED
  BY <1>3, <1>5, <1>6

LEMMA PositionFound ==
  ASSUME NEW S, NEW cache \in Seq(S), NEW key, Lru!Holds(cache, key)
  PROVE  /\ Lru!Position(cache, key) \in 1 .. Len(cache)
         /\ cache[Lru!Position(cache, key)] \in S
         /\ cache[Lru!Position(cache, key)].key = key
<1>1. DOMAIN cache = 1 .. Len(cache)
  BY LenProperties
<1>2. /\ Lru!Position(cache, key) \in DOMAIN cache
      /\ cache[Lru!Position(cache, key)].key = key
  BY DEF Lru!Holds, Lru!Position
<1> QED
  BY <1>1, <1>2, ElementOfSeq

\* get
LEMMA TouchKeeps ==
  ASSUME NEW S, NEW cache \in Seq(S), NEW key, Lru!Holds(cache, key)
  PROVE  Lru!Touch(cache, key) \in Seq(S) /\ Len(Lru!Touch(cache, key)) = Len(cache)
<1> DEFINE i == Lru!Position(cache, key)
           others == Lru!Without(cache, i)
<1>1. i \in 1 .. Len(cache) /\ cache[i] \in S
  BY PositionFound
<1>2. others \in Seq(S) /\ Len(others) + 1 = Len(cache)
  BY <1>1, WithoutKeeps
<1>3. Lru!Touch(cache, key) = Append(others, cache[i])
  BY DEF Lru!Touch
<1> HIDE DEF others, i
<1> QED
  BY <1>1, <1>2, <1>3, AppendProperties

\* insert
LEMMA InsertKeeps ==
  ASSUME NEW S, NEW cache \in Seq(S), NEW entry \in S, NEW capacity \in Nat,
         Len(cache) <= capacity
  PROVE  /\ Lru!Insert(cache, entry, capacity) \in Seq(S)
         /\ Len(Lru!Insert(cache, entry, capacity)) <= capacity
<1> DEFINE grown == Lru!Replace(cache, entry)
           i == Lru!Position(cache, entry.key)
           others == Lru!Without(cache, i)
<1>1. grown \in Seq(S) /\ Len(grown) <= Len(cache) + 1
  <2>1. CASE Lru!Holds(cache, entry.key)
    <3>1. i \in 1 .. Len(cache)
      BY <2>1, PositionFound
    <3>2. others \in Seq(S) /\ Len(others) + 1 = Len(cache)
      BY <3>1, WithoutKeeps
    <3>3. grown = Append(others, entry)
      BY <2>1 DEF Lru!Replace
    <3> HIDE DEF others, i, grown
    <3> QED
      BY <3>2, <3>3, AppendProperties, LenProperties
  <2>2. CASE ~Lru!Holds(cache, entry.key)
    <3>1. grown = Append(cache, entry)
      BY <2>2 DEF Lru!Replace
    <3> QED
      BY <3>1, AppendProperties, LenProperties
  <2> QED
    BY <2>1, <2>2
<1>2. Lru!Insert(cache, entry, capacity) = IF Len(grown) > capacity THEN Tail(grown) ELSE grown
  BY DEF Lru!Insert
<1> HIDE DEF grown
<1>3. Len(grown) \in Nat /\ Len(cache) \in Nat
  BY <1>1, LenProperties
<1>4. CASE Len(grown) > capacity
  <2>1. grown # <<>>
    BY <1>3, <1>4
  <2>2. Tail(grown) \in Seq(S) /\ Len(Tail(grown)) = Len(grown) - 1
    BY <1>1, <2>1, HeadTailProperties
  <2> QED
    BY <1>1, <1>2, <1>3, <1>4, <2>2
<1>5. CASE ~(Len(grown) > capacity)
  BY <1>1, <1>2, <1>3, <1>5
<1> QED
  BY <1>4, <1>5

----------------------------------------------------------------------------
(* The plans.                                                                *)

\* The key says all that a plan depends on: the size of the shards is no part
\* of it.
LEMMA KeyDeterminesPlan ==
  ASSUME NEW s \in Shapes, NEW r \in Shapes, NEW present, NEW others,
         PlanKey(s, present) = PlanKey(r, others)
  PROVE  build_decode_plan(s, present) = build_decode_plan(r, others)
<1>1. s.d = r.d /\ s.p = r.p /\ present = others
  BY DEF PlanKey
<1>2. M(s) = M(r)
  BY <1>1 DEF M
<1>3. N(s) = N(r) /\ Total(s) = Total(r)
  BY <1>1, <1>2 DEF N, Total
<1>4. \A i : Lane(s, i) = Lane(r, i)
  BY <1>1, <1>2 DEF Lane
<1>5. compute_error_locs16(s, present) = compute_error_locs16(r, others)
  <2>1. {Lane(s, i) : i \in Lanes(Total(s)) \ present}
          = {Lane(r, i) : i \in Lanes(Total(r)) \ others}
    BY <1>1, <1>3, <1>4
  <2> QED
    BY <1>1, <1>2, <2>1 DEF compute_error_locs16
<1>6. M(s) + Max({0} \union {i + 1 : i \in {j \in present : j < s.d}})
        = M(r) + Max({0} \union {i + 1 : i \in {j \in others : j < r.d}})
  BY <1>1, <1>2
<1> QED
  BY <1>1, <1>2, <1>3, <1>5, <1>6 DEF build_decode_plan

\* What is found under the key of a call is the plan that it would build.
LEMMA FoundIsOwn ==
  ASSUME NEW cache \in Seq(PlanEntries), NEW s \in Shapes, NEW present,
         Lru!Holds(cache, PlanKey(s, present))
  PROVE  Lru!Lookup(cache, PlanKey(s, present)) = build_decode_plan(s, present)
<1> DEFINE key == PlanKey(s, present)
           entry == cache[Lru!Position(cache, key)]
<1>1. entry \in PlanEntries /\ entry.key = key
  BY PositionFound
<1>2. Lru!Lookup(cache, key) = entry.rows
  BY DEF Lru!Lookup
<1> HIDE DEF entry, key
<1>3. PICK r \in Shapes, others \in SUBSET Int :
        entry = [key |-> PlanKey(r, others), rows |-> build_decode_plan(r, others)]
  BY <1>1 DEF PlanEntries
<1>4. PlanKey(s, present) = PlanKey(r, others)
  BY <1>1, <1>3 DEF key
<1>5. build_decode_plan(s, present) = build_decode_plan(r, others)
  BY <1>4, KeyDeterminesPlan
<1> QED
  BY <1>2, <1>3, <1>5 DEF key

----------------------------------------------------------------------------
(* Every step preserves the invariant.                                       *)

LEMMA PlanInit == Init => PlanInv
<1> SUFFICES ASSUME Init PROVE PlanInv
  OBVIOUS
<1>1. PerThread
  BY DEF Init, PerThread
<1>2. CacheIsOfPlans
  BY BlocksAssumption, EmptySeq DEF Init, CacheIsOfPlans
<1>3. ContainersHaveShapes
  BY DEF Init, ContainersHaveShapes
<1>4. PlanIsOfTheCall
  BY DEF Init, PlanIsOfTheCall
<1> QED
  BY <1>1, <1>2, <1>3, <1>4 DEF PlanInv

\* Steps that leave the cache alone.
LEMMA CacheKept ==
  ASSUME PlanInv, plan_cache' = plan_cache
  PROVE  CacheIsOfPlans'
BY DEF PlanInv, CacheIsOfPlans

\* A thread that no step of which touches its call keeps the plan of its call.
Untouched(u) ==
  /\ phase'[u] = phase[u] /\ shape'[u] = shape[u] /\ shard'[u] = shard[u]
  /\ held'[u] = held[u]

ThreadIsWell(u) ==
  /\ DOMAIN shard[u] \subseteq Int
  /\ shard[u] # <<>> => shape[u] \in Shapes
  /\ phase[u] # "idle" => shard[u] # <<>>
  /\ held[u] # NoPlan => phase[u] = "chunks"
  /\ held[u] # NoPlan => held[u] = build_decode_plan(shape[u], Present(u))

LEMMA AllAreWell ==
  ContainersHaveShapes /\ PlanIsOfTheCall <=> \A u \in Threads : ThreadIsWell(u)
BY DEF ContainersHaveShapes, PlanIsOfTheCall, ThreadIsWell

LEMMA UntouchedIsWell ==
  ASSUME NEW u \in Threads, ThreadIsWell(u), Untouched(u)
  PROVE  ThreadIsWell(u)'
<1>1. Present(u)' = Present(u)
  BY DEF Present, Untouched
<1> QED
  BY <1>1 DEF ThreadIsWell, Untouched

\* A step of one thread keeps the invariant if it keeps that thread's part of it.
LEMMA OneThread ==
  ASSUME PlanInv, NEW t \in Threads, PerThread', CacheIsOfPlans', ThreadIsWell(t)',
         \A u \in Threads \ {t} : Untouched(u)
  PROVE  PlanInv'
<1>1. \A u \in Threads : ThreadIsWell(u)
  BY AllAreWell DEF PlanInv
<1>2. \A u \in Threads : ThreadIsWell(u)'
  BY <1>1, UntouchedIsWell
<1>3. (ContainersHaveShapes /\ PlanIsOfTheCall)'
  BY <1>2 DEF ContainersHaveShapes, PlanIsOfTheCall, ThreadIsWell
<1> QED
  BY <1>3 DEF PlanInv

LEMMA EncodeKeeps ==
  ASSUME PlanInv, NEW t \in Threads, NEW s \in Shapes, Encode(t, s)
  PROVE  PlanInv'
<1>1. /\ phase[t] = "idle" /\ phase' = phase /\ held' = held /\ plan_cache' = plan_cache
      /\ shape' = [shape EXCEPT ![t] = s]
  BY DEF Encode
<1>2. PICK shards : shard' = [shard EXCEPT ![t] = shards] /\ DOMAIN shards \subseteq Int
  <2>1. CASE Encodable(s)
    <3> DEFINE data == [i \in Lanes(s.d) |-> DataBytes(s, i)]
               Shards(encoded) ==
                 [i \in Lanes(Total(s)) |-> IF i < s.d THEN data[i] ELSE encoded.parity[i - s.d]]
    <3>1. \E encoded : shard' = [shard EXCEPT ![t] = Shards(encoded)]
      BY <2>1, Zenon DEF Encode
    <3>2. \A encoded : DOMAIN Shards(encoded) \subseteq Int
      BY DEF Lanes
    <3> HIDE DEF Shards
    <3> QED
      BY <3>1, <3>2
  <2>2. CASE ~Encodable(s)
    <3>1. shard' = [shard EXCEPT ![t] = <<>>]
      BY <2>2 DEF Encode
    <3>2. DOMAIN <<>> \subseteq Int
      OBVIOUS
    <3> DEFINE none == <<>>
    <3>3. shard' = [shard EXCEPT ![t] = none] /\ DOMAIN none \subseteq Int
      BY <3>1, <3>2
    <3> HIDE DEF none
    <3> QED
      BY <3>3
  <2> QED
    BY <2>1, <2>2
<1>3. PerThread'
  BY <1>1, <1>2 DEF PlanInv, PerThread
<1>4. CacheIsOfPlans'
  BY <1>1, CacheKept
<1>5. \A u \in Threads \ {t} : Untouched(u)
  BY <1>1, <1>2 DEF PlanInv, PerThread, Untouched
<1>6. ThreadIsWell(t)'
  <2>1. shard'[t] = shards /\ shape'[t] = s /\ phase'[t] = "idle"
    BY <1>1, <1>2 DEF PlanInv, PerThread
  <2>2. held'[t] = NoPlan
    BY <1>1 DEF PlanInv, ContainersHaveShapes
  <2> QED
    BY <1>2, <2>1, <2>2 DEF ThreadIsWell
<1> QED
  BY <1>3, <1>4, <1>5, <1>6, OneThread

LEMMA LoseKeeps ==
  ASSUME PlanInv, NEW t \in Threads, Lose(t)
  PROVE  PlanInv'
<1>1. /\ phase[t] = "idle" /\ phase' = phase /\ held' = held /\ plan_cache' = plan_cache
      /\ shape' = shape
  BY DEF Lose
<1>2. PICK lost : shard' = [shard EXCEPT ![t] = [i \in DOMAIN shard[t] |->
                              IF i \in lost THEN Absent ELSE shard[t][i]]]
  BY DEF Lose, PlanInv, PerThread
<1>3. PerThread'
  BY <1>1, <1>2 DEF PlanInv, PerThread
<1>4. CacheIsOfPlans'
  BY <1>1, CacheKept
<1>5. \A u \in Threads \ {t} : Untouched(u)
  BY <1>1, <1>2 DEF PlanInv, PerThread, Untouched
<1>6. ThreadIsWell(t)'
  <2>1. /\ DOMAIN shard'[t] = DOMAIN shard[t]
        /\ shard[t] = <<>> => shard'[t] = <<>>
    BY <1>2 DEF PlanInv, PerThread
  <2>2. held'[t] = NoPlan /\ phase'[t] = "idle" /\ shape'[t] = shape[t]
    BY <1>1 DEF PlanInv, ContainersHaveShapes
  <2> QED
    BY <2>1, <2>2 DEF ThreadIsWell, PlanInv, ContainersHaveShapes
<1> QED
  BY <1>3, <1>4, <1>5, <1>6, OneThread

\* A call that goes on with its own plan.
LEMMA GoIsWell ==
  ASSUME PlanInv, NEW t \in Threads, shape' = shape, shard' = shard, shard[t] # <<>>,
         Go(t, build_decode_plan(shape[t], Present(t)))
  PROVE  PerThread' /\ ThreadIsWell(t)' /\ \A u \in Threads \ {t} : Untouched(u)
<1>1. /\ phase' = [phase EXCEPT ![t] = "chunks"]
      /\ held' = [held EXCEPT ![t] = build_decode_plan(shape[t], Present(t))]
  BY DEF Go
<1>2. PerThread'
  BY <1>1 DEF PlanInv, PerThread
<1>3. phase'[t] = "chunks" /\ held'[t] = build_decode_plan(shape[t], Present(t))
  BY <1>1 DEF PlanInv, PerThread
<1>4. Present(t)' = Present(t)
  BY DEF Present
<1>5. ThreadIsWell(t)'
  BY <1>3, <1>4 DEF ThreadIsWell, PlanInv, ContainersHaveShapes
<1>6. \A u \in Threads \ {t} : Untouched(u)
  BY <1>1 DEF PlanInv, PerThread, Untouched
<1> QED
  BY <1>2, <1>5, <1>6

\* The plan of a hit may be one that another thread built, for shards of another
\* size.
LEMMA BeginReconstructKeeps ==
  ASSUME PlanInv, NEW t \in Threads, BeginReconstruct(t)
  PROVE  PlanInv'
<1> DEFINE key == PlanKey(shape[t], Present(t))
<1>1. shape' = shape /\ shard' = shard /\ shard[t] # <<>>
  BY DEF BeginReconstruct
<1>2. shape[t] \in Shapes
  BY <1>1 DEF PlanInv, ContainersHaveShapes
<1>3. \/ UNCHANGED <<phase, plan_cache, held>>
      \/ /\ Lru!Holds(plan_cache, key)
         /\ plan_cache' = Lru!Touch(plan_cache, key)
         /\ Go(t, Lru!Lookup(plan_cache, key))
      \/ /\ phase[t] = "idle" /\ phase' = [phase EXCEPT ![t] = "build"]
         /\ UNCHANGED <<plan_cache, held>>
  BY Zenon DEF BeginReconstruct
<1> HIDE DEF key
<1>4. \A u \in Threads : ThreadIsWell(u)
  BY AllAreWell DEF PlanInv
<1>5. CASE UNCHANGED <<phase, plan_cache, held>>
  <2>1. \A u \in Threads : Untouched(u)
    BY <1>1, <1>5 DEF Untouched
  <2>2. ThreadIsWell(t)'
    BY <1>4, <2>1, UntouchedIsWell
  <2>3. PerThread'
    BY <1>1, <1>5 DEF PlanInv, PerThread
  <2> QED
    BY <1>5, <2>1, <2>2, <2>3, CacheKept, OneThread
<1>6. CASE /\ Lru!Holds(plan_cache, key)
           /\ plan_cache' = Lru!Touch(plan_cache, key)
           /\ Go(t, Lru!Lookup(plan_cache, key))
  <2>1. Lru!Lookup(plan_cache, key) = build_decode_plan(shape[t], Present(t))
    BY <1>2, <1>6, FoundIsOwn DEF PlanInv, CacheIsOfPlans, key
  <2>2. PerThread' /\ ThreadIsWell(t)' /\ \A u \in Threads \ {t} : Untouched(u)
    BY <1>1, <1>6, <2>1, GoIsWell
  <2>3. CacheIsOfPlans'
    BY <1>6, TouchKeeps DEF PlanInv, CacheIsOfPlans
  <2> QED
    BY <2>2, <2>3, OneThread
<1>7. CASE /\ phase[t] = "idle" /\ phase' = [phase EXCEPT ![t] = "build"]
           /\ UNCHANGED <<plan_cache, held>>
  <2>1. PerThread'
    BY <1>1, <1>7 DEF PlanInv, PerThread
  <2>2. \A u \in Threads \ {t} : Untouched(u)
    BY <1>1, <1>7 DEF PlanInv, PerThread, Untouched
  <2>3. held'[t] = NoPlan
    BY <1>7 DEF PlanInv, ContainersHaveShapes
  <2>4. ThreadIsWell(t)'
    BY <1>1, <1>4, <2>3 DEF ThreadIsWell
  <2> QED
    BY <1>7, <2>1, <2>2, <2>4, CacheKept, OneThread
<1> QED
  BY <1>3, <1>5, <1>6, <1>7

\* The plan is built while other threads may use and change the cache.
LEMMA BuildAndInsertKeeps ==
  ASSUME PlanInv, NEW t \in Threads, BuildAndInsert(t)
  PROVE  PlanInv'
<1> DEFINE built == build_decode_plan(shape[t], Present(t))
           entry == [key |-> PlanKey(shape[t], Present(t)), rows |-> built]
<1>1. /\ phase[t] = "build" /\ shape' = shape /\ shard' = shard
      /\ plan_cache' = Lru!Insert(plan_cache, entry, CACHE_CAPACITY)
      /\ Go(t, built)
  BY DEF BuildAndInsert
<1>2. shard[t] # <<>> /\ shape[t] \in Shapes /\ Present(t) \in SUBSET Int
  BY <1>1 DEF PlanInv, ContainersHaveShapes, Present
<1>3. entry \in PlanEntries
  BY <1>2 DEF PlanEntries
<1>4. PerThread' /\ ThreadIsWell(t)' /\ \A u \in Threads \ {t} : Untouched(u)
  BY <1>1, <1>2, GoIsWell
<1> HIDE DEF entry
<1>5. CacheIsOfPlans'
  BY <1>1, <1>3, BlocksAssumption, InsertKeeps DEF PlanInv, CacheIsOfPlans
<1> QED
  BY <1>4, <1>5, OneThread

LEMMA FinishKeeps ==
  ASSUME PlanInv, NEW t \in Threads, Finish(t)
  PROVE  PlanInv'
<1>1. /\ phase' = [phase EXCEPT ![t] = "idle"] /\ held' = [held EXCEPT ![t] = NoPlan]
      /\ shape' = shape /\ plan_cache' = plan_cache
  BY DEF Finish
<1>2. shard' = [shard EXCEPT ![t] = [i \in DOMAIN shard[t] |->
                  IF i \in Present(t) THEN shard[t][i] ELSE outputs[t][i]]]
  BY DEF Finish, PlanInv, PerThread
<1>3. shard[t] # <<>> => shape[t] \in Shapes
  BY DEF PlanInv, ContainersHaveShapes
<1>4. shard[t] # <<>>
  BY DEF PlanInv, ContainersHaveShapes, Finish
<1>5. PerThread'
  BY <1>1, <1>2 DEF PlanInv, PerThread
<1>6. \A u \in Threads \ {t} : Untouched(u)
  BY <1>1, <1>2 DEF PlanInv, PerThread, Untouched
<1>7. ThreadIsWell(t)'
  <2>1. /\ DOMAIN shard'[t] = DOMAIN shard[t] /\ shape'[t] = shape[t]
        /\ phase'[t] = "idle" /\ held'[t] = NoPlan
    BY <1>1, <1>2 DEF PlanInv, PerThread
  <2> QED
    BY <1>3, <1>4, <2>1 DEF ThreadIsWell, PlanInv, ContainersHaveShapes
<1> QED
  BY <1>1, <1>5, <1>6, <1>7, CacheKept, OneThread

LEMMA PlanNext == PlanInv /\ [Next]_vars => PlanInv'
<1> SUFFICES ASSUME PlanInv, [Next]_vars
             PROVE  PlanInv'
  OBVIOUS
<1>1. ASSUME NEW t \in Threads, NEW s \in Shapes, Encode(t, s) PROVE PlanInv'
  BY <1>1, EncodeKeeps
<1>2. ASSUME NEW t \in Threads, Lose(t) PROVE PlanInv'
  BY <1>2, LoseKeeps
<1>3. ASSUME NEW t \in Threads, BeginReconstruct(t) PROVE PlanInv'
  BY <1>3, BeginReconstructKeeps
<1>4. ASSUME NEW t \in Threads, BuildAndInsert(t) PROVE PlanInv'
  BY <1>4, BuildAndInsertKeeps
<1>5. ASSUME UNCHANGED <<phase, shape, shard, held, plan_cache>> PROVE PlanInv'
  <2>1. CacheIsOfPlans' /\ PerThread' /\ ContainersHaveShapes'
    BY <1>5 DEF PlanInv, CacheIsOfPlans, PerThread, ContainersHaveShapes
  <2>2. \A t \in Threads : Present(t)' = Present(t)
    BY <1>5 DEF Present
  <2>3. PlanIsOfTheCall'
    BY <1>5, <2>2 DEF PlanInv, PlanIsOfTheCall
  <2> QED
    BY <2>1, <2>3 DEF PlanInv
<1>6. ASSUME NEW t \in Threads, NEW worker \in Workers, NEW from \in jobs[t],
             ChunkJob(t, worker, from)
      PROVE  PlanInv'
  <2>1. UNCHANGED <<phase, shape, shard, held, plan_cache>>
    BY <1>6 DEF ChunkJob
  <2> QED
    BY <1>5, <2>1
<1>7. ASSUME NEW t \in Threads, Finish(t) PROVE PlanInv'
  BY <1>7, FinishKeeps
<1>8. CASE UNCHANGED vars
  BY <1>5, <1>8 DEF vars
<1> QED
  BY <1>1, <1>2, <1>3, <1>4, <1>6, <1>7, <1>8 DEF Next

\* Whatever the threads do between a call's lookup, its miss and its insertion,
\* the call goes on with the plan that it would have built itself.
THEOREM CallsUseTheirOwnPlans == Spec => []PlanIsOfTheCall
<1>1. PlanInv => PlanIsOfTheCall
  BY DEF PlanInv
<1> QED
  BY <1>1, PlanInit, PlanNext, PTL DEF Spec

\* The cache of plans never outgrows its capacity, and has plans only that some
\* container calls for.
THEOREM PlansStayWithinCapacity == Spec => []CacheIsOfPlans
<1>1. PlanInv => CacheIsOfPlans
  BY DEF PlanInv
<1> QED
  BY <1>1, PlanInit, PlanNext, PTL DEF Spec

----------------------------------------------------------------------------
(* The least number of a set, and induction up to a number.                   *)

LEMMA LeastNat ==
  ASSUME NEW S, S \subseteq Nat, S # {}
  PROVE  \E m \in S : \A k \in S : m <= k
<1> DEFINE less == OpToRel(<, Nat)
<1>1. IsWellFoundedOn(less, Nat)
  BY NatLessThanWellFounded, Zenon
<1>2. \A j, k \in Nat : j < k => <<j, k>> \in less
  BY DEF OpToRel
<1> HIDE DEF less
<1>3. PICK m \in S : \A k \in S : <<k, m>> \notin less
  BY <1>1, WFMin
<1>4. m \in Nat /\ \A k \in S : k \in Nat
  OBVIOUS
<1>5. \A k \in S : ~(k < m)
  BY <1>2, <1>3, <1>4
<1> QED
  BY <1>4, <1>5

\* What holds of 0, and of k + 1 when it holds of k, holds up to n.
LEMMA UpTo ==
  ASSUME NEW n \in Nat, NEW S, 0 \in S,
         \A k \in 0 .. n - 1 : k \in S => k + 1 \in S
  PROVE  \A k \in 0 .. n : k \in S
<1> SUFFICES ASSUME (0 .. n) \ S # {}
             PROVE  FALSE
  OBVIOUS
<1>1. PICK m \in (0 .. n) \ S : \A k \in (0 .. n) \ S : m <= k
  <2>1. (0 .. n) \ S \subseteq Nat
    OBVIOUS
  <2> QED
    BY <2>1, LeastNat
<1>2. m \in 1 .. n
  BY <1>1
<1>3. m - 1 \in 0 .. n - 1 /\ (m - 1) + 1 = m
  BY <1>2
<1>4. m - 1 \in S
  BY <1>1, <1>3
<1> QED
  BY <1>1, <1>3, <1>4

----------------------------------------------------------------------------
(* Powers of two and of four.  The prover evaluates a power of numbers only.  *)

\* Up to the order of the widest field.
TwoPowers ==
  {1, 2, 4, 8, 16, 32, 64, 128, 256, 512, 1024, 2048, 4096, 8192, 16384, 32768, 65536}
FourPowers == {1, 4, 16, 64, 256, 1024, 4096, 16384, 65536}

TwoTo(i)  == 2^i
FourTo(i) == 4^i

LEMMA TwoPowerIs ==
  ASSUME NEW i \in 0 .. 32
  PROVE  /\ TwoTo(i) \in Nat /\ TwoTo(i) > 0
         /\ i <= 16 => TwoTo(i) \in TwoPowers
         /\ i > 16 => TwoTo(i) > 65536
         /\ i > 0 => TwoTo(i) = 2 * TwoTo(i - 1)
         /\ i < 4 => TwoTo(i) < 16
         /\ i < 8 => TwoTo(i) < 256
         /\ i < 16 => TwoTo(i) < 65536
<1>1. i = 0 \/ i = 1 \/ i = 2 \/ i = 3 \/ i = 4 \/ i = 5 \/ i = 6 \/ i = 7 \/
     i = 8 \/ i = 9 \/ i = 10 \/ i = 11 \/ i = 12 \/ i = 13 \/ i = 14 \/ i = 15 \/
     i = 16 \/ i = 17 \/ i = 18 \/ i = 19 \/ i = 20 \/ i = 21 \/ i = 22 \/ i = 23 \/
     i = 24 \/ i = 25 \/ i = 26 \/ i = 27 \/ i = 28 \/ i = 29 \/ i = 30 \/ i = 31 \/
     i = 32
  OBVIOUS
<1>2. CASE i = 0
  BY <1>2, Z3 DEF TwoPowers, TwoTo
<1>3. CASE i = 1
  BY <1>3, Z3 DEF TwoPowers, TwoTo
<1>4. CASE i = 2
  BY <1>4, Z3 DEF TwoPowers, TwoTo
<1>5. CASE i = 3
  BY <1>5, Z3 DEF TwoPowers, TwoTo
<1>6. CASE i = 4
  BY <1>6, Z3 DEF TwoPowers, TwoTo
<1>7. CASE i = 5
  BY <1>7, Z3 DEF TwoPowers, TwoTo
<1>8. CASE i = 6
  BY <1>8, Z3 DEF TwoPowers, TwoTo
<1>9. CASE i = 7
  BY <1>9, Z3 DEF TwoPowers, TwoTo
<1>10. CASE i = 8
  BY <1>10, Z3 DEF TwoPowers, TwoTo
<1>11. CASE i = 9
  BY <1>11, Z3 DEF TwoPowers, TwoTo
<1>12. CASE i = 10
  BY <1>12, Z3 DEF TwoPowers, TwoTo
<1>13. CASE i = 11
  BY <1>13, Z3 DEF TwoPowers, TwoTo
<1>14. CASE i = 12
  BY <1>14, Z3 DEF TwoPowers, TwoTo
<1>15. CASE i = 13
  BY <1>15, Z3 DEF TwoPowers, TwoTo
<1>16. CASE i = 14
  BY <1>16, Z3 DEF TwoPowers, TwoTo
<1>17. CASE i = 15
  BY <1>17, Z3 DEF TwoPowers, TwoTo
<1>18. CASE i = 16
  BY <1>18, Z3 DEF TwoPowers, TwoTo
<1>19. CASE i = 17
  BY <1>19, Z3 DEF TwoPowers, TwoTo
<1>20. CASE i = 18
  BY <1>20, Z3 DEF TwoPowers, TwoTo
<1>21. CASE i = 19
  BY <1>21, Z3 DEF TwoPowers, TwoTo
<1>22. CASE i = 20
  BY <1>22, Z3 DEF TwoPowers, TwoTo
<1>23. CASE i = 21
  BY <1>23, Z3 DEF TwoPowers, TwoTo
<1>24. CASE i = 22
  BY <1>24, Z3 DEF TwoPowers, TwoTo
<1>25. CASE i = 23
  BY <1>25, Z3 DEF TwoPowers, TwoTo
<1>26. CASE i = 24
  BY <1>26, Z3 DEF TwoPowers, TwoTo
<1>27. CASE i = 25
  BY <1>27, Z3 DEF TwoPowers, TwoTo
<1>28. CASE i = 26
  BY <1>28, Z3 DEF TwoPowers, TwoTo
<1>29. CASE i = 27
  BY <1>29, Z3 DEF TwoPowers, TwoTo
<1>30. CASE i = 28
  BY <1>30, Z3 DEF TwoPowers, TwoTo
<1>31. CASE i = 29
  BY <1>31, Z3 DEF TwoPowers, TwoTo
<1>32. CASE i = 30
  BY <1>32, Z3 DEF TwoPowers, TwoTo
<1>33. CASE i = 31
  BY <1>33, Z3 DEF TwoPowers, TwoTo
<1>34. CASE i = 32
  BY <1>34, Z3 DEF TwoPowers, TwoTo
<1> QED
  BY <1>1, <1>2, <1>3, <1>4, <1>5, <1>6, <1>7, <1>8, <1>9, <1>10,
     <1>11, <1>12, <1>13, <1>14, <1>15, <1>16, <1>17, <1>18, <1>19,
     <1>20, <1>21, <1>22, <1>23, <1>24, <1>25, <1>26, <1>27, <1>28,
     <1>29, <1>30, <1>31, <1>32, <1>33, <1>34

LEMMA FourPowerIs ==
  ASSUME NEW i \in 0 .. 16
  PROVE  /\ FourTo(i) \in Nat /\ FourTo(i) > 0
         /\ i <= 8 => FourTo(i) \in FourPowers
         /\ i > 8 => FourTo(i) > 65536
         /\ i > 0 => FourTo(i) >= 4
<1>1. i = 0 \/ i = 1 \/ i = 2 \/ i = 3 \/ i = 4 \/ i = 5 \/ i = 6 \/ i = 7 \/
     i = 8 \/ i = 9 \/ i = 10 \/ i = 11 \/ i = 12 \/ i = 13 \/ i = 14 \/ i = 15 \/
     i = 16
  OBVIOUS
<1>2. CASE i = 0
  BY <1>2, Z3 DEF FourPowers, FourTo
<1>3. CASE i = 1
  BY <1>3, Z3 DEF FourPowers, FourTo
<1>4. CASE i = 2
  BY <1>4, Z3 DEF FourPowers, FourTo
<1>5. CASE i = 3
  BY <1>5, Z3 DEF FourPowers, FourTo
<1>6. CASE i = 4
  BY <1>6, Z3 DEF FourPowers, FourTo
<1>7. CASE i = 5
  BY <1>7, Z3 DEF FourPowers, FourTo
<1>8. CASE i = 6
  BY <1>8, Z3 DEF FourPowers, FourTo
<1>9. CASE i = 7
  BY <1>9, Z3 DEF FourPowers, FourTo
<1>10. CASE i = 8
  BY <1>10, Z3 DEF FourPowers, FourTo
<1>11. CASE i = 9
  BY <1>11, Z3 DEF FourPowers, FourTo
<1>12. CASE i = 10
  BY <1>12, Z3 DEF FourPowers, FourTo
<1>13. CASE i = 11
  BY <1>13, Z3 DEF FourPowers, FourTo
<1>14. CASE i = 12
  BY <1>14, Z3 DEF FourPowers, FourTo
<1>15. CASE i = 13
  BY <1>15, Z3 DEF FourPowers, FourTo
<1>16. CASE i = 14
  BY <1>16, Z3 DEF FourPowers, FourTo
<1>17. CASE i = 15
  BY <1>17, Z3 DEF FourPowers, FourTo
<1>18. CASE i = 16
  BY <1>18, Z3 DEF FourPowers, FourTo
<1> QED
  BY <1>1, <1>2, <1>3, <1>4, <1>5, <1>6, <1>7, <1>8, <1>9, <1>10,
     <1>11, <1>12, <1>13, <1>14, <1>15, <1>16, <1>17, <1>18

LEMMA Orders ==
  /\ Bitwidth \in {4, 8, 16}
  /\ Order \in {16, 256, 65536} /\ Modulus = Order - 1
  /\ \A x : x \in Element <=> x \in Nat /\ x < Order
  /\ (Bitwidth = 4 /\ Order = 16) \/ (Bitwidth = 8 /\ Order = 256)
       \/ (Bitwidth = 16 /\ Order = 65536)
<1>1. Bitwidth = 4 \/ Bitwidth = 8 \/ Bitwidth = 16
  BY FieldAssumption
<1>2. CASE Bitwidth = 4
  BY <1>2, Z3 DEF Order, Modulus, Element
<1>3. CASE Bitwidth = 8
  BY <1>3, Z3 DEF Order, Modulus, Element
<1>4. CASE Bitwidth = 16
  BY <1>4, Z3 DEF Order, Modulus, Element
<1> QED
  BY <1>1, <1>2, <1>3, <1>4

\* The distances of the passes over Order places.
LEMMA FourPowerSteps ==
  ASSUME NEW k \in 0 .. 7, 2 * k < Bitwidth
  PROVE  /\ FourTo(k) \in {1, 4, 16, 64, 256, 1024, 4096, 16384}
         /\ 4 * FourTo(k) <= Order
<1>1. k = 0 \/ k = 1 \/ k = 2 \/ k = 3 \/ k = 4 \/ k = 5 \/ k = 6 \/ k = 7
  OBVIOUS
<1>2. CASE k = 0
  <2>1. FourTo(k) = 1
    BY <1>2, Z3 DEF FourTo
  <2> QED
    BY <1>2, <2>1, Orders
<1>3. CASE k = 1
  <2>1. FourTo(k) = 4
    BY <1>3, Z3 DEF FourTo
  <2> QED
    BY <1>3, <2>1, Orders
<1>4. CASE k = 2
  <2>1. FourTo(k) = 16
    BY <1>4, Z3 DEF FourTo
  <2> QED
    BY <1>4, <2>1, Orders
<1>5. CASE k = 3
  <2>1. FourTo(k) = 64
    BY <1>5, Z3 DEF FourTo
  <2> QED
    BY <1>5, <2>1, Orders
<1>6. CASE k = 4
  <2>1. FourTo(k) = 256
    BY <1>6, Z3 DEF FourTo
  <2> QED
    BY <1>6, <2>1, Orders
<1>7. CASE k = 5
  <2>1. FourTo(k) = 1024
    BY <1>7, Z3 DEF FourTo
  <2> QED
    BY <1>7, <2>1, Orders
<1>8. CASE k = 6
  <2>1. FourTo(k) = 4096
    BY <1>8, Z3 DEF FourTo
  <2> QED
    BY <1>8, <2>1, Orders
<1>9. CASE k = 7
  <2>1. FourTo(k) = 16384
    BY <1>9, Z3 DEF FourTo
  <2> QED
    BY <1>9, <2>1, Orders
<1> QED
  BY <1>1, <1>2, <1>3, <1>4, <1>5, <1>6, <1>7, <1>8, <1>9

\* The smallest power of two that is not below n exists for as many lanes as two
\* transforms of the field have, and when it is below the order of the field it is
\* at most half of it.
LEMMA CeilPow2Is ==
  ASSUME NEW n \in Nat, n <= 2 * Order
  PROVE  /\ CeilPow2(n) \in Nat /\ CeilPow2(n) >= n /\ CeilPow2(n) >= 1
         /\ CeilPow2(n) <= Modulus => CeilPow2(n) \in TwoPowers /\ 2 * CeilPow2(n) <= Order
         /\ CeilPow2(n) = 1 \/ CeilPow2(n) \div 2 < n
<1> DEFINE P == {TwoTo(i) : i \in 0 .. 2 * Bitwidth}
           Fits(p) == p >= n /\ (p = 1 \/ p \div 2 < n)
           enough == {i \in 0 .. Bitwidth + 1 : TwoTo(i) >= n}
           q == CeilPow2(n)
<1>1. Bitwidth \in {4, 8, 16} /\ TwoTo(Bitwidth + 1) = 2 * Order
  <2>1. PICK k \in 0 .. 32 : k = Bitwidth + 1 /\ k > 0 /\ k - 1 = Bitwidth
    BY Orders
  <2>2. TwoTo(k) = 2 * TwoTo(k - 1)
    BY <2>1, TwoPowerIs
  <2>3. TwoTo(Bitwidth) = Order
    BY DEF TwoTo, Order
  <2> QED
    BY <2>1, <2>2, <2>3, Orders
<1>2. \A i \in 0 .. 2 * Bitwidth : i \in 0 .. 32
  BY <1>1
<1>3. enough \subseteq Nat /\ enough # {}
  <2>1. Bitwidth + 1 \in enough
    BY <1>1
  <2> QED
    BY <2>1
<1>4. PICK i \in enough : \A k \in enough : i <= k
  BY <1>3, LeastNat
<1>5. i \in 0 .. Bitwidth + 1 /\ i \in 0 .. 2 * Bitwidth /\ i \in 0 .. 32 /\ TwoTo(i) >= n
  BY <1>1, <1>4
<1>6. Fits(TwoTo(i))
  <2>1. CASE i = 0
    <3>1. TwoTo(i) = 1
      BY <2>1, Z3 DEF TwoTo
    <3> QED
      BY <1>5, <3>1
  <2>2. CASE i > 0
    <3>1. i - 1 \in 0 .. Bitwidth + 1 /\ i - 1 < i /\ i - 1 \in 0 .. 32
      BY <1>1, <1>5, <2>2
    <3>2. i - 1 \notin enough
      BY <1>4, <1>5, <3>1
    <3>3. TwoTo(i) = 2 * TwoTo(i - 1)
      BY <1>5, <2>2, TwoPowerIs
    <3>5. TwoTo(i - 1) \in Nat
      BY <3>1, TwoPowerIs
    <3>6. TwoTo(i - 1) < n
      BY <3>1, <3>2, <3>5
    <3>4. TwoTo(i) \div 2 = TwoTo(i - 1)
      BY <3>3, <3>5
    <3> QED
      BY <1>5, <3>3, <3>4, <3>6
  <2> QED
    BY <1>5, <2>1, <2>2
<1>7. \E p \in P : Fits(p)
  BY <1>5, <1>6
<1>8. q \in P /\ Fits(q)
  <2> HIDE DEF P
  <2>1. q = CHOOSE p \in P : Fits(p)
    BY DEF CeilPow2, P, TwoTo
  <2> HIDE DEF q, Fits
  <2> QED
    BY <1>7, <2>1
<1> HIDE DEF q
<1>9. PICK j \in 0 .. 2 * Bitwidth : q = TwoTo(j)
  BY <1>8
<1>10. /\ q \in Nat /\ q >= n /\ q >= 1
       /\ j <= 16 => q \in TwoPowers
       /\ j > 16 => q > 65536
  BY <1>2, <1>8, <1>9, TwoPowerIs
<1>11. j \in Nat
  BY <1>1, <1>9
<1>12. ASSUME q <= Modulus
       PROVE  q \in TwoPowers /\ 2 * q <= Order
  <2>1. q \in TwoPowers
    BY <1>10, <1>11, <1>12, Orders
  <2> QED
    BY <1>12, <2>1, Orders DEF TwoPowers
<1> QED
  BY <1>8, <1>10, <1>12 DEF q

----------------------------------------------------------------------------
(* Recursive definitions.                                                     *)

Recursion(f, n, start, S) == f = [k \in 0 .. n |-> IF k = 0 THEN start ELSE S[k][f[k - 1]]]
StaysIn(D, n, S) == \A k \in 1 .. n : \A v \in D : S[k][v] \in D

\* A recursion over the numbers up to n whose steps S stay in a set has a
\* function.
LEMMA Iteration ==
  ASSUME NEW n \in Nat, NEW D, NEW start \in D, NEW S, StaysIn(D, n, S)
  PROVE  \E f : Recursion(f, n, start, S) /\ \A k \in 0 .. n : f[k] \in D
<1> USE DEF Recursion, StaysIn
<1> DEFINE Is(f, m) == f = [k \in 0 .. m |-> IF k = 0 THEN start ELSE S[k][f[k - 1]]]
           good == {m \in 0 .. n : \E f : Is(f, m) /\ \A k \in 0 .. m : f[k] \in D}
<1>1. 0 \in good
  <2> DEFINE f == [k \in 0 .. 0 |-> start]
  <2>1. Is(f, 0) /\ \A k \in 0 .. 0 : f[k] \in D
    OBVIOUS
  <2>2. 0 \in 0 .. n
    OBVIOUS
  <2> HIDE DEF f, Is
  <2> QED
    BY <2>1, <2>2
<1>2. ASSUME NEW m \in 0 .. n - 1, m \in good
      PROVE  m + 1 \in good
  <2>1. PICK f : Is(f, m) /\ \A k \in 0 .. m : f[k] \in D
    BY <1>2
  <2> DEFINE g == [k \in 0 .. m + 1 |-> IF k = m + 1 THEN S[m + 1][f[m]] ELSE f[k]]
  <2>2. m + 1 \in 1 .. n /\ m \in 0 .. m /\ m + 1 \in 0 .. n
    OBVIOUS
  <2>3. ASSUME NEW k \in 0 .. m + 1
        PROVE  g[k] = (IF k = 0 THEN start ELSE S[k][g[k - 1]]) /\ g[k] \in D
    <3>1. CASE k = m + 1
      <4>1. k - 1 = m /\ m \in 0 .. m + 1 /\ m # m + 1 /\ k # 0
        BY <3>1
      <4>2. g[k - 1] = f[m] /\ g[k] = S[k][f[m]]
        BY <3>1, <4>1
      <4>3. S[k][f[m]] \in D
        BY <2>1, <2>2, <3>1
      <4> QED
        BY <4>1, <4>2, <4>3
    <3>2. CASE k = 0
      <4>1. 0 \in 0 .. m /\ 0 # m + 1
        OBVIOUS
      <4>2. g[k] = f[0] /\ f[0] = start
        BY <2>1, <3>2, <4>1
      <4> QED
        BY <3>2, <4>2
    <3>3. CASE k \in 1 .. m
      <4>1. /\ k \in 0 .. m /\ k - 1 \in 0 .. m /\ k - 1 \in 0 .. m + 1
            /\ k # m + 1 /\ k - 1 # m + 1 /\ k # 0
        BY <3>3
      <4>2. g[k] = f[k] /\ g[k - 1] = f[k - 1]
        BY <4>1
      <4>3. f[k] = S[k][f[k - 1]] /\ f[k] \in D
        BY <2>1, <4>1
      <4> QED
        BY <4>1, <4>2, <4>3
    <3> QED
      BY <3>1, <3>2, <3>3
  <2>4. g = [k \in 0 .. m + 1 |-> g[k]]
    OBVIOUS
  <2> HIDE DEF g
  <2>5. g = [k \in 0 .. m + 1 |-> IF k = 0 THEN start ELSE S[k][g[k - 1]]]
    BY <2>3, <2>4
  <2>6. Is(g, m + 1) /\ \A k \in 0 .. m + 1 : g[k] \in D
    BY <2>3, <2>5
  <2> HIDE DEF Is
  <2> QED
    BY <2>2, <2>6
<1>3. n \in good
  <2> HIDE DEF good
  <2>1. \A k \in 0 .. n : k \in good
    BY <1>1, <1>2, UpTo
  <2> QED
    BY <2>1
<1> QED
  BY <1>3

----------------------------------------------------------------------------
(* The field: sums, products and the tables are of elements.                  *)

LEMMA NibbleSum ==
  ASSUME NEW a \in 0 .. 15, NEW b \in 0 .. 15
  PROVE  NibbleXor[a][b] \in 0 .. 15 /\ NibbleXor[a][a] = 0
BY NibbleAssumption

LEMMA ByteXorIs ==
  ASSUME NEW a \in Nat, NEW b \in Nat, a < 256, b < 256
  PROVE  ByteXor(a, b) \in Nat /\ ByteXor(a, b) < 256
<1>1. /\ a \div 16 \in 0 .. 15 /\ a % 16 \in 0 .. 15
      /\ b \div 16 \in 0 .. 15 /\ b % 16 \in 0 .. 15
  OBVIOUS
<1>2. PICK x \in 0 .. 15 : x = NibbleXor[a \div 16][b \div 16]
  BY <1>1, NibbleSum
<1>3. PICK y \in 0 .. 15 : y = NibbleXor[a % 16][b % 16]
  BY <1>1, NibbleSum
<1>4. ByteXor(a, b) = 16 * x + y
  BY <1>2, <1>3 DEF ByteXor
<1> QED
  BY <1>4

LEMMA NibbleXorIs ==
  ASSUME NEW a \in 0 .. 15, NEW b \in 0 .. 15
  PROVE  ByteXor(a, b) \in 0 .. 15
<1>1. a \div 16 = 0 /\ a % 16 = a /\ b \div 16 = 0 /\ b % 16 = b
  OBVIOUS
<1>2. PICK y \in 0 .. 15 : y = NibbleXor[a][b]
  BY NibbleSum
<1>3. 0 \in 0 .. 15
  OBVIOUS
<1>4. NibbleXor[0][0] = 0
  BY <1>3, NibbleSum
<1>5. ByteXor(a, b) = 16 * 0 + y
  BY <1>1, <1>2, <1>4 DEF ByteXor
<1> QED
  BY <1>5

LEMMA PlusIs ==
  ASSUME NEW a \in Element, NEW b \in Element
  PROVE  Plus(a, b) \in Element
<1>1. CASE Bitwidth = 4
  <2>1. a \in 0 .. 15 /\ b \in 0 .. 15
    BY <1>1, Orders
  <2>2. PICK x \in 0 .. 15 : x = ByteXor(a, b)
    BY <2>1, NibbleXorIs
  <2>3. Plus(a, b) = x
    BY <1>1, <2>2 DEF Plus
  <2> QED
    BY <1>1, <2>3, Orders
<1>2. CASE Bitwidth = 8
  <2>1. a \in Nat /\ b \in Nat /\ a < 256 /\ b < 256
    BY <1>2, Orders
  <2>2. PICK x \in Nat : x = ByteXor(a, b) /\ x < 256
    BY <2>1, ByteXorIs
  <2>3. Plus(a, b) = x
    BY <1>2, <2>2 DEF Plus
  <2> QED
    BY <1>2, <2>2, <2>3, Orders
<1>3. CASE Bitwidth = 16
  <2>1. a \in Nat /\ b \in Nat /\ a < 65536 /\ b < 65536
    BY <1>3, Orders
  <2>2. /\ a \div 256 \in Nat /\ a \div 256 < 256 /\ a % 256 \in Nat /\ a % 256 < 256
        /\ b \div 256 \in Nat /\ b \div 256 < 256 /\ b % 256 \in Nat /\ b % 256 < 256
    BY <2>1
  <2>3. PICK x \in Nat : x = ByteXor(a \div 256, b \div 256) /\ x < 256
    BY <2>2, ByteXorIs
  <2>4. PICK y \in Nat : y = ByteXor(a % 256, b % 256) /\ y < 256
    BY <2>2, ByteXorIs
  <2>5. Plus(a, b) = 256 * x + y
    BY <1>3, <2>3, <2>4 DEF Plus
  <2>6. PICK z \in Nat : z = 256 * x + y /\ z < 65536
    BY <2>3, <2>4
  <2> QED
    BY <1>3, <2>5, <2>6, Orders
<1> QED
  BY <1>1, <1>2, <1>3, Orders

LEMMA SpanIs ==
  ASSUME NEW v, \A i \in 0 .. Bitwidth - 1 : v[i] \in Element, NEW j
  PROVE  Span(v, j) \in Element
<1> DEFINE Next1(x, i) == IF Bit(j, i - 1) THEN Plus(x, v[i - 1]) ELSE x
           Is(f) == f = [i \in 0 .. Bitwidth |-> IF i = 0 THEN 0 ELSE Next1(f[i - 1], i)]
           S == [i \in 1 .. Bitwidth |-> [x \in Element |-> Next1(x, i)]]
           sum == CHOOSE f : Is(f)
<1>1. Bitwidth \in Nat /\ 0 \in Element
  BY Orders
<1>2. ASSUME NEW i \in 1 .. Bitwidth, NEW x \in Element
      PROVE  Next1(x, i) \in Element
  <2>1. i - 1 \in 0 .. Bitwidth - 1
    BY <1>1
  <2> QED
    BY <2>1, PlusIs
<1> HIDE DEF Next1
<1>3. \A i \in 1 .. Bitwidth : \A x \in Element : S[i][x] = Next1(x, i) /\ S[i][x] \in Element
  BY <1>2
<1> HIDE DEF S
<1>4. StaysIn(Element, Bitwidth, S)
  BY <1>3 DEF StaysIn
<1>5. PICK f : Recursion(f, Bitwidth, 0, S) /\ \A i \in 0 .. Bitwidth : f[i] \in Element
  BY <1>1, <1>4, Iteration
<1>6. ASSUME NEW i \in 0 .. Bitwidth
      PROVE  (IF i = 0 THEN 0 ELSE S[i][f[i - 1]]) = IF i = 0 THEN 0 ELSE Next1(f[i - 1], i)
  <2>1. i # 0 => i \in 1 .. Bitwidth /\ i - 1 \in 0 .. Bitwidth
    BY <1>1
  <2> QED
    BY <1>3, <1>5, <2>1
<1>7. Is(f)
  BY <1>5, <1>6 DEF Recursion
<1>8. Is(sum)
  BY <1>7
<1>9. Span(v, j) = sum[Bitwidth]
  BY DEF Span, Next1
<1> HIDE DEF sum
<1>10. sum[0] = 0 /\ \A i \in 1 .. Bitwidth : sum[i] = Next1(sum[i - 1], i)
  BY <1>1, <1>8
<1> DEFINE good == {i \in 0 .. Bitwidth : sum[i] \in Element}
<1>11. 0 \in good
  BY <1>1, <1>10
<1>12. ASSUME NEW i \in 0 .. Bitwidth - 1, i \in good
       PROVE  i + 1 \in good
  <2>1. i + 1 \in 1 .. Bitwidth /\ (i + 1) - 1 = i
    BY <1>1
  <2>2. sum[i + 1] = Next1(sum[i], i + 1)
    BY <1>10, <2>1
  <2> QED
    BY <1>2, <1>12, <2>1, <2>2
<1>13. \A i \in 0 .. Bitwidth : i \in good
  <2> HIDE DEF good
  <2> QED
    BY <1>1, <1>11, <1>12, UpTo
<1> QED
  BY <1>1, <1>9, <1>13

LEMMA LogLutIs ==
  ASSUME NEW j \in Element
  PROVE  LogLut[j] \in Element
<1>1. CASE j = 0
  BY <1>1, Orders DEF LogLut
<1>2. CASE j # 0
  <2>1. j \in 1 .. Modulus
    BY <1>2, Orders
  <2>2. \E i \in 0 .. Modulus - 1 : Powers[i] = Cantor[j]
    BY <2>1, TablesAssumption
  <2>3. LogLut[j] = CHOOSE i \in 0 .. Modulus - 1 : Powers[i] = Cantor[j]
    BY <1>2 DEF LogLut
  <2>4. LogLut[j] \in 0 .. Modulus - 1
    BY <2>2, <2>3
  <2> QED
    BY <2>4, Orders
<1> QED
  BY <1>1, <1>2

LEMMA ExpLutIs ==
  ASSUME NEW l \in Element
  PROVE  ExpLut[l] \in Element
<1>1. l % Modulus \in 0 .. Modulus - 1
  BY Orders
<1>2. \E j \in 1 .. Modulus : LogLut[j] = l % Modulus
  BY <1>1, TablesAssumption
<1>3. ExpLut[l] = CHOOSE j \in 1 .. Modulus : LogLut[j] = l % Modulus
  BY DEF ExpLut
<1>4. ExpLut[l] \in 1 .. Modulus
  BY <1>2, <1>3
<1> QED
  BY <1>4, Orders

LEMMA ModsAre ==
  ASSUME NEW a \in Int, NEW b \in Int
  PROVE  AddMod(a, b) \in Element /\ SubMod(a, b) \in Element
<1>1. ASSUME NEW n \in Int
      PROVE  Folded(n) \in Element
  <2>1. CASE Order = 16
    BY <2>1, Orders DEF Folded
  <2>2. CASE Order = 256
    BY <2>2, Orders DEF Folded
  <2>3. CASE Order = 65536
    BY <2>3, Orders DEF Folded
  <2> QED
    BY <2>1, <2>2, <2>3, Orders
<1>2. a + b \in Int /\ a - b \in Int
  OBVIOUS
<1> QED
  BY <1>1, <1>2 DEF AddMod, SubMod

LEMMA ElementsAreNumbers ==
  /\ \A x \in Element : x \in Nat /\ x \in Int
  /\ 0 \in Element /\ 1 \in Element /\ Modulus \in Element /\ Modulus \in Nat
  /\ \A x \in Element : Modulus - x \in Element
BY Orders

LEMMA MulLogIs ==
  ASSUME NEW a \in Element, NEW log_b \in Element
  PROVE  MulLog(a, log_b) \in Element
<1>1. LogLut[a] \in Element
  BY LogLutIs
<1>2. AddMod(LogLut[a], log_b) \in Element
  BY <1>1, ModsAre, ElementsAreNumbers
<1>3. ExpLut[AddMod(LogLut[a], log_b)] \in Element
  BY <1>2, ExpLutIs
<1> QED
  BY <1>3, ElementsAreNumbers DEF MulLog

\* A product from the tables of nibbles.
LEMMA MulLutIs ==
  ASSUME NEW log_m \in Element, NEW e \in Element
  PROVE  MulLut[log_m][e] \in Element
<1> DEFINE Of(nibble, x) == NibbleProducts[log_m][nibble][(x \div 16^nibble) % 16]
<1>1. ASSUME NEW nibble \in 0 .. 3
      PROVE  Of(nibble, e) \in Element
  <2>1. PICK w \in Nat : w = 16^nibble /\ w > 0
    <3>1. nibble = 0 \/ nibble = 1 \/ nibble = 2 \/ nibble = 3
      OBVIOUS
    <3>2. CASE nibble = 0
      BY <3>2, Z3
    <3>3. CASE nibble = 1
      BY <3>3, Z3
    <3>4. CASE nibble = 2
      BY <3>4, Z3
    <3>5. CASE nibble = 3
      BY <3>5, Z3
    <3> QED
      BY <3>1, <3>2, <3>3, <3>4, <3>5
  <2>2. PICK x \in 0 .. 15 : x = (e \div w) % 16
    <3>1. e \in Nat
      BY ElementsAreNumbers
    <3>2. e \div w \in Int
      BY <2>1, <3>1
    <3> QED
      BY <3>2
  <2>3. (x * w) % Order \in Element
    <3>1. x * w \in Int
      BY <2>1
    <3> QED
      BY <3>1, Orders
  <2>4. Of(nibble, e) = MulLog((x * w) % Order, log_m)
    BY <2>1, <2>2 DEF NibbleProducts
  <2> QED
    BY <2>3, <2>4, MulLogIs
<1>2. MulLut[log_m][e] = Plus(Plus(Of(0, e), Of(1, e)), Plus(Of(2, e), Of(3, e)))
  <2> DEFINE x == [nibble \in 0 .. 3 |-> Of(nibble, e)]
  <2>1. MulLut[log_m][e] = Plus(Plus(x[0], x[1]), Plus(x[2], x[3]))
    BY DEF MulLut
  <2>2. x[0] = Of(0, e) /\ x[1] = Of(1, e) /\ x[2] = Of(2, e) /\ x[3] = Of(3, e)
    OBVIOUS
  <2> QED
    BY <2>1, <2>2
<1> HIDE DEF Of
<1>3. Of(0, e) \in Element /\ Of(1, e) \in Element /\ Of(2, e) \in Element /\ Of(3, e) \in Element
  BY <1>1
<1>4. Plus(Of(0, e), Of(1, e)) \in Element /\ Plus(Of(2, e), Of(3, e)) \in Element
  BY <1>3, PlusIs
<1> QED
  BY <1>2, <1>4, PlusIs

SkewVectors == [0 .. Bitwidth - 2 -> Element]

LEMMA SkewRoundIs ==
  ASSUME NEW temp \in SkewVectors, NEW m \in 0 .. Bitwidth - 2
  PROVE  SkewRound(temp, m, InverseOf(temp[m])) \in SkewVectors
<1>1. temp[m] \in Element /\ DOMAIN temp = 0 .. Bitwidth - 2
      /\ \A i \in 0 .. Bitwidth - 2 : temp[i] \in Element
  BY DEF SkewVectors
<1>2. \A x \in Element : LogLut[Plus(x, 1)] \in Element
  BY PlusIs, LogLutIs, ElementsAreNumbers
<1>3. PICK inv \in Element : inv = InverseOf(temp[m])
  <2>1. LogLut[MulLog(temp[m], LogLut[Plus(temp[m], 1)])] \in Element
    BY <1>1, <1>2, MulLogIs, LogLutIs
  <2> QED
    BY <2>1, ElementsAreNumbers DEF InverseOf
<1>4. \A x \in Element : AddMod(LogLut[Plus(x, 1)], inv) \in Element
  BY <1>2, <1>3, ModsAre, ElementsAreNumbers
<1>5. \A x \in Element : MulLog(x, AddMod(LogLut[Plus(x, 1)], inv)) \in Element
  BY <1>4, MulLogIs
<1> DEFINE after(i) == CASE i = m -> inv
                         [] i > m -> MulLog(temp[i], AddMod(LogLut[Plus(temp[i], 1)], inv))
                         [] OTHER -> temp[i]
<1>6. \A i \in 0 .. Bitwidth - 2 : after(i) \in Element
  BY <1>1, <1>3, <1>5
<1>7. SkewRound(temp, m, inv) = [i \in 0 .. Bitwidth - 2 |-> after(i)]
  BY <1>1 DEF SkewRound
<1> QED
  BY <1>3, <1>6, <1>7 DEF SkewVectors

LEMMA SkewTempIs ==
  ASSUME NEW m \in 0 .. Bitwidth - 2
  PROVE  SkewTemp[m] \in SkewVectors
<1> DEFINE first == [i \in 0 .. Bitwidth - 2 |-> 2^(i + 1)]
           Next1(x, k) == SkewRound(x, k - 1, InverseOf(x[k - 1]))
           Is(f) == f = [k \in 0 .. Bitwidth - 2 |-> IF k = 0 THEN first ELSE Next1(f[k - 1], k)]
           S == [k \in 1 .. Bitwidth - 2 |-> [x \in SkewVectors |-> Next1(x, k)]]
           round == CHOOSE f : Is(f)
<1> HIDE DEF first
<1>1. PICK n \in Nat : n = Bitwidth - 2
  BY Orders
<1>2. first \in SkewVectors
  <2>1. ASSUME NEW i \in 0 .. Bitwidth - 2
        PROVE  TwoTo(i + 1) \in Element
    <3>1. PICK k \in 0 .. 32 : k = i + 1 /\ k < Bitwidth
      BY Orders
    <3>2. TwoTo(k) \in Nat /\ TwoTo(k) < Order
      BY <3>1, TwoPowerIs, Orders
    <3> QED
      BY <3>1, <3>2, Orders
  <2>2. first = [i \in 0 .. Bitwidth - 2 |-> TwoTo(i + 1)]
    BY DEF first, TwoTo
  <2> QED
    BY <2>1, <2>2 DEF SkewVectors
<1>3. ASSUME NEW k \in 1 .. n, NEW x \in SkewVectors
      PROVE  Next1(x, k) \in SkewVectors
  <2>1. k - 1 \in 0 .. Bitwidth - 2
    BY <1>1
  <2> QED
    BY <2>1, SkewRoundIs
<1> HIDE DEF Next1
<1>4. \A k \in 1 .. n : \A x \in SkewVectors : S[k][x] = Next1(x, k) /\ S[k][x] \in SkewVectors
  BY <1>1, <1>3
<1> HIDE DEF S
<1>5. StaysIn(SkewVectors, n, S)
  BY <1>4 DEF StaysIn
<1>6. PICK f : Recursion(f, n, first, S) /\ \A k \in 0 .. n : f[k] \in SkewVectors
  BY <1>1, <1>2, <1>5, Iteration
<1>7. ASSUME NEW k \in 0 .. n
      PROVE  (IF k = 0 THEN first ELSE S[k][f[k - 1]]) = IF k = 0 THEN first ELSE Next1(f[k - 1], k)
  <2>1. k # 0 => k \in 1 .. n /\ k - 1 \in 0 .. n
    BY <1>1
  <2> QED
    BY <1>4, <1>6, <2>1
<1>8. Is(f)
  BY <1>1, <1>6, <1>7 DEF Recursion
<1>9. Is(round)
  BY <1>8
<1>10. SkewTemp = round
  BY DEF SkewTemp, Next1, first
<1> HIDE DEF round
<1>11. round[0] = first /\ \A k \in 1 .. n : round[k] = Next1(round[k - 1], k)
  BY <1>1, <1>9
<1> DEFINE good == {k \in 0 .. n : round[k] \in SkewVectors}
<1>12. 0 \in good
  BY <1>1, <1>2, <1>11
<1>13. ASSUME NEW k \in 0 .. n - 1, k \in good
       PROVE  k + 1 \in good
  <2>1. k + 1 \in 1 .. n /\ (k + 1) - 1 = k
    BY <1>1
  <2>2. round[k + 1] = Next1(round[k], k + 1)
    BY <1>11, <2>1
  <2> QED
    BY <1>3, <1>13, <2>1, <2>2
<1>14. \A k \in 0 .. n : k \in good
  <2> HIDE DEF good
  <2> QED
    BY <1>1, <1>12, <1>13, UpTo
<1> QED
  BY <1>1, <1>10, <1>14

\* A number below the order of the field has a lowest bit.
LEMMA LowestBit ==
  ASSUME NEW n \in Nat, 0 < n, n < Order
  PROVE  \E i \in 0 .. Bitwidth - 1 : n % TwoTo(i) = 0 /\ n % TwoTo(i + 1) # 0
<1> DEFINE odd == {i \in 0 .. Bitwidth - 1 : n % TwoTo(i + 1) # 0}
<1>1. Bitwidth \in Nat /\ Bitwidth <= 16 /\ Bitwidth > 0
  BY Orders
<1>2. odd \subseteq Nat /\ odd # {}
  <2>1. n % Order = n
    BY Orders
  <2>2. TwoTo(Bitwidth) = Order
    BY DEF TwoTo, Order
  <2>3. Bitwidth - 1 \in 0 .. Bitwidth - 1 /\ (Bitwidth - 1) + 1 = Bitwidth
    BY <1>1
  <2>4. Bitwidth - 1 \in odd
    BY <1>1, <2>1, <2>2, <2>3
  <2>5. \A i \in 0 .. Bitwidth - 1 : i \in Nat
    BY <1>1
  <2>6. odd \subseteq Nat
    BY <2>5
  <2> HIDE DEF odd
  <2> QED
    BY <2>4, <2>6
<1>3. PICK i \in odd : \A k \in odd : i <= k
  BY <1>2, LeastNat
<1>4. i \in 0 .. Bitwidth - 1 /\ i \in Nat /\ n % TwoTo(i + 1) # 0
  BY <1>1, <1>3
<1>5. n % TwoTo(i) = 0
  <2>1. CASE i = 0
    <3>1. TwoTo(i) = 1
      BY <2>1, Z3 DEF TwoTo
    <3> QED
      BY <3>1
  <2>2. CASE i # 0
    <3>1. i - 1 \in 0 .. Bitwidth - 1 /\ i - 1 < i /\ (i - 1) + 1 = i
      BY <1>1, <1>4, <2>2
    <3>2. i - 1 \notin odd
      BY <1>3, <1>4, <3>1
    <3>3. ~(n % TwoTo((i - 1) + 1) # 0)
      BY <3>1, <3>2
    <3> QED
      BY <3>1, <3>3
  <2> QED
    BY <2>1, <2>2
<1> QED
  BY <1>4, <1>5

LEMMA FftSkewIs ==
  ASSUME NEW pos \in SkewPositions
  PROVE  FftSkew[pos] \in Element
<1> DEFINE m == CHOOSE i \in 0 .. Bitwidth - 1 :
                  (pos + 1) % TwoTo(i) = 0 /\ (pos + 1) % TwoTo(i + 1) # 0
           v == [i \in 0 .. Bitwidth - 1 |->
                   IF i \in m .. Bitwidth - 2 THEN SkewTemp[m][i] ELSE 0]
<1>1. pos + 1 \in Nat /\ 0 < pos + 1 /\ pos + 1 < Order
  BY Orders DEF SkewPositions
<1>2. m \in 0 .. Bitwidth - 1
  BY <1>1, LowestBit
<1>3. FftSkew[pos] = LogLut[Span(v, pos \div 2)]
  BY DEF FftSkew, TwoTo
<1> HIDE DEF m
<1>4. ASSUME NEW i \in 0 .. Bitwidth - 1
      PROVE  v[i] \in Element
  <2>1. CASE i \in m .. Bitwidth - 2
    <3>1. m \in 0 .. Bitwidth - 2 /\ i \in 0 .. Bitwidth - 2
      BY <1>2, <2>1, Orders
    <3>2. SkewTemp[m][i] \in Element
      BY <3>1, SkewTempIs DEF SkewVectors
    <3> QED
      BY <2>1, <3>2
  <2>2. CASE ~(i \in m .. Bitwidth - 2)
    BY <2>2, ElementsAreNumbers
  <2> QED
    BY <2>1, <2>2
<1> HIDE DEF v
<1> QED
  BY <1>3, <1>4, SpanIs, LogLutIs

----------------------------------------------------------------------------
(* The Walsh-Hadamard transforms and the error locator.                       *)

Vectors == [Element -> Element]

\* The four places of a radix-4 butterfly on n places.
LEMMA FourPlaces ==
  ASSUME NEW n \in {16, 256, 65536}, NEW d \in {1, 4, 16, 64, 256, 1024, 4096, 16384}, 4 * d <= n,
         NEW i \in Nat, i < n
  PROVE  LET q == (i \div d) % 4
             o == i - (q * d)
         IN /\ q = 0 \/ q = 1 \/ q = 2 \/ q = 3
            /\ o \in Nat /\ o + 3 * d < n
<1>1. n % (4 * d) = 0
  <2>1. CASE d = 1
    BY <2>1
  <2>2. CASE d = 4
    BY <2>2
  <2>3. CASE d = 16
    BY <2>3
  <2>4. CASE d = 64
    BY <2>4
  <2>5. CASE d = 256
    BY <2>5
  <2>6. CASE d = 1024
    BY <2>6
  <2>7. CASE d = 4096
    BY <2>7
  <2>8. CASE d = 16384
    BY <2>8
  <2> QED
    BY <2>1, <2>2, <2>3, <2>4, <2>5, <2>6, <2>7, <2>8
<1>2. CASE d = 1
  BY <1>1, <1>2
<1>3. CASE d = 4
  BY <1>1, <1>3
<1>4. CASE d = 16
  BY <1>1, <1>4
<1>5. CASE d = 64
  BY <1>1, <1>5
<1>6. CASE d = 256
  BY <1>1, <1>6
<1>7. CASE d = 1024
  BY <1>1, <1>7
<1>8. CASE d = 4096
  BY <1>1, <1>8
<1>9. CASE d = 16384
  BY <1>1, <1>9
<1> QED
  BY <1>2, <1>3, <1>4, <1>5, <1>6, <1>7, <1>8, <1>9

\* The distances of the radix-4 passes.
IsDistance(d) == d \in {1, 4, 16, 64, 256, 1024, 4096, 16384} /\ 4 * d <= Order

LEMMA Fwht4Is ==
  ASSUME NEW data \in Vectors, NEW dist \in Nat, IsDistance(dist), NEW mtrunc
  PROVE  Fwht4(data, dist, mtrunc) \in Vectors
<1>1. dist \in {1, 4, 16, 64, 256, 1024, 4096, 16384} /\ 4 * dist <= Order
  BY DEF IsDistance
<1>2. DOMAIN data = Element /\ \A i \in Element : data[i] \in Element /\ data[i] \in Int
  BY ElementsAreNumbers DEF Vectors
<1> DEFINE q(i) == (i \div dist) % 4
           o(i) == i - (q(i) * dist)
           s01(i) == AddMod(data[o(i)], data[o(i) + dist])
           d01(i) == SubMod(data[o(i)], data[o(i) + dist])
           s23(i) == AddMod(data[o(i) + 2 * dist], data[o(i) + 3 * dist])
           d23(i) == SubMod(data[o(i) + 2 * dist], data[o(i) + 3 * dist])
           out(i) == IF o(i) - (o(i) % (4 * dist)) >= mtrunc THEN data[i]
                     ELSE CASE q(i) = 0 -> AddMod(s01(i), s23(i)) [] q(i) = 1 -> AddMod(d01(i), d23(i))
                            [] q(i) = 2 -> SubMod(s01(i), s23(i)) [] q(i) = 3 -> SubMod(d01(i), d23(i))
<1>3. ASSUME NEW i \in Element
      PROVE  out(i) \in Element
  <2>1. /\ q(i) = 0 \/ q(i) = 1 \/ q(i) = 2 \/ q(i) = 3
        /\ o(i) \in Nat /\ o(i) + 3 * dist < Order
    BY <1>1, Orders, FourPlaces
  <2>2. /\ o(i) \in Element /\ o(i) + dist \in Element
        /\ o(i) + 2 * dist \in Element /\ o(i) + 3 * dist \in Element
    <3> HIDE DEF q, o
    <3> QED
      BY <1>1, <2>1, Orders
  <2> HIDE DEF q, o
  <2>3. s01(i) \in Element /\ d01(i) \in Element /\ s23(i) \in Element /\ d23(i) \in Element
    BY <1>2, <2>2, ModsAre
  <2> HIDE DEF s01, d01, s23, d23
  <2>4. /\ AddMod(s01(i), s23(i)) \in Element /\ AddMod(d01(i), d23(i)) \in Element
        /\ SubMod(s01(i), s23(i)) \in Element /\ SubMod(d01(i), d23(i)) \in Element
    BY <2>3, ModsAre, ElementsAreNumbers
  <2> QED
    BY <1>2, <2>1, <2>4
<1>4. Fwht4(data, dist, mtrunc) = [i \in Element |-> out(i)]
  BY <1>2 DEF Fwht4
<1> HIDE DEF out
<1> QED
  BY <1>1, <1>3, <1>4 DEF Vectors

\* A pass of each transform.
Pass(f, k, mtrunc) == Fwht4(f, FourTo(k - 1), mtrunc)

LEMMA FwhtTruncIs ==
  ASSUME NEW data \in Vectors, NEW mtrunc
  PROVE  FwhtTrunc(data, mtrunc) \in Vectors
<1> DEFINE Is(f) == f = [k \in 0 .. Bitwidth \div 2 |->
                           IF k = 0 THEN data ELSE Pass(f[k - 1], k, mtrunc)]
           pass == CHOOSE f : Is(f)
<1>1. PICK n \in Nat : n = Bitwidth \div 2 /\ 2 * n = Bitwidth /\ n <= 8
  BY Orders
<1> DEFINE S == [k \in 1 .. n |-> [x \in Vectors |-> Pass(x, k, mtrunc)]]
<1>2. ASSUME NEW k \in 1 .. n, NEW x \in Vectors
      PROVE  Pass(x, k, mtrunc) \in Vectors
  <2>1. k - 1 \in 0 .. 7 /\ 2 * (k - 1) < Bitwidth
    BY <1>1
  <2>2. FourTo(k - 1) \in {1, 4, 16, 64, 256, 1024, 4096, 16384} /\ 4 * FourTo(k - 1) <= Order
    BY <2>1, FourPowerSteps
  <2>3. FourTo(k - 1) \in Nat /\ IsDistance(FourTo(k - 1))
    BY <2>2 DEF IsDistance
  <2> QED
    BY <2>3, Fwht4Is DEF Pass
<1>3. \A k \in 1 .. n : \A x \in Vectors : S[k][x] = Pass(x, k, mtrunc) /\ S[k][x] \in Vectors
  BY <1>2
<1> HIDE DEF S
<1>4. StaysIn(Vectors, n, S)
  BY <1>3 DEF StaysIn
<1>5. PICK f : Recursion(f, n, data, S) /\ \A k \in 0 .. n : f[k] \in Vectors
  BY <1>1, <1>4, Iteration
<1>6. ASSUME NEW k \in 0 .. n
      PROVE  (IF k = 0 THEN data ELSE S[k][f[k - 1]]) = IF k = 0 THEN data ELSE Pass(f[k - 1], k, mtrunc)
  <2>1. k # 0 => k \in 1 .. n /\ k - 1 \in 0 .. n
    BY <1>1
  <2> QED
    BY <1>3, <1>5, <2>1
<1>7. Is(f)
  BY <1>1, <1>5, <1>6 DEF Recursion
<1>8. Is(pass)
  BY <1>7
<1>9. FwhtTrunc(data, mtrunc) = pass[Bitwidth \div 2]
  BY DEF FwhtTrunc, Pass, FourTo
<1> HIDE DEF pass
<1>10. pass[0] = data /\ \A k \in 1 .. n : pass[k] = Pass(pass[k - 1], k, mtrunc)
  BY <1>1, <1>8
<1> DEFINE good == {k \in 0 .. n : pass[k] \in Vectors}
<1>11. 0 \in good
  BY <1>1, <1>10
<1>12. ASSUME NEW k \in 0 .. n - 1, k \in good
       PROVE  k + 1 \in good
  <2>1. k + 1 \in 1 .. n /\ (k + 1) - 1 = k
    BY <1>1
  <2>2. pass[k + 1] = Pass(pass[k], k + 1, mtrunc)
    BY <1>10, <2>1
  <2> QED
    BY <1>2, <1>12, <2>1, <2>2
<1>13. \A k \in 0 .. n : k \in good
  <2> HIDE DEF good
  <2> QED
    BY <1>1, <1>11, <1>12, UpTo
<1> QED
  BY <1>1, <1>9, <1>13

LEMMA fwht_variable_Is ==
  ASSUME NEW data \in Vectors
  PROVE  fwht_variable(data) \in Vectors
<1> DEFINE LastPass(f, dist) == [i \in DOMAIN f |->
                               IF (i \div dist) % 2 = 0 THEN AddMod(f[i], f[i + dist])
                               ELSE SubMod(f[i - dist], f[i])]
           After(f, dist) == CASE 4 * dist <= Cardinality(DOMAIN data) ->
                                    Fwht4(f, dist, Cardinality(DOMAIN data))
                               [] 2 * dist = Cardinality(DOMAIN data) -> LastPass(f, dist)
                               [] OTHER -> f
           Is(f) == f = [k \in 0 .. Bitwidth |->
                           IF k = 0 THEN data ELSE After(f[k - 1], FourTo(k - 1))]
           pass == CHOOSE f : Is(f)
<1>1. PICK n \in Nat : n = Bitwidth /\ n <= 16
  BY Orders
<1>2. Cardinality(DOMAIN data) = Order
  <2>1. DOMAIN data = 0 .. Order - 1
    <3>1. \A x : x \in Element <=> x \in 0 .. Order - 1
      BY Orders
    <3> QED
      BY <3>1 DEF Vectors
  <2>2. Cardinality(0 .. Order - 1) = IF 0 > Order - 1 THEN 0 ELSE (Order - 1) - 0 + 1
    <3>1. Order - 1 \in Int /\ 0 \in Int
      BY Orders
    <3> QED
      BY <3>1, FS_Interval
  <2> QED
    BY <2>1, <2>2, Orders
<1> DEFINE S == [k \in 1 .. n |-> [x \in Vectors |-> After(x, FourTo(k - 1))]]
<1>3. ASSUME NEW k \in 1 .. n, NEW x \in Vectors
      PROVE  After(x, FourTo(k - 1)) \in Vectors
  <2>1. PICK j \in 0 .. 16 : j = k - 1
    BY <1>1
  <2>2. /\ FourTo(j) \in Nat
        /\ j <= 8 => FourTo(j) \in FourPowers
        /\ j > 8 => FourTo(j) > 65536
    BY FourPowerIs
  <2>3. 2 * FourTo(j) # Order
    <3>1. CASE j <= 8
      BY <2>2, <3>1, Orders DEF FourPowers
    <3>2. CASE j > 8
      BY <2>2, <3>2, Orders
    <3> QED
      BY <3>1, <3>2
  <2>4. 4 * FourTo(j) <= Order => FourTo(j) \in {1, 4, 16, 64, 256, 1024, 4096, 16384}
    <3>1. CASE j <= 8
      BY <2>2, <3>1, Orders DEF FourPowers
    <3>2. CASE j > 8
      BY <2>2, <3>2, Orders
    <3> QED
      BY <3>1, <3>2
  <2>5. CASE 4 * FourTo(j) <= Order
    <3>1. Fwht4(x, FourTo(j), Order) \in Vectors
      <4>1. IsDistance(FourTo(j))
        BY <2>4, <2>5 DEF IsDistance
      <4> QED
        BY <2>2, <4>1, Fwht4Is
    <3>2. After(x, FourTo(j)) = Fwht4(x, FourTo(j), Order)
      BY <1>2, <2>3, <2>5
    <3> QED
      BY <2>1, <3>1, <3>2
  <2>6. CASE ~(4 * FourTo(j) <= Order)
    <3>1. After(x, FourTo(j)) = x
      BY <1>2, <2>3, <2>6
    <3> QED
      BY <2>1, <3>1
  <2> QED
    BY <2>5, <2>6
<1>4. fwht_variable(data) = pass[Bitwidth]
  BY DEF fwht_variable, FourTo
<1> HIDE DEF After
<1>5. \A k \in 1 .. n : \A x \in Vectors : S[k][x] = After(x, FourTo(k - 1)) /\ S[k][x] \in Vectors
  BY <1>3
<1> HIDE DEF S
<1>6. StaysIn(Vectors, n, S)
  BY <1>5 DEF StaysIn
<1>7. PICK f : Recursion(f, n, data, S) /\ \A k \in 0 .. n : f[k] \in Vectors
  BY <1>1, <1>6, Iteration
<1>8. ASSUME NEW k \in 0 .. n
      PROVE  (IF k = 0 THEN data ELSE S[k][f[k - 1]])
               = IF k = 0 THEN data ELSE After(f[k - 1], FourTo(k - 1))
  <2>1. k # 0 => k \in 1 .. n /\ k - 1 \in 0 .. n
    BY <1>1
  <2> QED
    BY <1>5, <1>7, <2>1
<1>9. Is(f)
  BY <1>1, <1>7, <1>8 DEF Recursion
<1>10. Is(pass)
  BY <1>9
<1> HIDE DEF pass
<1>11. pass[0] = data /\ \A k \in 1 .. n : pass[k] = After(pass[k - 1], FourTo(k - 1))
  BY <1>1, <1>10
<1> DEFINE good == {k \in 0 .. n : pass[k] \in Vectors}
<1>12. 0 \in good
  BY <1>1, <1>11
<1>13. ASSUME NEW k \in 0 .. n - 1, k \in good
       PROVE  k + 1 \in good
  <2>1. k + 1 \in 1 .. n /\ (k + 1) - 1 = k
    BY <1>1
  <2>2. pass[k + 1] = After(pass[k], FourTo(k))
    BY <1>11, <2>1
  <2>3. After(pass[k], FourTo((k + 1) - 1)) \in Vectors
    BY <1>3, <1>13, <2>1
  <2> QED
    BY <1>13, <2>1, <2>2, <2>3
<1>14. \A k \in 0 .. n : k \in good
  <2> HIDE DEF good
  <2> QED
    BY <1>1, <1>12, <1>13, UpTo
<1> QED
  BY <1>1, <1>4, <1>14

LEMMA LogWalshIs == LogWalsh \in Vectors
<1> DEFINE logs == [LogLut EXCEPT ![0] = 0]
<1>1. DOMAIN LogLut = Element
  BY DEF LogLut
<1>2. logs = [j \in Element |-> IF j = 0 THEN 0 ELSE LogLut[j]]
  BY <1>1
<1>3. \A j \in Element : (IF j = 0 THEN 0 ELSE LogLut[j]) \in Element
  BY LogLutIs, ElementsAreNumbers
<1>4. logs \in Vectors
  BY <1>2, <1>3 DEF Vectors
<1> QED
  BY <1>4, FwhtTruncIs DEF LogWalsh, Fwht

LEMMA compute_error_locs_Is ==
  ASSUME NEW erased, NEW work_size
  PROVE  compute_error_locs(erased, work_size) \in Vectors
<1> DEFINE indicator == [i \in Element |-> IF i \in erased THEN 1 ELSE 0]
           transformed == FwhtTrunc(indicator, work_size)
           times == [f \in Vectors |-> [i \in Element |-> (f[i] * LogWalsh[i]) % Modulus]]
<1>1. indicator \in Vectors
  BY ElementsAreNumbers DEF Vectors
<1>2. transformed \in Vectors
  BY <1>1, FwhtTruncIs
<1> HIDE DEF transformed
<1>3. ASSUME NEW i \in Element
      PROVE  (transformed[i] * LogWalsh[i]) % Modulus \in Element
  <2>1. transformed[i] \in Int /\ LogWalsh[i] \in Int
    BY <1>2, LogWalshIs, ElementsAreNumbers DEF Vectors
  <2>2. transformed[i] * LogWalsh[i] \in Int
    BY <2>1
  <2> QED
    BY <2>2, Orders
<1>4. times[transformed] \in Vectors
  <2>1. times[transformed] = [i \in Element |-> (transformed[i] * LogWalsh[i]) % Modulus]
    BY <1>2
  <2> QED
    BY <1>3, <2>1 DEF Vectors
<1>5. compute_error_locs(erased, work_size) = fwht_variable(times[transformed])
  BY DEF compute_error_locs, transformed, Vectors
<1> QED
  BY <1>4, <1>5, fwht_variable_Is

----------------------------------------------------------------------------
(* Lanes and work areas.  Everything that is done to them is done column by   *)
(* column: of two areas that are alike in their first columns, the results    *)
(* are alike there.  With one area for both this says that the results are    *)
(* areas.                                                                     *)

\* z.n lanes of z.len elements, of which the first z.size matter.
IsDims(z) == z.len \in Nat /\ z.size \in Nat /\ z.size <= z.len
LanesOf(z) == [1 .. z.len -> Element]
AreasOf(z) == [Lanes(z.n) -> LanesOf(z)]

Alike(x, y, z) ==
  /\ x \in LanesOf(z) /\ y \in LanesOf(z)
  /\ \A c \in 1 .. z.size : x[c] = y[c]

AreasAlike(v, w, z) ==
  /\ v \in AreasOf(z) /\ w \in AreasOf(z)
  /\ \A l \in Lanes(z.n) : Alike(v[l], w[l], z)

LEMMA AlikeLanes ==
  ASSUME NEW z, IsDims(z), NEW x, NEW y, Alike(x, y, z)
  PROVE  /\ DOMAIN x = 1 .. z.len /\ DOMAIN y = 1 .. z.len
         /\ \A c \in 1 .. z.len : x[c] \in Element /\ y[c] \in Element
         /\ \A c \in 1 .. z.size : x[c] = y[c]
         /\ \A c \in 1 .. z.size : c \in 1 .. z.len
BY DEF Alike, LanesOf, IsDims

LEMMA LanePlusAlike ==
  ASSUME NEW z, IsDims(z), NEW x, NEW x2, Alike(x, x2, z), NEW y, NEW y2, Alike(y, y2, z)
  PROVE  Alike(LanePlus(x, y), LanePlus(x2, y2), z)
<1>1. /\ DOMAIN x = 1 .. z.len /\ DOMAIN x2 = 1 .. z.len
      /\ \A c \in 1 .. z.len : x[c] \in Element /\ x2[c] \in Element /\ y[c] \in Element /\ y2[c] \in Element
      /\ \A c \in 1 .. z.size : x[c] = x2[c] /\ y[c] = y2[c]
      /\ \A c \in 1 .. z.size : c \in 1 .. z.len
  BY AlikeLanes
<1>2. \A c \in 1 .. z.len : Plus(x[c], y[c]) \in Element /\ Plus(x2[c], y2[c]) \in Element
  BY <1>1, PlusIs
<1>3. /\ LanePlus(x, y) = [c \in 1 .. z.len |-> Plus(x[c], y[c])]
      /\ LanePlus(x2, y2) = [c \in 1 .. z.len |-> Plus(x2[c], y2[c])]
  BY <1>1 DEF LanePlus
<1>4. LanePlus(x, y) \in LanesOf(z) /\ LanePlus(x2, y2) \in LanesOf(z)
  BY <1>2, <1>3 DEF LanesOf
<1>5. \A c \in 1 .. z.size : LanePlus(x, y)[c] = LanePlus(x2, y2)[c]
  BY <1>1, <1>3
<1> QED
  BY <1>4, <1>5 DEF Alike

LEMMA LaneMulAlike ==
  ASSUME NEW z, IsDims(z), NEW y, NEW y2, Alike(y, y2, z), NEW log_m \in Element
  PROVE  Alike(LaneMul(y, log_m), LaneMul(y2, log_m), z)
<1>1. /\ DOMAIN y = 1 .. z.len /\ DOMAIN y2 = 1 .. z.len
      /\ \A c \in 1 .. z.len : y[c] \in Element /\ y2[c] \in Element
      /\ \A c \in 1 .. z.size : y[c] = y2[c]
      /\ \A c \in 1 .. z.size : c \in 1 .. z.len
  BY AlikeLanes
<1>2. \A c \in 1 .. z.len : MulLut[log_m][y[c]] \in Element /\ MulLut[log_m][y2[c]] \in Element
  BY <1>1, MulLutIs
<1>3. /\ LaneMul(y, log_m) = [c \in 1 .. z.len |-> MulLut[log_m][y[c]]]
      /\ LaneMul(y2, log_m) = [c \in 1 .. z.len |-> MulLut[log_m][y2[c]]]
  BY <1>1 DEF LaneMul
<1>4. LaneMul(y, log_m) \in LanesOf(z) /\ LaneMul(y2, log_m) \in LanesOf(z)
  BY <1>2, <1>3 DEF LanesOf
<1>5. \A c \in 1 .. z.size : LaneMul(y, log_m)[c] = LaneMul(y2, log_m)[c]
  BY <1>1, <1>3
<1> QED
  BY <1>4, <1>5 DEF Alike

LEMMA AddMultipleAlike ==
  ASSUME NEW z, IsDims(z), NEW x, NEW x2, Alike(x, x2, z), NEW y, NEW y2, Alike(y, y2, z),
         NEW log_m \in Element
  PROVE  Alike(AddMultiple(x, y, log_m), AddMultiple(x2, y2, log_m), z)
<1>1. Alike(LaneMul(y, log_m), LaneMul(y2, log_m), z)
  BY LaneMulAlike
<1>2. Alike(LanePlus(x, LaneMul(y, log_m)), LanePlus(x2, LaneMul(y2, log_m)), z)
  BY <1>1, LanePlusAlike
<1> QED
  BY <1>2 DEF AddMultiple

LEMMA Dit2Alike ==
  ASSUME NEW z, IsDims(z), NEW x, NEW x2, Alike(x, x2, z), NEW y, NEW y2, Alike(y, y2, z),
         NEW log_m \in Element, NEW dir
  PROVE  /\ Alike(Dit2(dir, x, y, log_m)[1], Dit2(dir, x2, y2, log_m)[1], z)
         /\ Alike(Dit2(dir, x, y, log_m)[2], Dit2(dir, x2, y2, log_m)[2], z)
<1>1. CASE dir = "forward"
  <2> DEFINE p == AddMultiple(x, y, log_m)
             p2 == AddMultiple(x2, y2, log_m)
  <2>1. Alike(p, p2, z)
    BY AddMultipleAlike
  <2>2. /\ Dit2(dir, x, y, log_m) = <<p, LanePlus(y, p)>>
        /\ Dit2(dir, x2, y2, log_m) = <<p2, LanePlus(y2, p2)>>
    BY <1>1 DEF Dit2, FftDit2
  <2> HIDE DEF p, p2
  <2>3. Alike(LanePlus(y, p), LanePlus(y2, p2), z)
    BY <2>1, LanePlusAlike
  <2> QED
    BY <2>1, <2>2, <2>3
<1>2. CASE dir # "forward"
  <2> DEFINE p == LanePlus(y, x)
             p2 == LanePlus(y2, x2)
  <2>1. Alike(p, p2, z)
    BY LanePlusAlike
  <2>2. /\ Dit2(dir, x, y, log_m) = <<AddMultiple(x, p, log_m), p>>
        /\ Dit2(dir, x2, y2, log_m) = <<AddMultiple(x2, p2, log_m), p2>>
    BY <1>2 DEF Dit2, IfftDit2
  <2> HIDE DEF p, p2
  <2>3. Alike(AddMultiple(x, p, log_m), AddMultiple(x2, p2, log_m), z)
    BY <2>1, AddMultipleAlike
  <2> QED
    BY <2>1, <2>2, <2>3
<1> QED
  BY <1>1, <1>2

Butterflies == [i : Int, j : Int, at : SkewPositions]

LEMMA PairAlike ==
  ASSUME NEW z, IsDims(z), NEW v, NEW w, AreasAlike(v, w, z), NEW step \in Butterflies, NEW dir
  PROVE  AreasAlike(Pair(dir, v, step), Pair(dir, w, step), z)
<1>1. DOMAIN v = Lanes(z.n) /\ DOMAIN w = Lanes(z.n)
  BY DEF AreasAlike, AreasOf
<1>2. CASE {step.i, step.j} \subseteq Lanes(z.n)
  <2> DEFINE a == Dit2(dir, v[step.i], v[step.j], FftSkew[step.at])
             b == Dit2(dir, w[step.i], w[step.j], FftSkew[step.at])
  <2>1. FftSkew[step.at] \in Element
    BY FftSkewIs DEF Butterflies
  <2>2. Alike(v[step.i], w[step.i], z) /\ Alike(v[step.j], w[step.j], z)
    BY <1>2 DEF AreasAlike
  <2>3. Alike(a[1], b[1], z) /\ Alike(a[2], b[2], z)
    BY <2>1, <2>2, Dit2Alike
  <2>4. /\ Pair(dir, v, step) = [v EXCEPT ![step.i] = a[1], ![step.j] = a[2]]
        /\ Pair(dir, w, step) = [w EXCEPT ![step.i] = b[1], ![step.j] = b[2]]
    BY <1>1, <1>2 DEF Pair
  <2> HIDE DEF a, b
  <2>5. /\ Pair(dir, v, step) = [l \in Lanes(z.n) |-> IF l = step.j THEN a[2]
                                    ELSE IF l = step.i THEN a[1] ELSE v[l]]
        /\ Pair(dir, w, step) = [l \in Lanes(z.n) |-> IF l = step.j THEN b[2]
                                    ELSE IF l = step.i THEN b[1] ELSE w[l]]
    BY <1>1, <1>2, <2>4
  <2>6. \A l \in Lanes(z.n) : Alike(Pair(dir, v, step)[l], Pair(dir, w, step)[l], z)
    BY <2>3, <2>5 DEF AreasAlike
  <2> QED
    BY <2>5, <2>6 DEF AreasAlike, Alike, AreasOf
<1>3. CASE ~({step.i, step.j} \subseteq Lanes(z.n))
  <2>1. Pair(dir, v, step) = v /\ Pair(dir, w, step) = w
    BY <1>1, <1>3 DEF Pair
  <2> QED
    BY <2>1
<1> QED
  BY <1>2, <1>3

\* The steps of a transform, one after another.
Run(dir, lanes, steps) ==
  CHOOSE run : run = [k \in 0 .. Len(steps) |->
                        IF k = 0 THEN lanes ELSE Pair(dir, run[k - 1], steps[k])]

LEMMA RunIs ==
  ASSUME NEW z, IsDims(z), NEW v \in AreasOf(z), NEW steps \in Seq(Butterflies), NEW dir
  PROVE  /\ RunSteps(dir, v, steps) = Run(dir, v, steps)[Len(steps)]
         /\ Run(dir, v, steps)[0] = v
         /\ \A k \in 1 .. Len(steps) :
              Run(dir, v, steps)[k] = Pair(dir, Run(dir, v, steps)[k - 1], steps[k])
<1> DEFINE Is(f) == f = [k \in 0 .. Len(steps) |->
                           IF k = 0 THEN v ELSE Pair(dir, f[k - 1], steps[k])]
<1>1. PICK n \in Nat : n = Len(steps)
  BY LenProperties
<1> DEFINE S == [k \in 1 .. n |-> [x \in AreasOf(z) |-> Pair(dir, x, steps[k])]]
<1>2. ASSUME NEW k \in 1 .. n, NEW x \in AreasOf(z)
      PROVE  Pair(dir, x, steps[k]) \in AreasOf(z)
  <2>1. steps[k] \in Butterflies
    BY <1>1, ElementOfSeq
  <2>2. AreasAlike(x, x, z)
    BY DEF AreasAlike, Alike, AreasOf
  <2>3. AreasAlike(Pair(dir, x, steps[k]), Pair(dir, x, steps[k]), z)
    BY <2>1, <2>2, PairAlike
  <2> QED
    BY <2>3 DEF AreasAlike
<1>3. \A k \in 1 .. n : \A x \in AreasOf(z) :
        S[k][x] = Pair(dir, x, steps[k]) /\ S[k][x] \in AreasOf(z)
  BY <1>2
<1> HIDE DEF S
<1>4. StaysIn(AreasOf(z), n, S)
  BY <1>3 DEF StaysIn
<1>5. PICK f : Recursion(f, n, v, S) /\ \A k \in 0 .. n : f[k] \in AreasOf(z)
  BY <1>1, <1>4, Iteration
<1>6. ASSUME NEW k \in 0 .. n
      PROVE  (IF k = 0 THEN v ELSE S[k][f[k - 1]]) = IF k = 0 THEN v ELSE Pair(dir, f[k - 1], steps[k])
  <2>1. k # 0 => k \in 1 .. n /\ k - 1 \in 0 .. n
    BY <1>1
  <2> QED
    BY <1>3, <1>5, <2>1
<1>7. Is(f)
  BY <1>1, <1>5, <1>6 DEF Recursion
<1>8. Is(Run(dir, v, steps))
  BY <1>7 DEF Run
<1>9. RunSteps(dir, v, steps) = Run(dir, v, steps)[Len(steps)]
  BY DEF RunSteps, Run
<1> QED
  BY <1>1, <1>8, <1>9

LEMMA RunStepsAlike ==
  ASSUME NEW z, IsDims(z), NEW v, NEW w, AreasAlike(v, w, z),
         NEW steps \in Seq(Butterflies), NEW dir
  PROVE  AreasAlike(RunSteps(dir, v, steps), RunSteps(dir, w, steps), z)
<1> DEFINE f == Run(dir, v, steps)
           g == Run(dir, w, steps)
<1>1. PICK n \in Nat : n = Len(steps)
  BY LenProperties
<1>2. v \in AreasOf(z) /\ w \in AreasOf(z)
  BY DEF AreasAlike
<1>3. /\ RunSteps(dir, v, steps) = f[n] /\ f[0] = v
      /\ \A k \in 1 .. n : f[k] = Pair(dir, f[k - 1], steps[k])
  BY <1>1, <1>2, RunIs
<1>4. /\ RunSteps(dir, w, steps) = g[n] /\ g[0] = w
      /\ \A k \in 1 .. n : g[k] = Pair(dir, g[k - 1], steps[k])
  BY <1>1, <1>2, RunIs
<1> HIDE DEF f, g
<1> DEFINE good == {k \in 0 .. n : AreasAlike(f[k], g[k], z)}
<1>5. 0 \in good
  BY <1>1, <1>3, <1>4
<1>6. ASSUME NEW k \in 0 .. n - 1, k \in good
      PROVE  k + 1 \in good
  <2>1. k + 1 \in 1 .. n /\ (k + 1) - 1 = k
    BY <1>1
  <2>2. steps[k + 1] \in Butterflies
    BY <1>1, <2>1, ElementOfSeq
  <2>3. AreasAlike(Pair(dir, f[k], steps[k + 1]), Pair(dir, g[k], steps[k + 1]), z)
    BY <1>6, <2>2, PairAlike
  <2>4. f[k + 1] = Pair(dir, f[k], steps[k + 1]) /\ g[k + 1] = Pair(dir, g[k], steps[k + 1])
    BY <1>3, <1>4, <2>1
  <2> QED
    BY <2>1, <2>3, <2>4
<1>7. \A k \in 0 .. n : k \in good
  <2> HIDE DEF good
  <2> QED
    BY <1>1, <1>5, <1>6, UpTo
<1> QED
  BY <1>1, <1>3, <1>4, <1>7

\* Sequences of sequences, joined.
LEMMA FlattenIs ==
  ASSUME NEW T, NEW ss \in Seq(Seq(T))
  PROVE  FlattenSeq(ss) \in Seq(T)
<1>1. PICK n \in Nat : n = Len(ss)
  BY LenProperties
<1>2. \A k \in 1 .. n : ss[k] \in Seq(T)
  BY <1>1, ElementOfSeq
<1>3. CASE n = 0
  <2>1. FlattenSeq(ss) = ss
    BY <1>1, <1>3 DEF FlattenSeq
  <2>2. ss = <<>>
    BY <1>1, <1>3, EmptySeq
  <2> QED
    BY <2>1, <2>2, EmptySeq
<1>4. CASE n # 0
  <2> DEFINE Is(f) == f = [i \in 1 .. n |-> IF i = 1 THEN ss[i] ELSE f[i - 1] \o ss[i]]
             flatten == CHOOSE f : Is(f)
             S == [k \in 1 .. n - 1 |-> [x \in Seq(T) |-> x \o ss[k + 1]]]
  <2>1. PICK m \in Nat : m = n - 1
    <3>1. n - 1 \in Nat
      BY <1>1, <1>4
    <3> QED
      BY <3>1
  <2>2. \A k \in 1 .. m : \A x \in Seq(T) : S[k][x] = x \o ss[k + 1] /\ S[k][x] \in Seq(T)
    <3>1. ASSUME NEW k \in 1 .. m, NEW x \in Seq(T)
          PROVE  x \o ss[k + 1] \in Seq(T)
      <4>1. k + 1 \in 1 .. n
        BY <2>1
      <4>2. ss[k + 1] \in Seq(T)
        BY <1>2, <4>1
      <4> QED
        BY <4>2, ConcatProperties
    <3> QED
      BY <2>1, <3>1
  <2> HIDE DEF S
  <2>3. StaysIn(Seq(T), m, S) /\ ss[1] \in Seq(T)
    BY <1>2, <1>4, <2>2 DEF StaysIn
  <2>4. PICK g : Recursion(g, m, ss[1], S) /\ \A k \in 0 .. m : g[k] \in Seq(T)
    BY <2>1, <2>3, Iteration
  <2> DEFINE f == [i \in 1 .. n |-> g[i - 1]]
  <2>5. ASSUME NEW i \in 1 .. n
        PROVE  f[i] = IF i = 1 THEN ss[i] ELSE f[i - 1] \o ss[i]
    <3>1. i - 1 \in 0 .. m
      BY <2>1
    <3>2. CASE i = 1
      BY <2>4, <3>1, <3>2 DEF Recursion
    <3>3. CASE i # 1
      <4>1. i - 1 \in 1 .. m /\ (i - 1) - 1 \in 0 .. m /\ i - 1 \in 1 .. n /\ (i - 1) + 1 = i
        BY <2>1, <3>3
      <4>2. g[i - 1] = S[i - 1][g[(i - 1) - 1]]
        BY <2>4, <3>1, <4>1 DEF Recursion
      <4>3. g[i - 1] = g[(i - 1) - 1] \o ss[i]
        BY <2>2, <2>4, <4>1, <4>2
      <4> QED
        BY <3>3, <4>1, <4>3
    <3> QED
      BY <3>2, <3>3
  <2>6. f = [i \in 1 .. n |-> f[i]]
    OBVIOUS
  <2> HIDE DEF f
  <2>7. Is(f)
    BY <2>5, <2>6
  <2>8. Is(flatten)
    BY <2>7
  <2>9. FlattenSeq(ss) = flatten[n]
    BY <1>1, <1>4 DEF FlattenSeq
  <2> HIDE DEF flatten
  <2> DEFINE good == {k \in 0 .. m : flatten[k + 1] \in Seq(T)}
  <2>10. flatten[1] = ss[1] /\ \A i \in 2 .. n : flatten[i] = flatten[i - 1] \o ss[i]
    <3>1. \A i \in 1 .. n : flatten[i] = IF i = 1 THEN ss[i] ELSE flatten[i - 1] \o ss[i]
      BY <2>8
    <3>2. 1 \in 1 .. n /\ \A i \in 2 .. n : i \in 1 .. n /\ i # 1
      BY <1>1, <1>4
    <3> QED
      BY <3>1, <3>2
  <2>11. 0 \in good
    BY <2>1, <2>3, <2>10
  <2>12. ASSUME NEW k \in 0 .. m - 1, k \in good
         PROVE  k + 1 \in good
    <3>1. k + 2 \in 2 .. n /\ (k + 2) - 1 = k + 1 /\ k + 2 \in 1 .. n /\ (k + 1) + 1 = k + 2
      BY <2>1
    <3>2. flatten[k + 2] = flatten[k + 1] \o ss[k + 2]
      BY <2>10, <3>1
    <3>3. ss[k + 2] \in Seq(T)
      BY <1>2, <3>1
    <3>4. flatten[k + 2] \in Seq(T)
      BY <2>12, <3>2, <3>3, ConcatProperties
    <3> QED
      BY <2>1, <3>1, <3>4
  <2>13. \A k \in 0 .. m : k \in good
    <3> HIDE DEF good
    <3> QED
      BY <2>1, <2>11, <2>12, UpTo
  <2>14. m \in 0 .. m /\ m + 1 = n
    BY <2>1
  <2> QED
    BY <2>9, <2>13, <2>14
<1> QED
  BY <1>3, <1>4

----------------------------------------------------------------------------
(* Plans.                                                                     *)

\* Blocks whose factors are at the positions P.
BlocksIn(P) == [r : Int, dist : Nat, m01 : P, m02 : P, m23 : P]
PairsIn(P)  == [r : Int, dist : Nat, m : P]
Blocks4 == BlocksIn(SkewPositions)
Blocks2 == PairsIn(SkewPositions)

LEMMA FourStepsAre ==
  ASSUME NEW b \in Blocks4, NEW a \in Int, NEW dir
  PROVE  /\ dit4_pairwise_one(dir, b, a) \in Seq(Butterflies)
         /\ FourLanes(dir, b, a) \in Seq(Butterflies)
<1> DEFINE s1 == Step(a, a + 2 * b.dist, b.m02)
           s2 == Step(a + b.dist, a + 3 * b.dist, b.m02)
           s3 == Step(a, a + b.dist, b.m01)
           s4 == Step(a + 2 * b.dist, a + 3 * b.dist, b.m23)
<1>1. /\ s1 \in Butterflies /\ s2 \in Butterflies
      /\ s3 \in Butterflies /\ s4 \in Butterflies
  BY DEF Blocks4, BlocksIn, Butterflies, Step
<1>2. /\ dit4_pairwise_one(dir, b, a) =
           IF dir = "forward" THEN <<s1, s2>> \o <<s3, s4>> ELSE <<s3, s4>> \o <<s1, s2>>
      /\ FourLanes(dir, b, a) =
           IF dir = "forward" THEN <<s1, s2>> \o <<s3, s4>> ELSE <<s3, s4, s2, s1>>
  BY DEF dit4_pairwise_one, FourLanes, fft_dit4, ifft_dit4
<1> HIDE DEF s1, s2, s3, s4
<1>3. /\ <<s1, s2>> \in Seq(Butterflies) /\ <<s3, s4>> \in Seq(Butterflies)
      /\ <<s3, s4, s2, s1>> \in Seq(Butterflies)
  BY <1>1
<1>4. /\ <<s1, s2>> \o <<s3, s4>> \in Seq(Butterflies)
      /\ <<s3, s4>> \o <<s1, s2>> \in Seq(Butterflies)
  BY <1>3, ConcatProperties
<1> QED
  BY <1>2, <1>3, <1>4

\* A function on 1 .. n is a sequence.
LEMMA IsASequence ==
  ASSUME NEW n \in Nat, NEW T, NEW f, f \in [1 .. n -> T]
  PROVE  f \in Seq(T) /\ Len(f) = n
BY IsASeq

LEMMA PlanStepsAre ==
  ASSUME NEW blocks \in Seq(Blocks4), NEW lanes \in Int, NEW dir
  PROVE  PlanSteps(dir, blocks, lanes, "DirectSafe") \in Seq(Butterflies)
<1>1. ASSUME NEW b \in Blocks4
      PROVE  dit4_at(dir, b, lanes, "DirectSafe") \in Seq(Butterflies)
  <2> DEFINE group == [k \in 1 .. b.dist |->
               LET a == b.r + k - 1
               IN IF a + 3 * b.dist < lanes THEN FourLanes(dir, b, a)
                  ELSE dit4_pairwise_one(dir, b, a)]
  <2>1. b.dist \in Nat /\ b.r \in Int
    BY DEF Blocks4, BlocksIn
  <2>2. \A k \in 1 .. b.dist : b.r + k - 1 \in Int
    BY <2>1
  <2>3. \A k \in 1 .. b.dist : group[k] \in Seq(Butterflies)
    BY <2>2, FourStepsAre
  <2>4. group \in [1 .. b.dist -> Seq(Butterflies)]
    BY <2>3
  <2>5. dit4_at(dir, b, lanes, "DirectSafe") = FlattenSeq(group)
    BY DEF dit4_at, dit4_at_direct_safe
  <2> HIDE DEF group
  <2>6. group \in Seq(Seq(Butterflies))
    BY <2>1, <2>4, IsASequence
  <2> QED
    BY <2>5, <2>6, FlattenIs
<1> DEFINE steps == [k \in DOMAIN blocks |-> dit4_at(dir, blocks[k], lanes, "DirectSafe")]
<1>2. PICK n \in Nat : n = Len(blocks) /\ DOMAIN blocks = 1 .. n
  BY LenProperties
<1>3. \A k \in 1 .. n : blocks[k] \in Blocks4
  BY <1>2, ElementOfSeq
<1>4. steps \in [1 .. n -> Seq(Butterflies)]
  BY <1>1, <1>2, <1>3
<1>5. PlanSteps(dir, blocks, lanes, "DirectSafe") = FlattenSeq(steps)
  BY DEF PlanSteps
<1> HIDE DEF steps
<1>6. steps \in Seq(Seq(Butterflies))
  BY <1>2, <1>4, IsASequence
<1> QED
  BY <1>5, <1>6, FlattenIs

LEMMA Radix2StepsAre ==
  ASSUME NEW blocks \in Seq(Blocks2)
  PROVE  Radix2Steps(blocks) \in Seq(Butterflies)
<1> DEFINE Of(b) == [i \in 1 .. b.dist |-> Step(b.r + i - 1, b.r + i - 1 + b.dist, b.m)]
           steps == [k \in DOMAIN blocks |-> Of(blocks[k])]
<1>1. ASSUME NEW b \in Blocks2
      PROVE  Of(b) \in Seq(Butterflies)
  <2>1. b.dist \in Nat /\ b.r \in Int /\ b.m \in SkewPositions
    BY DEF Blocks2, PairsIn
  <2>2. \A i \in 1 .. b.dist : Step(b.r + i - 1, b.r + i - 1 + b.dist, b.m) \in Butterflies
    BY <2>1 DEF Butterflies, Step
  <2>3. Of(b) \in [1 .. b.dist -> Butterflies]
    BY <2>2
  <2> HIDE DEF Of
  <2> QED
    BY <2>1, <2>3, IsASequence
<1>2. PICK n \in Nat : n = Len(blocks) /\ DOMAIN blocks = 1 .. n
  BY LenProperties
<1>3. \A k \in 1 .. n : blocks[k] \in Blocks2
  BY <1>2, ElementOfSeq
<1>4. Radix2Steps(blocks) = FlattenSeq(steps)
  BY DEF Radix2Steps
<1> HIDE DEF Of
<1>5. steps \in [1 .. n -> Seq(Butterflies)]
  BY <1>1, <1>2, <1>3
<1> HIDE DEF steps
<1>6. steps \in Seq(Seq(Butterflies))
  BY <1>2, <1>5, IsASequence
<1> QED
  BY <1>4, <1>6, FlattenIs

\* A block of D lanes that starts below mtrunc ends within n.
LEMMA BlockEnds ==
  ASSUME NEW D \in TwoPowers, NEW n \in TwoPowers, D <= n, NEW mtrunc \in Nat,
         NEW k \in 1 .. (mtrunc + D - 1) \div D
  PROVE  /\ (k - 1) * D \in Nat
         /\ mtrunc <= n => (k - 1) * D + D <= n
<1>1. D = 1 \/ D = 2 \/ D = 4 \/ D = 8 \/ D = 16 \/ D = 32 \/
      D = 64 \/ D = 128 \/ D = 256 \/ D = 512 \/ D = 1024 \/
      D = 2048 \/ D = 4096 \/ D = 8192 \/ D = 16384 \/ D = 32768 \/ D = 65536
  BY DEF TwoPowers
<1>2. CASE D = 1
  BY <1>2 DEF TwoPowers
<1>3. CASE D = 2
  BY <1>3 DEF TwoPowers
<1>4. CASE D = 4
  BY <1>4 DEF TwoPowers
<1>5. CASE D = 8
  BY <1>5 DEF TwoPowers
<1>6. CASE D = 16
  BY <1>6 DEF TwoPowers
<1>7. CASE D = 32
  BY <1>7 DEF TwoPowers
<1>8. CASE D = 64
  BY <1>8 DEF TwoPowers
<1>9. CASE D = 128
  BY <1>9 DEF TwoPowers
<1>10. CASE D = 256
  BY <1>10 DEF TwoPowers
<1>11. CASE D = 512
  BY <1>11 DEF TwoPowers
<1>12. CASE D = 1024
  BY <1>12 DEF TwoPowers
<1>13. CASE D = 2048
  BY <1>13 DEF TwoPowers
<1>14. CASE D = 4096
  BY <1>14 DEF TwoPowers
<1>15. CASE D = 8192
  BY <1>15 DEF TwoPowers
<1>16. CASE D = 16384
  BY <1>16 DEF TwoPowers
<1>17. CASE D = 32768
  BY <1>17 DEF TwoPowers
<1>18. CASE D = 65536
  BY <1>18 DEF TwoPowers
<1> QED
  BY <1>1, <1>2, <1>3, <1>4, <1>5, <1>6, <1>7, <1>8, <1>9,
     <1>10, <1>11, <1>12, <1>13, <1>14, <1>15, <1>16, <1>17, <1>18

LEMMA QuarterIs ==
  ASSUME NEW n \in TwoPowers, NEW f \in FourPowers, f >= 4, f <= n
  PROVE  n \div f \in TwoPowers /\ 4 * (n \div f) \in TwoPowers /\ 4 * (n \div f) <= n
<1>1. f = 4 \/ f = 16 \/ f = 64 \/ f = 256 \/
      f = 1024 \/ f = 4096 \/ f = 16384 \/ f = 65536
  BY DEF FourPowers
<1>2. CASE f = 4
  BY <1>2 DEF TwoPowers
<1>3. CASE f = 16
  BY <1>3 DEF TwoPowers
<1>4. CASE f = 64
  BY <1>4 DEF TwoPowers
<1>5. CASE f = 256
  BY <1>5 DEF TwoPowers
<1>6. CASE f = 1024
  BY <1>6 DEF TwoPowers
<1>7. CASE f = 4096
  BY <1>7 DEF TwoPowers
<1>8. CASE f = 16384
  BY <1>8 DEF TwoPowers
<1>9. CASE f = 65536
  BY <1>9 DEF TwoPowers
<1> QED
  BY <1>1, <1>2, <1>3, <1>4, <1>5, <1>6, <1>7, <1>8, <1>9

\* The blocks of a plan are within the table when they cover lanes of half the
\* field at most; those of an encoding may be anywhere.
Within(P, mtrunc, n, base) ==
  \/ P = Int
  \/ P = SkewPositions /\ base = -1 /\ mtrunc <= n /\ 2 * n <= Order

StageOf(dist, mtrunc, base) ==
  [k \in DOMAIN BlockStarts(4 * dist, mtrunc) |->
     Stage4Block(BlockStarts(4 * dist, mtrunc)[k], dist,
                 base + BlockStarts(4 * dist, mtrunc)[k] + dist)]

LEMMA StageIs ==
  ASSUME NEW P, NEW mtrunc \in Nat, NEW n \in TwoPowers, NEW base \in Int,
         Within(P, mtrunc, n, base),
         NEW dist \in TwoPowers, 4 * dist \in TwoPowers, 4 * dist <= n
  PROVE  /\ StageOf(dist, mtrunc, base) \in Seq(BlocksIn(P))
         /\ Len(StageOf(dist, mtrunc, base)) = (mtrunc + 4 * dist - 1) \div (4 * dist)
         /\ \A k \in 1 .. (mtrunc + 4 * dist - 1) \div (4 * dist) :
              StageOf(dist, mtrunc, base)[k].r = (k - 1) * (4 * dist)
<1> DEFINE last == (mtrunc + 4 * dist - 1) \div (4 * dist)
           s == StageOf(dist, mtrunc, base)
<1>1. n \in Nat /\ dist \in Nat /\ dist >= 1 /\ last \in Nat
  BY DEF TwoPowers
<1>2. /\ DOMAIN BlockStarts(4 * dist, mtrunc) = 1 .. last
      /\ \A k \in 1 .. last : BlockStarts(4 * dist, mtrunc)[k] = (k - 1) * (4 * dist)
  BY DEF BlockStarts
<1>3. ASSUME NEW k \in 1 .. last
      PROVE  /\ s[k] \in BlocksIn(P)
             /\ s[k].r = (k - 1) * (4 * dist)
  <2>1. PICK r \in Nat : r = (k - 1) * (4 * dist) /\ (mtrunc <= n => r + 4 * dist <= n)
    BY BlockEnds
  <2>2. s[k] = [r |-> r, dist |-> dist, m01 |-> base + r + dist,
                m02 |-> base + r + dist + dist, m23 |-> base + r + dist + 2 * dist]
    BY <1>2, <2>1 DEF StageOf, Stage4Block
  <2>3. CASE P = Int
    BY <1>1, <2>1, <2>2, <2>3 DEF BlocksIn
  <2>4. CASE P # Int
    <3>1. P = SkewPositions /\ base = -1 /\ mtrunc <= n /\ 2 * n <= Order
      BY <2>4 DEF Within
    <3>2. \A x \in 0 .. n - 1 : x \in SkewPositions
      BY <1>1, <3>1, Orders DEF SkewPositions
    <3>3. /\ base + r + dist \in 0 .. n - 1
          /\ base + r + dist + dist \in 0 .. n - 1
          /\ base + r + dist + 2 * dist \in 0 .. n - 1
      BY <1>1, <2>1, <3>1
    <3>4. /\ base + r + dist \in P
          /\ base + r + dist + dist \in P
          /\ base + r + dist + 2 * dist \in P
      BY <3>1, <3>2, <3>3
    <3> QED
      BY <1>1, <2>1, <2>2, <3>4 DEF BlocksIn
  <2> QED
    BY <2>1, <2>2, <2>3, <2>4
<1>4. s \in [1 .. last -> BlocksIn(P)]
  BY <1>2, <1>3 DEF StageOf
<1> HIDE DEF s
<1>5. s \in Seq(BlocksIn(P)) /\ Len(s) = last
  BY <1>1, <1>4, IsASequence
<1> QED
  BY <1>3, <1>5 DEF s

LEMMA FftPlanIs ==
  ASSUME NEW P, NEW mtrunc \in Nat, NEW n \in TwoPowers, Within(P, mtrunc, n, -1)
  PROVE  /\ build_fft_plan(mtrunc, n).stage4_blocks \in Seq(BlocksIn(P))
         /\ build_fft_plan(mtrunc, n).final_stage \in Seq(PairsIn(P))
<1> DEFINE stages == [k \in 1 .. Bitwidth |->
                        IF n < FourTo(k) THEN <<>> ELSE StageOf(n \div FourTo(k), mtrunc, -1)]
           pairs == [k \in DOMAIN BlockStarts(2, mtrunc) |->
                       Stage2Block(BlockStarts(2, mtrunc)[k], 1, BlockStarts(2, mtrunc)[k])]
           last == (mtrunc + 1) \div 2
<1>1. ASSUME NEW k \in 1 .. Bitwidth
      PROVE  stages[k] \in Seq(BlocksIn(P))
  <2>1. CASE n < FourTo(k)
    <3>1. stages[k] = <<>>
      BY <2>1
    <3> QED
      BY <3>1, EmptySeq
  <2>2. CASE ~(n < FourTo(k))
    <3>1. k \in 0 .. 16 /\ k > 0
      BY Orders
    <3>2. FourTo(k) \in Nat /\ FourTo(k) >= 4 /\ (k <= 8 => FourTo(k) \in FourPowers)
            /\ (k > 8 => FourTo(k) > 65536)
      BY <3>1, FourPowerIs
    <3>3. n \in Nat /\ n <= 65536 /\ k \in Nat
      BY <3>1 DEF TwoPowers
    <3>4. FourTo(k) \in FourPowers /\ FourTo(k) <= n
      BY <2>2, <3>2, <3>3
    <3>5. PICK dist \in TwoPowers : /\ dist = n \div FourTo(k)
                                    /\ 4 * dist \in TwoPowers /\ 4 * dist <= n
      BY <3>2, <3>4, QuarterIs
    <3>6. stages[k] = StageOf(dist, mtrunc, -1)
      BY <2>2, <3>5
    <3>7. -1 \in Int
      OBVIOUS
    <3> HIDE DEF stages
    <3> QED
      BY <3>5, <3>6, <3>7, StageIs
  <2> QED
    BY <2>1, <2>2
<1>2. PICK b \in Nat : b = Bitwidth
  BY Orders
<1>3. stages \in [1 .. b -> Seq(BlocksIn(P))]
  BY <1>1, <1>2
<1>4. build_fft_plan(mtrunc, n).stage4_blocks = FlattenSeq(stages)
  <2>1. ASSUME NEW dist \in Int, NEW k \in DOMAIN BlockStarts(4 * dist, mtrunc)
        PROVE  BlockStarts(4 * dist, mtrunc)[k] \in Int
    <3>1. k \in Int /\ k - 1 \in Int /\ 4 * dist \in Int
      BY DEF BlockStarts
    <3> QED
      BY <3>1 DEF BlockStarts
  <2>2. ASSUME NEW dist \in Int
        PROVE  StageOf(dist, mtrunc, -1) =
                 [k \in DOMAIN BlockStarts(4 * dist, mtrunc) |->
                   LET r == BlockStarts(4 * dist, mtrunc)[k]
                   IN Stage4Block(r, dist, r + dist - 1)]
    <3>1. ASSUME NEW k \in DOMAIN BlockStarts(4 * dist, mtrunc)
          PROVE  -1 + BlockStarts(4 * dist, mtrunc)[k] + dist
                   = BlockStarts(4 * dist, mtrunc)[k] + dist - 1
      BY <2>1
    <3> QED
      BY <3>1 DEF StageOf
  <2>3. ASSUME NEW k \in 1 .. Bitwidth
        PROVE  n \div FourTo(k) \in Int
    <3>1. k \in 0 .. 16 /\ n \in Nat
      BY Orders DEF TwoPowers
    <3> QED
      BY <3>1, FourPowerIs
  <2>4. stages = [k \in 1 .. Bitwidth |->
                   IF n < FourTo(k) THEN <<>>
                   ELSE [j \in DOMAIN BlockStarts(4 * (n \div FourTo(k)), mtrunc) |->
                          LET r == BlockStarts(4 * (n \div FourTo(k)), mtrunc)[j]
                          IN Stage4Block(r, n \div FourTo(k), r + (n \div FourTo(k)) - 1)]]
    BY <2>2, <2>3
  <2> HIDE DEF stages
  <2> QED
    BY <2>4 DEF build_fft_plan, FourTo
<1>5. ASSUME NEW k \in 1 .. last
      PROVE  pairs[k] \in PairsIn(P)
  <2>1. n \in Nat /\ k \in Nat
    BY DEF TwoPowers
  <2>2. PICK r \in Nat : r = (k - 1) * 2 /\ r < mtrunc
    BY <2>1
  <2>3. pairs[k] = [r |-> r, dist |-> 1, m |-> r]
    BY <2>2 DEF BlockStarts, Stage2Block
  <2>4. r \in P
    <3>1. P # Int => r \in SkewPositions /\ P = SkewPositions
      BY <2>1, <2>2, Orders DEF Within, SkewPositions
    <3> QED
      BY <3>1
  <2> QED
    BY <2>3, <2>4 DEF PairsIn
<1>6. last \in Nat /\ pairs \in [1 .. last -> PairsIn(P)]
  <2>1. DOMAIN BlockStarts(2, mtrunc) = 1 .. last /\ last \in Nat
    BY DEF BlockStarts
  <2> QED
    BY <1>5, <2>1
<1>7. build_fft_plan(mtrunc, n).final_stage \in {<<>>, pairs}
  BY DEF build_fft_plan
<1> HIDE DEF stages, pairs
<1>8. stages \in Seq(Seq(BlocksIn(P))) /\ pairs \in Seq(PairsIn(P))
  BY <1>2, <1>3, <1>6, IsASequence
<1> QED
  BY <1>4, <1>7, <1>8, FlattenIs, EmptySeq

\* The largest power of four that is not above n.
LEMMA LargestFour ==
  ASSUME NEW n \in TwoPowers, n <= Modulus
  PROVE  \E k \in 0 .. Bitwidth : FourTo(k) \in TwoPowers /\ FourTo(k) <= n /\ 4 * FourTo(k) > n
<1>1. n = 1 \/ n = 2 \/ n = 4 \/ n = 8 \/ n = 16 \/ n = 32 \/
      n = 64 \/ n = 128 \/ n = 256 \/ n = 512 \/ n = 1024 \/
      n = 2048 \/ n = 4096 \/ n = 8192 \/ n = 16384 \/ n = 32768
  BY Orders DEF TwoPowers
<1>2. CASE n = 1
  <2>1. FourTo(0) = 1 /\ 0 \in 0 .. Bitwidth
    <3>1. FourTo(0) = 1
      BY Z3 DEF FourTo
    <3> QED
      BY <1>2, <3>1, Orders
  <2> QED
    BY <1>2, <2>1 DEF TwoPowers
<1>3. CASE n = 2
  <2>1. FourTo(0) = 1 /\ 0 \in 0 .. Bitwidth
    <3>1. FourTo(0) = 1
      BY Z3 DEF FourTo
    <3> QED
      BY <1>3, <3>1, Orders
  <2> QED
    BY <1>3, <2>1 DEF TwoPowers
<1>4. CASE n = 4
  <2>1. FourTo(1) = 4 /\ 1 \in 0 .. Bitwidth
    <3>1. FourTo(1) = 4
      BY Z3 DEF FourTo
    <3> QED
      BY <1>4, <3>1, Orders
  <2> QED
    BY <1>4, <2>1 DEF TwoPowers
<1>5. CASE n = 8
  <2>1. FourTo(1) = 4 /\ 1 \in 0 .. Bitwidth
    <3>1. FourTo(1) = 4
      BY Z3 DEF FourTo
    <3> QED
      BY <1>5, <3>1, Orders
  <2> QED
    BY <1>5, <2>1 DEF TwoPowers
<1>6. CASE n = 16
  <2>1. FourTo(2) = 16 /\ 2 \in 0 .. Bitwidth
    <3>1. FourTo(2) = 16
      BY Z3 DEF FourTo
    <3> QED
      BY <1>6, <3>1, Orders
  <2> QED
    BY <1>6, <2>1 DEF TwoPowers
<1>7. CASE n = 32
  <2>1. FourTo(2) = 16 /\ 2 \in 0 .. Bitwidth
    <3>1. FourTo(2) = 16
      BY Z3 DEF FourTo
    <3> QED
      BY <1>7, <3>1, Orders
  <2> QED
    BY <1>7, <2>1 DEF TwoPowers
<1>8. CASE n = 64
  <2>1. FourTo(3) = 64 /\ 3 \in 0 .. Bitwidth
    <3>1. FourTo(3) = 64
      BY Z3 DEF FourTo
    <3> QED
      BY <1>8, <3>1, Orders
  <2> QED
    BY <1>8, <2>1 DEF TwoPowers
<1>9. CASE n = 128
  <2>1. FourTo(3) = 64 /\ 3 \in 0 .. Bitwidth
    <3>1. FourTo(3) = 64
      BY Z3 DEF FourTo
    <3> QED
      BY <1>9, <3>1, Orders
  <2> QED
    BY <1>9, <2>1 DEF TwoPowers
<1>10. CASE n = 256
  <2>1. FourTo(4) = 256 /\ 4 \in 0 .. Bitwidth
    <3>1. FourTo(4) = 256
      BY Z3 DEF FourTo
    <3> QED
      BY <1>10, <3>1, Orders
  <2> QED
    BY <1>10, <2>1 DEF TwoPowers
<1>11. CASE n = 512
  <2>1. FourTo(4) = 256 /\ 4 \in 0 .. Bitwidth
    <3>1. FourTo(4) = 256
      BY Z3 DEF FourTo
    <3> QED
      BY <1>11, <3>1, Orders
  <2> QED
    BY <1>11, <2>1 DEF TwoPowers
<1>12. CASE n = 1024
  <2>1. FourTo(5) = 1024 /\ 5 \in 0 .. Bitwidth
    <3>1. FourTo(5) = 1024
      BY Z3 DEF FourTo
    <3> QED
      BY <1>12, <3>1, Orders
  <2> QED
    BY <1>12, <2>1 DEF TwoPowers
<1>13. CASE n = 2048
  <2>1. FourTo(5) = 1024 /\ 5 \in 0 .. Bitwidth
    <3>1. FourTo(5) = 1024
      BY Z3 DEF FourTo
    <3> QED
      BY <1>13, <3>1, Orders
  <2> QED
    BY <1>13, <2>1 DEF TwoPowers
<1>14. CASE n = 4096
  <2>1. FourTo(6) = 4096 /\ 6 \in 0 .. Bitwidth
    <3>1. FourTo(6) = 4096
      BY Z3 DEF FourTo
    <3> QED
      BY <1>14, <3>1, Orders
  <2> QED
    BY <1>14, <2>1 DEF TwoPowers
<1>15. CASE n = 8192
  <2>1. FourTo(6) = 4096 /\ 6 \in 0 .. Bitwidth
    <3>1. FourTo(6) = 4096
      BY Z3 DEF FourTo
    <3> QED
      BY <1>15, <3>1, Orders
  <2> QED
    BY <1>15, <2>1 DEF TwoPowers
<1>16. CASE n = 16384
  <2>1. FourTo(7) = 16384 /\ 7 \in 0 .. Bitwidth
    <3>1. FourTo(7) = 16384
      BY Z3 DEF FourTo
    <3> QED
      BY <1>16, <3>1, Orders
  <2> QED
    BY <1>16, <2>1 DEF TwoPowers
<1>17. CASE n = 32768
  <2>1. FourTo(7) = 16384 /\ 7 \in 0 .. Bitwidth
    <3>1. FourTo(7) = 16384
      BY Z3 DEF FourTo
    <3> QED
      BY <1>17, <3>1, Orders
  <2> QED
    BY <1>17, <2>1 DEF TwoPowers
<1> QED
  BY <1>1, <1>2, <1>3, <1>4, <1>5, <1>6, <1>7, <1>8, <1>9,
     <1>10, <1>11, <1>12, <1>13, <1>14, <1>15, <1>16, <1>17

LEMMA IfftPlanIs ==
  ASSUME NEW P, NEW mtrunc \in Nat, NEW n \in TwoPowers, n <= Modulus, NEW base \in Int,
         Within(P, mtrunc, n, base)
  PROVE  /\ IfftPlan(mtrunc, n, base).initial_blocks \in Seq(BlocksIn(P))
         /\ IfftPlan(mtrunc, n, base).later_blocks \in Seq(BlocksIn(P))
         /\ IfftPlan(mtrunc, n, base).final_stage \in Seq(PairsIn(P))
         /\ IfftPlan(mtrunc, n, base).m = n /\ IfftPlan(mtrunc, n, base).mtrunc = mtrunc
         /\ IfftPlan(mtrunc, n, base).clear_start = RoundUp4(mtrunc)
         /\ IfftPlan(mtrunc, n, base).initial_blocks =
              IF n >= 4 THEN StageOf(1, mtrunc, base) ELSE <<>>
<1> DEFINE later == [k \in 1 .. Bitwidth |->
                       IF 4 * FourTo(k) > n THEN <<>> ELSE StageOf(FourTo(k), mtrunc, base)]
           fours == {FourTo(k) : k \in 0 .. Bitwidth}
           last == CHOOSE p \in fours : p <= n /\ 4 * p > n
           final == IF last < n THEN <<Stage2Block(0, last, base + last)>> ELSE <<>>
<1>1. n \in Nat /\ n <= 65536
  BY DEF TwoPowers
<1>2. last \in TwoPowers /\ last <= n
  <2>1. PICK k \in 0 .. Bitwidth : FourTo(k) \in TwoPowers /\ FourTo(k) <= n /\ 4 * FourTo(k) > n
    BY LargestFour
  <2>2. \E p \in fours : p <= n /\ 4 * p > n
    BY <2>1
  <2>3. last \in fours /\ last <= n /\ 4 * last > n
    <3> HIDE DEF fours
    <3> QED
      BY <2>2
  <2> HIDE DEF last
  <2>4. PICK j \in 0 .. Bitwidth : last = FourTo(j)
    BY <2>3
  <2>5. j \in 0 .. 16
    BY Orders
  <2>6. /\ j <= 8 => last \in FourPowers
        /\ j > 8 => last > 65536
    BY <2>4, <2>5, FourPowerIs
  <2>7. last \in Nat
    BY <2>4, <2>5, FourPowerIs
  <2>8. last \in FourPowers
    BY <1>1, <2>3, <2>5, <2>6, <2>7
  <2> QED
    BY <2>3, <2>8 DEF FourPowers, TwoPowers
<1>3. ASSUME NEW k \in 1 .. Bitwidth
      PROVE  later[k] \in Seq(BlocksIn(P))
  <2>1. CASE 4 * FourTo(k) > n
    <3>1. later[k] = <<>>
      BY <2>1
    <3> QED
      BY <3>1, EmptySeq
  <2>2. CASE ~(4 * FourTo(k) > n)
    <3>1. k \in 0 .. 16 /\ k > 0
      BY Orders
    <3>2. PICK d \in Nat : /\ d = FourTo(k)
                           /\ k <= 8 => d \in FourPowers
                           /\ k > 8 => d > 65536
      BY <3>1, FourPowerIs
    <3>3. d \in FourPowers /\ 4 * d <= n
      BY <1>1, <2>2, <3>1, <3>2
    <3>4. d \in TwoPowers /\ 4 * d \in TwoPowers
      BY <1>1, <3>3 DEF FourPowers, TwoPowers
    <3>5. later[k] = StageOf(d, mtrunc, base)
      BY <2>2, <3>2
    <3> HIDE DEF later
    <3> QED
      BY <3>3, <3>4, <3>5, StageIs
  <2> QED
    BY <2>1, <2>2
<1>4. PICK b \in Nat : b = Bitwidth
  BY Orders
<1>5. later \in [1 .. b -> Seq(BlocksIn(P))]
  BY <1>3, <1>4
<1>6. final \in Seq(PairsIn(P))
  <2>1. Stage2Block(0, last, base + last) \in PairsIn(P)
    <3>1. last \in Nat /\ last >= 1
      <4> HIDE DEF last
      <4> QED
        BY <1>2 DEF TwoPowers
    <3>2. CASE P = Int
      BY <3>1, <3>2 DEF Stage2Block, PairsIn
    <3>3. CASE P # Int
      <4>1. base + last \in SkewPositions /\ P = SkewPositions
        BY <1>1, <1>2, <3>1, <3>3, Orders DEF Within, SkewPositions
      <4> QED
        BY <3>1, <4>1 DEF Stage2Block, PairsIn
    <3> QED
      BY <3>2, <3>3
  <2> DEFINE block == Stage2Block(0, last, base + last)
  <2> HIDE DEF block
  <2>2. <<block>> \in Seq(PairsIn(P)) /\ <<>> \in Seq(PairsIn(P))
    BY <2>1 DEF block
  <2> QED
    BY <2>2 DEF block
<1>7. IfftPlan(mtrunc, n, base) =
        [mtrunc |-> mtrunc, m |-> n,
         initial_blocks |-> IF n >= 4 THEN StageOf(1, mtrunc, base) ELSE <<>>,
         later_blocks |-> FlattenSeq(later), clear_start |-> RoundUp4(mtrunc),
         final_stage |-> final]
  BY DEF IfftPlan, StageOf, FourTo
<1> HIDE DEF later, final, last
<1>8. later \in Seq(Seq(BlocksIn(P)))
  BY <1>4, <1>5, IsASequence
<1>9. FlattenSeq(later) \in Seq(BlocksIn(P))
  BY <1>8, FlattenIs
<1>10. n >= 4 => StageOf(1, mtrunc, base) \in Seq(BlocksIn(P))
  <2>1. 1 \in TwoPowers /\ 4 * 1 \in TwoPowers /\ (n >= 4 => 4 * 1 <= n)
    BY DEF TwoPowers
  <2> QED
    BY <2>1, StageIs
<1>11. <<>> \in Seq(BlocksIn(P))
  BY EmptySeq
<1> QED
  BY <1>6, <1>7, <1>9, <1>10, <1>11

----------------------------------------------------------------------------
(* The dimensions of a container.                                             *)

LEMMA ShapeDims ==
  ASSUME NEW s \in Shapes
  PROVE  /\ s.d \in Nat /\ s.d >= 1 /\ s.p \in Nat /\ s.p >= 1 /\ s.bytes \in Nat
         /\ M(s) \in Nat /\ M(s) >= s.p /\ M(s) >= 1
         /\ M(s) <= Modulus => M(s) \in TwoPowers /\ 2 * M(s) <= Order
         /\ M(s) <= Modulus => N(s) \in Nat /\ N(s) >= M(s) + s.d
         /\ M(s) <= Modulus /\ N(s) <= Modulus => N(s) \in TwoPowers /\ 2 * N(s) <= Order
<1>1. /\ s.d \in Nat /\ s.d >= 1 /\ s.p \in Nat /\ s.p >= 1 /\ s.bytes \in Nat
      /\ s.d + s.p <= Order
  BY ShapesAssumption
<1>2. Order \in Nat /\ Modulus = Order - 1
  BY Orders
<1>3. PICK p \in Nat : p = (IF s.p > 1 THEN s.p ELSE 1) /\ p <= 2 * Order /\ p >= s.p
  BY <1>1, <1>2
<1>4. /\ M(s) \in Nat /\ M(s) >= p /\ M(s) >= 1
      /\ M(s) <= Modulus => M(s) \in TwoPowers /\ 2 * M(s) <= Order
  BY <1>3, CeilPow2Is DEF M
<1>5. ASSUME M(s) <= Modulus
      PROVE  /\ N(s) \in Nat /\ N(s) >= M(s) + s.d
             /\ N(s) <= Modulus => N(s) \in TwoPowers /\ 2 * N(s) <= Order
  <2>1. PICK n \in Nat : n = M(s) + s.d /\ n <= 2 * Order
    BY <1>1, <1>2, <1>4, <1>5
  <2> QED
    BY <2>1, CeilPow2Is DEF N
<1> QED
  BY <1>1, <1>3, <1>4, <1>5

\* The whole groups of m shards are among the d shards.
LEMMA WholeGroups ==
  ASSUME NEW m \in TwoPowers, m <= Modulus, NEW d \in Nat, NEW g \in Nat
  PROVE  /\ d \div m \in Nat /\ (d \div m) * m + (d % m) = d /\ d % m \in 0 .. m - 1
         /\ g <= d \div m => g * m <= d
         /\ g * m \in Nat
<1>1. m = 1 \/ m = 2 \/ m = 4 \/ m = 8 \/ m = 16 \/ m = 32 \/
      m = 64 \/ m = 128 \/ m = 256 \/ m = 512 \/ m = 1024 \/
      m = 2048 \/ m = 4096 \/ m = 8192 \/ m = 16384 \/ m = 32768
  BY Orders DEF TwoPowers
<1>2. CASE m = 1
  BY <1>2
<1>3. CASE m = 2
  BY <1>3
<1>4. CASE m = 4
  BY <1>4
<1>5. CASE m = 8
  BY <1>5
<1>6. CASE m = 16
  BY <1>6
<1>7. CASE m = 32
  BY <1>7
<1>8. CASE m = 64
  BY <1>8
<1>9. CASE m = 128
  BY <1>9
<1>10. CASE m = 256
  BY <1>10
<1>11. CASE m = 512
  BY <1>11
<1>12. CASE m = 1024
  BY <1>12
<1>13. CASE m = 2048
  BY <1>13
<1>14. CASE m = 4096
  BY <1>14
<1>15. CASE m = 8192
  BY <1>15
<1>16. CASE m = 16384
  BY <1>16
<1>17. CASE m = 32768
  BY <1>17
<1> QED
  BY <1>1, <1>2, <1>3, <1>4, <1>5, <1>6, <1>7, <1>8, <1>9,
     <1>10, <1>11, <1>12, <1>13, <1>14, <1>15, <1>16, <1>17

\* The plans of the groups: each for the shards that are left, m at most.
GroupOf(plan, before, d, m) ==
  \E mtrunc \in 1 .. m, base \in Int :
    /\ plan = IfftPlan(mtrunc, m, base)
    /\ \A l \in 0 .. mtrunc - 1 : before + l \in Lanes(d)

LEMMA GroupPlansAre ==
  ASSUME NEW d \in Nat, d >= 1, NEW p, NEW m \in TwoPowers, m <= Modulus
  PROVE  /\ Len(GroupPlans(d, p, m).ifft) \in Nat /\ Len(GroupPlans(d, p, m).ifft) >= 1
         /\ DOMAIN GroupPlans(d, p, m).ifft = 1 .. Len(GroupPlans(d, p, m).ifft)
         /\ \A g \in 1 .. Len(GroupPlans(d, p, m).ifft) :
              GroupOf(GroupPlans(d, p, m).ifft[g], (g - 1) * m, d, m)
         /\ GroupPlans(d, p, m).fft = build_fft_plan(p, m)
<1> DEFINE whole == d \div m
           first == build_ifft_plan(LessOf(d, m), m, m - 1 + 0 * m)
           middle == [g \in 1 .. whole - 1 |-> build_ifft_plan(m, m, m - 1 + g * m)]
           last == build_ifft_plan(d % m, m, m - 1 + whole * m)
           q == GroupPlans(d, p, m).ifft
           T == {first} \union {middle[g] : g \in 1 .. whole - 1} \union {last}
<1>1. /\ q = <<first>> \o (IF d <= m THEN <<>>
                            ELSE middle \o (IF d % m = 0 THEN <<>> ELSE <<last>>))
      /\ GroupPlans(d, p, m).fft = build_fft_plan(p, m)
  BY DEF GroupPlans
<1>2. m \in Nat /\ m >= 1
  BY DEF TwoPowers
<1>3. PICK w \in Nat : w = whole /\ w * m + (d % m) = d /\ d % m \in 0 .. m - 1
  <2>1. \A g \in Nat : whole \in Nat /\ whole * m + (d % m) = d /\ d % m \in 0 .. m - 1
    BY WholeGroups
  <2> QED
    BY <2>1
<1>4. ASSUME NEW g \in Nat
      PROVE  g * m \in Nat /\ (g <= w => g * m <= d) /\ (g + 1) * m = g * m + m
  <2>1. g * m \in Nat /\ (g <= w => g * m <= d)
    BY <1>3, WholeGroups
  <2> QED
    BY <1>2, <2>1
<1>5. GroupOf(first, 0, d, m)
  <2>1. PICK mtrunc \in 1 .. m : mtrunc = LessOf(d, m) /\ mtrunc <= d
    BY <1>2 DEF LessOf
  <2>2. PICK base \in Int : base = m - 1 + 0 * m
    BY <1>2
  <2>3. first = IfftPlan(mtrunc, m, base)
    BY <2>1, <2>2 DEF build_ifft_plan
  <2>4. \A l \in 0 .. mtrunc - 1 : 0 + l \in Lanes(d)
    BY <1>2, <2>1 DEF Lanes
  <2> HIDE DEF first
  <2> QED
    BY <2>3, <2>4 DEF GroupOf
<1>6. ASSUME NEW g \in 1 .. w - 1
      PROVE  GroupOf(middle[g], g * m, d, m)
  <2>1. PICK x \in Nat : x = g * m /\ x + m <= d
    <3>1. g \in Nat /\ g + 1 \in Nat /\ g + 1 <= w
      BY <1>3
    <3>2. g * m \in Nat /\ (g + 1) * m = g * m + m
      BY <1>4, <3>1
    <3>3. (g + 1) * m <= d
      BY <1>4, <3>1
    <3> QED
      BY <3>2, <3>3
  <2>2. PICK base \in Int : base = m - 1 + g * m
    BY <1>2, <2>1
  <2>3. middle[g] = IfftPlan(m, m, base)
    BY <1>3, <2>2 DEF build_ifft_plan
  <2>4. \A l \in 0 .. m - 1 : x + l \in Lanes(d)
    BY <1>2, <2>1 DEF Lanes
  <2>5. m \in 1 .. m
    BY <1>2
  <2> HIDE DEF middle
  <2>6. GroupOf(middle[g], x, d, m)
    BY <2>3, <2>4, <2>5 DEF GroupOf
  <2> QED
    BY <2>1, <2>6
<1>7. d % m # 0 => GroupOf(last, w * m, d, m)
  <2> SUFFICES ASSUME d % m # 0
               PROVE  GroupOf(last, w * m, d, m)
    OBVIOUS
  <2>1. PICK x \in Nat : x = w * m
    BY <1>3, <1>4
  <2>2. PICK base \in Int : base = m - 1 + whole * m
    BY <1>2, <1>3, <2>1
  <2>3. PICK mtrunc \in 1 .. m : mtrunc = d % m /\ x + mtrunc = d
    BY <1>2, <1>3, <2>1
  <2>4. \A l \in 0 .. mtrunc - 1 : x + l \in Lanes(d)
    BY <2>1, <2>3 DEF Lanes
  <2>5. last = IfftPlan(mtrunc, m, base)
    BY <2>2, <2>3 DEF build_ifft_plan
  <2> HIDE DEF last
  <2>6. GroupOf(last, x, d, m)
    BY <2>4, <2>5 DEF GroupOf
  <2> QED
    BY <2>1, <2>6
<1>8. w >= 1 => middle \in Seq(T) /\ Len(middle) = w - 1 /\ first \in T /\ last \in T
  <2> SUFFICES ASSUME w >= 1
               PROVE  middle \in Seq(T) /\ Len(middle) = w - 1 /\ first \in T /\ last \in T
    OBVIOUS
  <2>1. PICK v \in Nat : v = w - 1
    BY <1>3
  <2>2. middle \in [1 .. v -> T] /\ first \in T /\ last \in T
    BY <1>3, <2>1
  <2> HIDE DEF middle, T
  <2> QED
    BY <2>1, <2>2, IsASequence
<1> HIDE DEF first, middle, last, q, whole, T
<1>9. \A g \in 1 .. 1 : g - 1 = 0 /\ (g - 1) * m = 0
  BY <1>2
<1>10. CASE d <= m
  <2>1. q = <<first>>
    BY <1>1, <1>10
  <2>2. Len(q) = 1 /\ DOMAIN q = 1 .. 1 /\ q[1] = first
    BY <2>1
  <2>3. \A g \in 1 .. 1 : GroupOf(q[g], (g - 1) * m, d, m)
    BY <1>5, <1>9, <2>2
  <2> QED
    BY <1>1, <2>2, <2>3 DEF q
<1>11. CASE ~(d <= m)
  <2>1. w >= 1
    <3>1. w = 0 => w * m = 0
      BY <1>2
    <3> QED
      BY <1>2, <1>3, <1>11, <3>1
  <2>2. middle \in Seq(T) /\ Len(middle) = w - 1 /\ first \in T /\ last \in T
    BY <1>8, <2>1
  <2>3. ASSUME NEW g \in 2 .. w
        PROVE  GroupOf(middle[g - 1], (g - 1) * m, d, m)
    <3>1. g - 1 \in 1 .. w - 1
      BY <1>3
    <3> QED
      BY <1>6, <3>1
  <2>4. CASE d % m = 0
    <3>1. q = <<first>> \o middle
      BY <1>1, <1>11, <2>2, <2>4
    <3>2. Len(q) = w /\ DOMAIN q = 1 .. w /\ q[1] = first
            /\ \A g \in 2 .. w : q[g] = middle[g - 1]
      BY <1>3, <2>1, <2>2, <3>1
    <3>3. \A g \in 1 .. w : g = 1 \/ g \in 2 .. w
      BY <1>3
    <3>4. \A g \in 1 .. w : GroupOf(q[g], (g - 1) * m, d, m)
      BY <1>5, <1>9, <2>3, <3>2, <3>3
    <3> QED
      BY <1>1, <1>3, <2>1, <3>2, <3>4 DEF q
  <2>5. CASE d % m # 0
    <3>1. q = <<first>> \o (middle \o <<last>>)
      BY <1>1, <1>11, <2>5
    <3> DEFINE tail == middle \o <<last>>
    <3>6. tail \in Seq(T) /\ Len(tail) = w /\ tail[w] = last
            /\ \A g \in 1 .. w - 1 : tail[g] = middle[g]
      BY <1>3, <2>1, <2>2
    <3>7. q = <<first>> \o tail
      BY <3>1
    <3> HIDE DEF tail
    <3>2. Len(q) = w + 1 /\ DOMAIN q = 1 .. w + 1 /\ q[1] = first /\ q[w + 1] = last
            /\ \A g \in 2 .. w : q[g] = middle[g - 1]
      BY <1>3, <2>1, <2>2, <3>6, <3>7
    <3>3. \A g \in 1 .. w + 1 : g = 1 \/ g \in 2 .. w \/ (g = w + 1 /\ g - 1 = w)
      BY <1>3
    <3>4. \A g \in 1 .. w + 1 : GroupOf(q[g], (g - 1) * m, d, m)
      BY <1>5, <1>7, <1>9, <2>3, <2>5, <3>2, <3>3
    <3> QED
      BY <1>1, <1>3, <3>2, <3>4 DEF q
  <2> QED
    BY <2>4, <2>5
<1> QED
  BY <1>10, <1>11

\* Blocks of which only positions of the table are read.
LEMMA ReadsFit ==
  /\ \A blocks \in Seq(BlocksIn(Int)) :
       SkewReads(blocks) \subseteq SkewPositions => blocks \in Seq(Blocks4)
  /\ \A blocks \in Seq(PairsIn(Int)) :
       SkewReads(blocks) \subseteq SkewPositions => blocks \in Seq(Blocks2)
<1>1. ASSUME NEW blocks \in Seq(BlocksIn(Int)), SkewReads(blocks) \subseteq SkewPositions
      PROVE  blocks \in Seq(Blocks4)
  <2>1. PICK n \in Nat : n = Len(blocks) /\ DOMAIN blocks = 1 .. n /\ blocks = [k \in 1 .. n |-> blocks[k]]
    BY LenProperties
  <2>2. ASSUME NEW k \in 1 .. n
        PROVE  blocks[k] \in Blocks4
    <3>1. PICK b \in BlocksIn(Int) : b = blocks[k]
      BY <2>1, ElementOfSeq
    <3>2. ~("m" \in DOMAIN b)
      BY DEF BlocksIn
    <3>3. {b.m01, b.m02, b.m23} \subseteq SkewReads(blocks)
      BY <2>1, <3>1, <3>2 DEF SkewReads
    <3>4. b.m01 \in SkewPositions /\ b.m02 \in SkewPositions /\ b.m23 \in SkewPositions
      BY <1>1, <3>3
    <3> QED
      BY <3>1, <3>4 DEF Blocks4, BlocksIn
  <2>3. blocks \in [1 .. n -> Blocks4]
    BY <2>1, <2>2
  <2> QED
    BY <2>3, IsASequence
<1>2. ASSUME NEW blocks \in Seq(PairsIn(Int)), SkewReads(blocks) \subseteq SkewPositions
      PROVE  blocks \in Seq(Blocks2)
  <2>1. PICK n \in Nat : n = Len(blocks) /\ DOMAIN blocks = 1 .. n /\ blocks = [k \in 1 .. n |-> blocks[k]]
    BY LenProperties
  <2>2. ASSUME NEW k \in 1 .. n
        PROVE  blocks[k] \in Blocks2
    <3>1. PICK b \in PairsIn(Int) : b = blocks[k]
      BY <2>1, ElementOfSeq
    <3>2. "m" \in DOMAIN b
      BY DEF PairsIn
    <3>3. {b.m} \subseteq SkewReads(blocks)
      BY <2>1, <3>1, <3>2 DEF SkewReads
    <3>4. b.m \in SkewPositions
      BY <1>2, <3>3
    <3> QED
      BY <3>1, <3>4 DEF Blocks2, PairsIn
  <2>3. blocks \in [1 .. n -> Blocks2]
    BY <2>1, <2>2
  <2> QED
    BY <2>3, IsASequence
<1> QED
  BY <1>1, <1>2

LEMMA IfftStepsAre ==
  ASSUME NEW plan, plan.initial_blocks \in Seq(Blocks4), plan.later_blocks \in Seq(Blocks4),
         plan.final_stage \in Seq(Blocks2), NEW lanes \in Int
  PROVE  IfftSteps(plan, lanes, "DirectSafe") \in Seq(Butterflies)
<1> DEFINE a == PlanSteps("inverse", plan.initial_blocks, lanes, "DirectSafe")
           b == PlanSteps("inverse", plan.later_blocks, lanes, "DirectSafe")
           c == Radix2Steps(plan.final_stage)
<1>1. a \in Seq(Butterflies) /\ b \in Seq(Butterflies) /\ c \in Seq(Butterflies)
  BY PlanStepsAre, Radix2StepsAre
<1>2. IfftSteps(plan, lanes, "DirectSafe") = a \o b \o c
  BY DEF IfftSteps
<1> HIDE DEF a, b, c
<1>3. a \o b \in Seq(Butterflies)
  BY <1>1, ConcatProperties
<1>4. (a \o b) \o c \in Seq(Butterflies)
  BY <1>1, <1>3, ConcatProperties
<1> QED
  BY <1>2, <1>4

LEMMA FftStepsAre ==
  ASSUME NEW plan, plan.stage4_blocks \in Seq(Blocks4), plan.final_stage \in Seq(Blocks2),
         NEW lanes \in Int
  PROVE  FftSteps(plan, lanes, "DirectSafe") \in Seq(Butterflies)
<1> DEFINE a == PlanSteps("forward", plan.stage4_blocks, lanes, "DirectSafe")
           c == Radix2Steps(plan.final_stage)
<1>1. a \in Seq(Butterflies) /\ c \in Seq(Butterflies)
  BY PlanStepsAre, Radix2StepsAre
<1>2. FftSteps(plan, lanes, "DirectSafe") = a \o c
  BY DEF FftSteps
<1> HIDE DEF a, c
<1> QED
  BY <1>1, <1>2, ConcatProperties

LEMMA TailHolds ==
  ASSUME NEW plan, plan.initial_blocks # <<>>, NEW i \in DOMAIN plan.initial_blocks, NEW l
  PROVE  /\ l \in plan.mtrunc .. plan.initial_blocks[i].r + 3 => l \in TailLanes(plan)
         /\ l \in plan.clear_start .. plan.m - 1 => l \in TailLanes(plan)
BY Zenon DEF TailLanes

\* The lanes that the input does not reach are zeroed.
LEMMA TailIsZeroed ==
  ASSUME NEW n \in TwoPowers, n <= Modulus, NEW mtrunc \in 1 .. n, NEW base \in Int,
         NEW l \in mtrunc .. n - 1
  PROVE  l \in TailLanes(IfftPlan(mtrunc, n, base))
<1> DEFINE plan == IfftPlan(mtrunc, n, base)
<1>1. n \in Nat /\ mtrunc \in Nat
  BY DEF TwoPowers
<1>2. Within(Int, mtrunc, n, base) /\ plan = IfftPlan(mtrunc, n, base)
  BY DEF Within
<1> HIDE DEF plan
<1>3. /\ plan.m = n /\ plan.mtrunc = mtrunc /\ plan.clear_start = RoundUp4(mtrunc)
      /\ plan.initial_blocks = IF n >= 4 THEN StageOf(1, mtrunc, base) ELSE <<>>
  <2>1. mtrunc \in Nat /\ n \in TwoPowers /\ n <= Modulus /\ base \in Int
    BY <1>1
  <2> QED
    <3>1. /\ plan.m = n /\ plan.mtrunc = mtrunc /\ plan.clear_start = RoundUp4(mtrunc)
          /\ plan.initial_blocks = IF n >= 4 THEN StageOf(1, mtrunc, base) ELSE <<>>
          /\ plan.initial_blocks \in Seq(BlocksIn(Int))
      BY <1>2, <2>1, IfftPlanIs
    <3> QED
      BY <3>1
<1>4. CASE n < 4
  <2>1. plan.initial_blocks = <<>>
    BY <1>1, <1>3, <1>4
  <2>2. l \in plan.mtrunc .. plan.m - 1
    BY <1>3
  <2> QED
    BY <2>1, <2>2 DEF TailLanes, plan
<1>5. CASE ~(n < 4)
  <2> DEFINE blocks == plan.initial_blocks
             last == (mtrunc + 3) \div 4
  <2>1. blocks = StageOf(1, mtrunc, base)
    BY <1>1, <1>3, <1>5
  <2>2. PICK u \in TwoPowers : u = 1 /\ 4 * u \in TwoPowers /\ 4 * u <= n
    <3>1. 1 \in TwoPowers /\ 4 * 1 \in TwoPowers /\ 4 * 1 <= n
      BY <1>1, <1>5 DEF TwoPowers
    <3> QED
      BY <3>1
  <2>3. /\ blocks \in Seq(BlocksIn(Int))
        /\ Len(blocks) = (mtrunc + 4 * u - 1) \div (4 * u)
        /\ \A k \in 1 .. (mtrunc + 4 * u - 1) \div (4 * u) : blocks[k].r = (k - 1) * (4 * u)
    <3> HIDE DEF blocks
    <3> QED
      BY <1>1, <1>2, <2>1, <2>2, StageIs
  <2>4. PICK k \in Nat : k = last /\ 4 * (k - 1) < mtrunc /\ mtrunc <= 4 * k /\ k >= 1
    BY <1>1
  <2>5. (mtrunc + 4 * u - 1) \div (4 * u) = last /\ 4 * u = 4
    BY <1>1, <2>2
  <2> HIDE DEF blocks, last
  <2>6. Len(blocks) = k /\ blocks[k].r = 4 * (k - 1) /\ k \in DOMAIN blocks /\ blocks # <<>>
    <3>1. Len(blocks) = k /\ k \in 1 .. (mtrunc + 4 * u - 1) \div (4 * u)
      BY <2>3, <2>4, <2>5
    <3>2. k \in DOMAIN blocks /\ blocks # <<>>
      BY <2>3, <2>4, <3>1
    <3>3. blocks[k].r = 4 * (k - 1)
      BY <2>3, <2>4, <2>5, <3>1
    <3> QED
      BY <3>1, <3>2, <3>3
  <2>7. plan.clear_start = 4 * k
    <3>1. plan.clear_start = (mtrunc + 3) - ((mtrunc + 3) % 4)
      BY <1>3 DEF RoundUp4, RoundDown4
    <3> QED
      BY <1>1, <2>4, <3>1
  <2> DEFINE Lower(j) == plan.mtrunc .. plan.initial_blocks[j].r + 3
             upper == plan.clear_start .. plan.m - 1
  <2>8. (l \in Lower(k) => l \in TailLanes(plan)) /\ (l \in upper => l \in TailLanes(plan))
    <3>1. plan.initial_blocks # <<>> /\ k \in DOMAIN plan.initial_blocks
      BY <2>6 DEF blocks
    <3> QED
      BY <3>1, TailHolds
  <2> HIDE DEF Lower, upper
  <2>9. CASE l < 4 * k
    <3>1. l \in plan.mtrunc .. blocks[k].r + 3
      BY <1>1, <1>3, <2>4, <2>6, <2>9
    <3>2. l \in Lower(k)
      BY <3>1 DEF Lower, blocks
    <3> QED
      BY <1>2, <2>8, <3>2
  <2>10. CASE ~(l < 4 * k)
    <3>1. l \in upper
      BY <1>1, <1>3, <2>7, <2>10 DEF upper
    <3> QED
      BY <1>2, <2>8, <3>1
  <2> QED
    BY <2>9, <2>10
<1> QED
  BY <1>4, <1>5

\* A group of an encoding: the steps of its transform, and for each lane a shard
\* or zeros.
GroupIsPlanned(planned, before, s) ==
  /\ planned.steps \in Seq(Butterflies)
  /\ planned.plan.mtrunc \in Nat
  /\ \A l \in Lanes(M(s)) :
       IF l < planned.plan.mtrunc THEN before + l \in Lanes(s.d)
       ELSE l \in TailLanes(planned.plan)

LEMMA EncodePlanIs ==
  ASSUME NEW s \in Shapes, Encodable(s)
  PROVE  /\ Len(EncodePlan16[s].ifft) \in Nat /\ Len(EncodePlan16[s].ifft) >= 1
         /\ \A g \in 1 .. Len(EncodePlan16[s].ifft) :
              GroupIsPlanned(EncodePlan16[s].ifft[g], (g - 1) * M(s), s)
         /\ EncodePlan16[s].fft \in Seq(Butterflies)
<1> DEFINE plans == EncodePlans(s)
           m == M(s)
           planned == [g \in DOMAIN plans.ifft |-> Planned(plans.ifft[g], "DirectSafe")]
<1>1. EncodePlan16[s] = [ifft |-> planned, fft |-> FftSteps(plans.fft, m, "DirectSafe")]
  BY DEF EncodePlan16, dit4_at_16
<1>2. m \in TwoPowers /\ m <= Modulus /\ s.d \in Nat /\ s.d >= 1 /\ s.p \in Nat /\ m \in Nat
  BY ShapeDims DEF Encodable
<1>3. PICK n \in Nat : /\ n = Len(plans.ifft) /\ n >= 1 /\ DOMAIN plans.ifft = 1 .. n
                       /\ \A g \in 1 .. n : GroupOf(plans.ifft[g], (g - 1) * m, s.d, m)
                       /\ plans.fft = build_fft_plan(s.p, m)
  <2> HIDE DEF m
  <2>1. plans = GroupPlans(s.d, s.p, m)
    BY DEF EncodePlans, m
  <2> HIDE DEF plans
  <2> QED
    BY <1>2, <2>1, GroupPlansAre
<1>4. /\ \A g \in 1 .. n : IfftReads(plans.ifft[g]) \subseteq SkewPositions
      /\ FftReads(plans.fft) \subseteq SkewPositions
  BY <1>3 DEF Encodable, PlansFit
<1>5. ASSUME NEW g \in 1 .. n
      PROVE  GroupIsPlanned(planned[g], (g - 1) * m, s)
  <2> DEFINE plan == plans.ifft[g]
  <2>1. PICK mtrunc \in 1 .. m, base \in Int :
          /\ plan = IfftPlan(mtrunc, m, base)
          /\ \A l \in 0 .. mtrunc - 1 : (g - 1) * m + l \in Lanes(s.d)
    BY <1>3 DEF GroupOf
  <2>2. Within(Int, mtrunc, m, base) /\ mtrunc \in Nat
    BY <1>2 DEF Within
  <2>3. planned[g] = [plan |-> plan, steps |-> IfftSteps(plan, plan.m, "DirectSafe")]
    BY <1>3 DEF Planned
  <2>4. IfftReads(plan) \subseteq SkewPositions
    BY <1>4
  <2> HIDE DEF plan, planned, m
  <2>5. /\ plan.initial_blocks \in Seq(BlocksIn(Int))
        /\ plan.later_blocks \in Seq(BlocksIn(Int))
        /\ plan.final_stage \in Seq(PairsIn(Int))
        /\ plan.m = m /\ plan.mtrunc = mtrunc
    BY <1>2, <2>1, <2>2, IfftPlanIs
  <2>6. /\ SkewReads(plan.initial_blocks) \subseteq SkewPositions
        /\ SkewReads(plan.later_blocks) \subseteq SkewPositions
        /\ SkewReads(plan.final_stage) \subseteq SkewPositions
    BY <2>4 DEF IfftReads
  <2>7. /\ plan.initial_blocks \in Seq(Blocks4) /\ plan.later_blocks \in Seq(Blocks4)
        /\ plan.final_stage \in Seq(Blocks2)
    BY <2>5, <2>6, ReadsFit
  <2>8. IfftSteps(plan, plan.m, "DirectSafe") \in Seq(Butterflies)
    BY <1>2, <2>5, <2>7, IfftStepsAre
  <2>9. ASSUME NEW l \in Lanes(m)
        PROVE  IF l < mtrunc THEN (g - 1) * m + l \in Lanes(s.d) ELSE l \in TailLanes(plan)
    <3>1. l \in 0 .. m - 1 /\ l \in Int
      BY DEF Lanes
    <3>2. CASE l < mtrunc
      BY <2>1, <2>2, <3>1, <3>2
    <3>3. CASE ~(l < mtrunc)
      <4>1. l \in mtrunc .. m - 1
        BY <1>2, <2>2, <3>1, <3>3
      <4> QED
        BY <1>2, <2>1, <3>3, <4>1, TailIsZeroed
    <3> QED
      BY <3>2, <3>3
  <2> QED
    BY <2>2, <2>3, <2>5, <2>8, <2>9 DEF GroupIsPlanned, m
<1>6. FftSteps(plans.fft, m, "DirectSafe") \in Seq(Butterflies)
  <2> HIDE DEF m
  <2>1. Within(Int, s.p, m, -1)
    BY DEF Within
  <2>2. /\ plans.fft.stage4_blocks \in Seq(BlocksIn(Int))
        /\ plans.fft.final_stage \in Seq(PairsIn(Int))
    BY <1>2, <1>3, <2>1, FftPlanIs
  <2>3. /\ SkewReads(plans.fft.stage4_blocks) \subseteq SkewPositions
        /\ SkewReads(plans.fft.final_stage) \subseteq SkewPositions
    BY <1>4 DEF FftReads
  <2> HIDE DEF plans
  <2>4. plans.fft.stage4_blocks \in Seq(Blocks4) /\ plans.fft.final_stage \in Seq(Blocks2)
    BY <2>2, <2>3, ReadsFit
  <2> QED
    BY <1>2, <2>4, FftStepsAre
<1>7. planned \in [1 .. n -> {planned[g] : g \in 1 .. n}]
  BY <1>3
<1> HIDE DEF planned, plans, m
<1>8. Len(planned) = n
  BY <1>7, IsASequence
<1> QED
  BY <1>1, <1>3, <1>5, <1>6, <1>8 DEF m

LEMMA GreatestIs ==
  ASSUME NEW n \in Nat, NEW S, S \subseteq 0 .. n, S # {}
  PROVE  Max(S) \in S
<1> DEFINE bounds == {b \in Nat : \A x \in S : x <= b}
<1>1. \A x \in S : x \in Nat /\ x <= n
  OBVIOUS
<1>2. n \in bounds /\ bounds \subseteq Nat
  BY <1>1
<1>3. PICK b \in bounds : \A c \in bounds : b <= c
  BY <1>2, LeastNat
<1>4. b \in Nat /\ \A x \in S : x <= b
  BY <1>3
<1>5. b \in S
  <2> SUFFICES ASSUME b \notin S
               PROVE  FALSE
    OBVIOUS
  <2>1. \A x \in S : x < b
    BY <1>1, <1>4
  <2>5. PICK y \in S : y \in Nat /\ y < b
    BY <1>1, <2>1
  <2>2. b - 1 \in Nat /\ \A x \in S : x <= b - 1
    BY <1>1, <1>4, <2>1, <2>5
  <2>3. b - 1 \in bounds
    BY <2>2
  <2> HIDE DEF bounds
  <2>4. b <= b - 1
    BY <1>3, <2>3
  <2> QED
    BY <1>4, <2>4
<1>6. \E x \in S : \A y \in S : x >= y
  BY <1>1, <1>4, <1>5
<1> QED
  BY <1>6 DEF Max

\* The plan of a reconstruction: the factors of its transforms are in the table.
LEMMA DecodePlanIs ==
  ASSUME NEW s \in Shapes, Decodable(s), NEW present, present \subseteq Lanes(Total(s))
  PROVE  /\ build_decode_plan(s, present).err_locs \in Vectors
         /\ IfftSteps(build_decode_plan(s, present).ifft_plan,
                      build_decode_plan(s, present).ifft_plan.m,
                      dit4_decode_at_16) \in Seq(Butterflies)
         /\ FftSteps(build_decode_plan(s, present).fft_plan, N(s), dit4_decode_at_16)
              \in Seq(Butterflies)
<1> DEFINE reached == {0} \union {i + 1 : i \in {j \in present : j < s.d}}
           n == N(s)
           lanes == M(s) + s.d
           ifft == IfftPlan(M(s) + Max(reached), n, -1)
           fft == build_fft_plan(lanes, n)
<1>1. /\ n \in TwoPowers /\ n \in Nat /\ n <= Modulus /\ 2 * n <= Order
      /\ lanes \in Nat /\ lanes <= n /\ M(s) \in Nat /\ s.d \in Nat
  BY ShapeDims DEF Decodable
<1>2. build_decode_plan(s, present) =
        [err_locs |-> compute_error_locs16(s, present), input_count |-> M(s) + Max(reached),
         ifft_plan |-> ifft, fft_plan |-> fft]
  BY DEF build_decode_plan, build_ifft_decode_dit16_plan, build_ifft_decode_plan,
         build_fft_dit16_plan
<1>3. compute_error_locs16(s, present) \in Vectors
  BY compute_error_locs_Is DEF compute_error_locs16
<1>4. PICK mtrunc \in Nat : mtrunc = M(s) + Max(reached) /\ mtrunc <= n
  <2>1. \A i \in present : i \in Nat
    BY DEF Lanes
  <2>2. reached \subseteq 0 .. s.d /\ reached # {}
    BY <1>1, <2>1
  <2> HIDE DEF reached
  <2>3. Max(reached) \in 0 .. s.d
    BY <1>1, <2>2, GreatestIs
  <2> QED
    BY <1>1, <2>3
<1> HIDE DEF n, lanes, reached
<1>5. Within(SkewPositions, mtrunc, n, -1) /\ Within(SkewPositions, lanes, n, -1) /\ -1 \in Int
  BY <1>1, <1>4 DEF Within
<1>6. ifft = IfftPlan(mtrunc, n, -1)
  BY <1>4
<1> HIDE DEF ifft, fft
<1>7. /\ ifft.initial_blocks \in Seq(BlocksIn(SkewPositions))
      /\ ifft.later_blocks \in Seq(BlocksIn(SkewPositions))
      /\ ifft.final_stage \in Seq(PairsIn(SkewPositions))
      /\ ifft.m = n
  BY <1>1, <1>5, <1>6, IfftPlanIs
<1>8. /\ fft.stage4_blocks \in Seq(BlocksIn(SkewPositions))
      /\ fft.final_stage \in Seq(PairsIn(SkewPositions))
  BY <1>1, <1>5, FftPlanIs DEF fft
<1>9. IfftSteps(ifft, ifft.m, dit4_decode_at_16) \in Seq(Butterflies)
  BY <1>1, <1>7, IfftStepsAre DEF dit4_decode_at_16, Blocks4, Blocks2
<1>10. FftSteps(fft, n, dit4_decode_at_16) \in Seq(Butterflies)
  BY <1>1, <1>8, FftStepsAre DEF dit4_decode_at_16, Blocks4, Blocks2
<1> QED
  BY <1>2, <1>3, <1>9, <1>10 DEF n

----------------------------------------------------------------------------
(* Work areas, lane by lane.                                                  *)

HeadsOf(z) == [Lanes(z.n) -> [1 .. z.size -> Element]]

\* The first columns of a lane, replaced.
LEMMA SpliceLane ==
  ASSUME NEW z, IsDims(z), NEW x \in LanesOf(z), NEW h \in [1 .. z.size -> Element]
  PROVE  /\ h \o SubSeq(x, Len(h) + 1, Len(x)) \in LanesOf(z)
         /\ \A c \in 1 .. z.size : (h \o SubSeq(x, Len(h) + 1, Len(x)))[c] = h[c]
<1>1. z.len \in Nat /\ z.size \in Nat /\ z.size <= z.len
  BY DEF IsDims
<1>2. x \in Seq(Element) /\ Len(x) = z.len /\ h \in Seq(Element) /\ Len(h) = z.size
  BY <1>1, IsASequence DEF LanesOf
<1> DEFINE rest == SubSeq(x, z.size + 1, z.len)
           y == h \o rest
<1>3. \A c \in z.size + 1 .. z.len : x[c] \in Element
  BY <1>1 DEF LanesOf
<1>4. rest \in Seq(Element) /\ Len(rest) = z.len - z.size
  <2>1. z.size + 1 \in Int /\ z.len \in Int
    BY <1>1
  <2>2. /\ rest \in Seq(Element)
        /\ Len(rest) = IF z.size + 1 <= z.len THEN z.len - (z.size + 1) + 1 ELSE 0
    BY <1>3, <2>1, SubSeqProperties
  <2> QED
    BY <1>1, <2>2
<1> HIDE DEF rest
<1>5. y \in Seq(Element) /\ Len(y) = z.len
  <2>1. y \in Seq(Element) /\ Len(y) = Len(h) + Len(rest)
    BY <1>2, <1>4, ConcatProperties
  <2> HIDE DEF y
  <2> QED
    BY <1>1, <1>2, <1>4, <2>1
<1>6. \A c \in 1 .. z.size : y[c] = h[c]
  <2>1. ASSUME NEW c \in 1 .. z.size
        PROVE  y[c] = h[c]
    <3>1. c \in 1 .. Len(h) + Len(rest) /\ c <= Len(h)
      BY <1>1, <1>2, <1>4
    <3> QED
      BY <1>2, <1>4, <3>1, ConcatProperties
  <2> QED
    BY <2>1
<1> HIDE DEF y
<1>7. y \in [1 .. z.len -> Element]
  BY <1>5, LenProperties
<1> QED
  BY <1>2, <1>6, <1>7 DEF LanesOf, y, rest

LEMMA SpliceAlike ==
  ASSUME NEW z, IsDims(z), NEW v \in AreasOf(z), NEW w \in AreasOf(z), NEW h \in HeadsOf(z)
  PROVE  AreasAlike(Splice(v, h), Splice(w, h), z)
<1>1. ASSUME NEW l \in Lanes(z.n)
      PROVE  /\ Splice(v, h)[l] \in LanesOf(z) /\ Splice(w, h)[l] \in LanesOf(z)
             /\ \A c \in 1 .. z.size : Splice(v, h)[l][c] = h[l][c] /\ Splice(w, h)[l][c] = h[l][c]
  <2>1. v[l] \in LanesOf(z) /\ w[l] \in LanesOf(z) /\ h[l] \in [1 .. z.size -> Element]
    BY DEF AreasOf, HeadsOf
  <2>2. /\ Splice(v, h)[l] = h[l] \o SubSeq(v[l], Len(h[l]) + 1, Len(v[l]))
        /\ Splice(w, h)[l] = h[l] \o SubSeq(w[l], Len(h[l]) + 1, Len(w[l]))
    BY DEF Splice, AreasOf
  <2> DEFINE x == v[l]
             y == w[l]
             k == h[l]
  <2>3. x \in LanesOf(z) /\ y \in LanesOf(z) /\ k \in [1 .. z.size -> Element]
    BY <2>1
  <2> HIDE DEF x, y, k
  <2>4. /\ k \o SubSeq(x, Len(k) + 1, Len(x)) \in LanesOf(z)
        /\ \A c \in 1 .. z.size : (k \o SubSeq(x, Len(k) + 1, Len(x)))[c] = k[c]
    BY <2>3, SpliceLane
  <2>5. /\ k \o SubSeq(y, Len(k) + 1, Len(y)) \in LanesOf(z)
        /\ \A c \in 1 .. z.size : (k \o SubSeq(y, Len(k) + 1, Len(y)))[c] = k[c]
    BY <2>3, SpliceLane
  <2> QED
    BY <2>2, <2>4, <2>5 DEF x, y, k
<1>2. Splice(v, h) \in AreasOf(z) /\ Splice(w, h) \in AreasOf(z)
  <2>1. DOMAIN v = Lanes(z.n) /\ DOMAIN w = Lanes(z.n)
    BY DEF AreasOf
  <2>2. /\ Splice(v, h) = [l \in Lanes(z.n) |-> Splice(v, h)[l]]
        /\ Splice(w, h) = [l \in Lanes(z.n) |-> Splice(w, h)[l]]
    BY <2>1 DEF Splice
  <2> QED
    BY <1>1, <2>2 DEF AreasOf
<1> QED
  BY <1>1, <1>2 DEF AreasAlike, Alike

LEMMA ViewIs ==
  ASSUME NEW z, IsDims(z), NEW v, NEW w, AreasAlike(v, w, z)
  PROVE  View(v, z.size) \in HeadsOf(z) /\ View(v, z.size) = View(w, z.size)
<1>1. z.len \in Nat /\ z.size \in Nat /\ z.size <= z.len
  BY DEF IsDims
<1>2. DOMAIN v = Lanes(z.n) /\ DOMAIN w = Lanes(z.n)
  BY DEF AreasAlike, AreasOf
<1>3. ASSUME NEW l \in Lanes(z.n)
      PROVE  /\ SubSeq(v[l], 1, z.size) \in [1 .. z.size -> Element]
             /\ SubSeq(v[l], 1, z.size) = SubSeq(w[l], 1, z.size)
  <2> DEFINE x == v[l]
             y == w[l]
             a == SubSeq(x, 1, z.size)
             b == SubSeq(y, 1, z.size)
  <2>1. Alike(x, y, z)
    BY DEF AreasAlike
  <2> HIDE DEF x, y
  <2>2. \A c \in 1 .. z.size : x[c] \in Element /\ y[c] \in Element /\ x[c] = y[c]
    BY <2>1, AlikeLanes
  <2>3. /\ a \in Seq(Element) /\ b \in Seq(Element)
        /\ Len(a) = z.size /\ Len(b) = z.size
        /\ \A c \in 1 .. z.size : a[c] = x[c] /\ b[c] = y[c]
    <3>1. /\ a \in Seq(Element) /\ Len(a) = IF 1 <= z.size THEN z.size - 1 + 1 ELSE 0
          /\ \A c \in 1 .. z.size - 1 + 1 : a[c] = x[1 + c - 1]
      BY <1>1, <2>2, SubSeqProperties
    <3>2. /\ b \in Seq(Element) /\ Len(b) = IF 1 <= z.size THEN z.size - 1 + 1 ELSE 0
          /\ \A c \in 1 .. z.size - 1 + 1 : b[c] = y[1 + c - 1]
      BY <1>1, <2>2, SubSeqProperties
    <3>3. z.size - 1 + 1 = z.size /\ \A c \in 1 .. z.size : 1 + c - 1 = c
      BY <1>1
    <3> QED
      BY <1>1, <3>1, <3>2, <3>3
  <2> HIDE DEF a, b
  <2>4. a = b
    BY <2>2, <2>3, SeqEqual
  <2>5. a \in [1 .. z.size -> Element]
    BY <2>3, LenProperties
  <2> QED
    BY <2>4, <2>5 DEF a, b, x, y
<1> QED
  BY <1>2, <1>3 DEF View, HeadsOf

LEMMA ZeroHeads ==
  ASSUME NEW z, IsDims(z), NEW h \in HeadsOf(z), NEW zeroed
  PROVE  ZeroLanes(h, zeroed) \in HeadsOf(z)
<1>1. 0 \in Element
  BY Orders
<1>2. ASSUME NEW l \in Lanes(z.n)
      PROVE  (IF l \in zeroed THEN [c \in DOMAIN h[l] |-> 0] ELSE h[l]) \in [1 .. z.size -> Element]
  <2>1. h[l] \in [1 .. z.size -> Element] /\ DOMAIN h[l] = 1 .. z.size
    BY DEF HeadsOf
  <2> QED
    BY <1>1, <2>1
<1>3. DOMAIN h = Lanes(z.n)
  BY DEF HeadsOf
<1> QED
  BY <1>2, <1>3 DEF ZeroLanes, HeadsOf

\* The lowest bit of a lane's number divides the number of lanes.
LEMMA WidthFits ==
  ASSUME NEW w \in TwoPowers, NEW n \in TwoPowers, n <= Modulus, NEW i \in 1 .. n - 1, i % w = 0
  PROVE  i + w <= n /\ w <= i
<1>1. w = 1 \/ w = 2 \/ w = 4 \/ w = 8 \/ w = 16 \/ w = 32 \/
      w = 64 \/ w = 128 \/ w = 256 \/ w = 512 \/ w = 1024 \/
      w = 2048 \/ w = 4096 \/ w = 8192 \/ w = 16384 \/ w = 32768 \/ w = 65536
  BY DEF TwoPowers
<1>2. CASE w = 1
  BY <1>2, Orders DEF TwoPowers
<1>3. CASE w = 2
  BY <1>3, Orders DEF TwoPowers
<1>4. CASE w = 4
  BY <1>4, Orders DEF TwoPowers
<1>5. CASE w = 8
  BY <1>5, Orders DEF TwoPowers
<1>6. CASE w = 16
  BY <1>6, Orders DEF TwoPowers
<1>7. CASE w = 32
  BY <1>7, Orders DEF TwoPowers
<1>8. CASE w = 64
  BY <1>8, Orders DEF TwoPowers
<1>9. CASE w = 128
  BY <1>9, Orders DEF TwoPowers
<1>10. CASE w = 256
  BY <1>10, Orders DEF TwoPowers
<1>11. CASE w = 512
  BY <1>11, Orders DEF TwoPowers
<1>12. CASE w = 1024
  BY <1>12, Orders DEF TwoPowers
<1>13. CASE w = 2048
  BY <1>13, Orders DEF TwoPowers
<1>14. CASE w = 4096
  BY <1>14, Orders DEF TwoPowers
<1>15. CASE w = 8192
  BY <1>15, Orders DEF TwoPowers
<1>16. CASE w = 16384
  BY <1>16, Orders DEF TwoPowers
<1>17. CASE w = 32768
  BY <1>17, Orders DEF TwoPowers
<1>18. CASE w = 65536
  BY <1>18, Orders DEF TwoPowers
<1> QED
  BY <1>1, <1>2, <1>3, <1>4, <1>5, <1>6, <1>7, <1>8, <1>9,
     <1>10, <1>11, <1>12, <1>13, <1>14, <1>15, <1>16, <1>17, <1>18

\* compute_formal_derivative: the lowest bit of a lane's number, a lane's turn, and
\* all the turns.
Width(i) == CHOOSE w \in {TwoTo(k) : k \in 0 .. Bitwidth} : i % w = 0 /\ i % (2 * w) # 0
Added(v, i) ==
  [l \in DOMAIN v |-> IF l \in i - Width(i) .. i - 1 THEN LanePlus(v[l + Width(i)], v[l]) ELSE v[l]]
Turns(v, n) == CHOOSE after : after = [i \in 0 .. n - 1 |-> IF i = 0 THEN v ELSE Added(after[i - 1], i)]

LEMMA WidthIs ==
  ASSUME NEW i \in Nat, 0 < i, i < Order
  PROVE  Width(i) \in TwoPowers /\ i % Width(i) = 0
<1> DEFINE powers == {TwoTo(k) : k \in 0 .. Bitwidth}
           Lowest(w) == i % w = 0 /\ i % (2 * w) # 0
<1>1. PICK k \in 0 .. Bitwidth - 1 : i % TwoTo(k) = 0 /\ i % TwoTo(k + 1) # 0
  BY LowestBit
<1>2. k \in 0 .. Bitwidth /\ k + 1 \in 0 .. 32 /\ k + 1 > 0 /\ (k + 1) - 1 = k
  BY Orders
<1>3. TwoTo(k + 1) = 2 * TwoTo((k + 1) - 1)
  BY <1>2, TwoPowerIs
<1>4. \E w \in powers : Lowest(w)
  BY <1>1, <1>2, <1>3
<1>5. Width(i) \in powers /\ Lowest(Width(i))
  <2>1. Width(i) = CHOOSE w \in powers : Lowest(w)
    BY DEF Width
  <2> HIDE DEF powers, Lowest
  <2> QED
    BY <1>4, <2>1
<1>6. PICK j \in 0 .. Bitwidth : Width(i) = TwoTo(j)
  BY <1>5
<1>7. j \in 0 .. 32 /\ j <= 16
  BY Orders
<1> QED
  BY <1>5, <1>6, <1>7, TwoPowerIs

LEMMA AddedAlike ==
  ASSUME NEW z, IsDims(z), z.n \in TwoPowers, z.n <= Modulus, NEW v, NEW w, AreasAlike(v, w, z),
         NEW i \in 1 .. z.n - 1
  PROVE  AreasAlike(Added(v, i), Added(w, i), z)
<1>1. DOMAIN v = Lanes(z.n) /\ DOMAIN w = Lanes(z.n)
  BY DEF AreasAlike, AreasOf
<1>2. PICK n \in Nat : n = z.n /\ n <= Modulus
  BY DEF TwoPowers
<1>3. i \in Nat /\ 0 < i /\ i < Order
  BY <1>2, Orders
<1>4. PICK b \in TwoPowers : b = Width(i) /\ i + b <= n /\ b <= i /\ b \in Nat
  <2>1. Width(i) \in TwoPowers /\ i % Width(i) = 0
    BY <1>3, WidthIs
  <2>2. i + Width(i) <= z.n /\ Width(i) <= i
    BY <2>1, WidthFits
  <2> QED
    BY <1>2, <2>1, <2>2 DEF TwoPowers
<1>5. ASSUME NEW l \in Lanes(z.n)
      PROVE  /\ l \in i - b .. i - 1 => Alike(LanePlus(v[l + b], v[l]), LanePlus(w[l + b], w[l]), z)
             /\ Alike(v[l], w[l], z)
  <2>1. Alike(v[l], w[l], z)
    BY DEF AreasAlike
  <2>2. ASSUME l \in i - b .. i - 1
        PROVE  Alike(LanePlus(v[l + b], v[l]), LanePlus(w[l + b], w[l]), z)
    <3>1. l + b \in Lanes(z.n)
      BY <1>2, <1>3, <1>4, <2>2 DEF Lanes
    <3>2. Alike(v[l + b], w[l + b], z)
      BY <3>1 DEF AreasAlike
    <3> QED
      BY <2>1, <3>2, LanePlusAlike
  <2> QED
    BY <2>1, <2>2
<1>6. /\ Added(v, i) = [l \in Lanes(z.n) |->
            IF l \in i - b .. i - 1 THEN LanePlus(v[l + b], v[l]) ELSE v[l]]
      /\ Added(w, i) = [l \in Lanes(z.n) |->
            IF l \in i - b .. i - 1 THEN LanePlus(w[l + b], w[l]) ELSE w[l]]
  BY <1>1, <1>4 DEF Added
<1>7. ASSUME NEW l \in Lanes(z.n)
      PROVE  Alike(Added(v, i)[l], Added(w, i)[l], z)
  <2>1. CASE l \in i - b .. i - 1
    BY <1>5, <1>6, <2>1
  <2>2. CASE ~(l \in i - b .. i - 1)
    BY <1>5, <1>6, <2>2
  <2> QED
    BY <2>1, <2>2
<1>8. \A l \in Lanes(z.n) : Added(v, i)[l] \in LanesOf(z) /\ Added(w, i)[l] \in LanesOf(z)
  BY <1>7 DEF Alike
<1>9. /\ Added(v, i) = [l \in Lanes(z.n) |-> Added(v, i)[l]]
      /\ Added(w, i) = [l \in Lanes(z.n) |-> Added(w, i)[l]]
  BY <1>6
<1>10. Added(v, i) \in AreasOf(z) /\ Added(w, i) \in AreasOf(z)
  BY <1>8, <1>9 DEF AreasOf
<1> QED
  BY <1>7, <1>10 DEF AreasAlike

LEMMA TurnsAre ==
  ASSUME NEW z, IsDims(z), z.n \in TwoPowers, z.n <= Modulus, NEW v \in AreasOf(z)
  PROVE  /\ Derivative(v, z.n) = Turns(v, z.n)[z.n - 1] /\ Turns(v, z.n)[0] = v
         /\ \A i \in 1 .. z.n - 1 : Turns(v, z.n)[i] = Added(Turns(v, z.n)[i - 1], i)
<1> DEFINE Is(f) == f = [i \in 0 .. z.n - 1 |-> IF i = 0 THEN v ELSE Added(f[i - 1], i)]
<1>1. PICK n \in Nat : n = z.n - 1
  BY DEF TwoPowers
<1> DEFINE S == [i \in 1 .. n |-> [x \in AreasOf(z) |-> Added(x, i)]]
<1>2. ASSUME NEW i \in 1 .. n, NEW x \in AreasOf(z)
      PROVE  Added(x, i) \in AreasOf(z)
  <2>1. AreasAlike(x, x, z)
    BY DEF AreasAlike, Alike, AreasOf
  <2>2. i \in 1 .. z.n - 1
    BY <1>1
  <2>3. AreasAlike(Added(x, i), Added(x, i), z)
    BY <2>1, <2>2, AddedAlike
  <2> QED
    BY <2>3 DEF AreasAlike
<1>3. \A i \in 1 .. n : \A x \in AreasOf(z) : S[i][x] = Added(x, i) /\ S[i][x] \in AreasOf(z)
  BY <1>2
<1> HIDE DEF S
<1>4. StaysIn(AreasOf(z), n, S)
  BY <1>3 DEF StaysIn
<1>5. PICK f : Recursion(f, n, v, S) /\ \A i \in 0 .. n : f[i] \in AreasOf(z)
  BY <1>1, <1>4, Iteration
<1>6. ASSUME NEW i \in 0 .. n
      PROVE  (IF i = 0 THEN v ELSE S[i][f[i - 1]]) = IF i = 0 THEN v ELSE Added(f[i - 1], i)
  <2>1. i # 0 => i \in 1 .. n /\ i - 1 \in 0 .. n
    BY <1>1
  <2> QED
    BY <1>3, <1>5, <2>1
<1>7. Is(f)
  BY <1>1, <1>5, <1>6 DEF Recursion
<1>8. Is(Turns(v, z.n))
  BY <1>7 DEF Turns
<1>9. Derivative(v, z.n) = Turns(v, z.n)[z.n - 1]
  BY DEF Derivative, Turns, Added, Width, TwoTo
<1> QED
  BY <1>1, <1>8, <1>9

LEMMA DerivativeAlike ==
  ASSUME NEW z, IsDims(z), z.n \in TwoPowers, z.n <= Modulus, NEW v, NEW w, AreasAlike(v, w, z)
  PROVE  AreasAlike(Derivative(v, z.n), Derivative(w, z.n), z)
<1> DEFINE f == Turns(v, z.n)
           g == Turns(w, z.n)
<1>1. PICK n \in Nat : n = z.n - 1
  BY DEF TwoPowers
<1>2. v \in AreasOf(z) /\ w \in AreasOf(z)
  BY DEF AreasAlike
<1>3. /\ Derivative(v, z.n) = f[n] /\ f[0] = v
      /\ \A i \in 1 .. n : f[i] = Added(f[i - 1], i)
  BY <1>1, <1>2, TurnsAre
<1>4. /\ Derivative(w, z.n) = g[n] /\ g[0] = w
      /\ \A i \in 1 .. n : g[i] = Added(g[i - 1], i)
  BY <1>1, <1>2, TurnsAre
<1> HIDE DEF f, g
<1> DEFINE good == {i \in 0 .. n : AreasAlike(f[i], g[i], z)}
<1>5. 0 \in good
  BY <1>1, <1>3, <1>4
<1>6. ASSUME NEW i \in 0 .. n - 1, i \in good
      PROVE  i + 1 \in good
  <2>1. i + 1 \in 1 .. n /\ (i + 1) - 1 = i /\ i + 1 \in 1 .. z.n - 1
    BY <1>1
  <2>2. AreasAlike(Added(f[i], i + 1), Added(g[i], i + 1), z)
    BY <1>6, <2>1, AddedAlike
  <2>3. f[i + 1] = Added(f[i], i + 1) /\ g[i + 1] = Added(g[i], i + 1)
    BY <1>3, <1>4, <2>1
  <2> QED
    BY <2>1, <2>2, <2>3
<1>7. \A i \in 0 .. n : i \in good
  <2> HIDE DEF good
  <2> QED
    BY <1>1, <1>5, <1>6, UpTo
<1> QED
  BY <1>1, <1>3, <1>4, <1>7

----------------------------------------------------------------------------
(* The chunks of a reconstruction.                                            *)

ElementsOf(s) == [1 .. Elements(s) -> Element]

IsChunk(s, from, to) ==
  /\ from \in Nat /\ to \in Nat /\ from < to /\ to <= Elements(s)
  /\ LaneLen(s) \in Nat /\ to - from <= LaneLen(s)

\* The call of compute_reconstruct_chunk for the columns from + 1 to `to` of the
\* shards data of a container of shape s that has the shards of present.
IsCall(k) ==
  /\ k.s \in Shapes /\ Decodable(k.s) /\ k.present \subseteq Lanes(Total(k.s))
  /\ k.data \in [Lanes(Total(k.s)) -> ElementsOf(k.s) \union {Absent}]
  /\ IsChunk(k.s, k.from, k.to)
DimsOf(k) == [n |-> N(k.s), len |-> LaneLen(k.s), size |-> k.to - k.from]
PlanOf(k) == build_decode_plan(k.s, k.present)
ChunkOf(k, area) == compute_reconstruct_chunk(k.s, k.data, PlanOf(k), area, k.from, k.to)

\* What step 1 puts in front of the lanes.
Loaded(k) ==
  [l \in Lanes(N(k.s)) |->
    LET i == IF l >= M(k.s) THEN l - M(k.s) ELSE k.s.d + l
    IN IF l < M(k.s) + k.s.d /\ ~(l \in k.s.p .. M(k.s) - 1) /\ k.data[i] # Absent
       THEN LaneMul(SubSeq(k.data[i], k.from + 1, k.to), PlanOf(k).err_locs[l])
       ELSE Fill(k.to - k.from, 0)]

LEMMA CallDims ==
  ASSUME NEW k, IsCall(k)
  PROVE  /\ IsDims(DimsOf(k)) /\ N(k.s) \in TwoPowers /\ N(k.s) <= Modulus
         /\ N(k.s) \in Nat /\ M(k.s) \in Nat /\ k.s.d \in Nat /\ k.s.p \in Nat
         /\ M(k.s) + k.s.d <= N(k.s) /\ k.s.p <= M(k.s)
<1>1. IsDims(DimsOf(k))
  BY DEF IsCall, IsChunk, IsDims, DimsOf
<1>2. k.s \in Shapes /\ M(k.s) <= Modulus /\ N(k.s) <= Modulus
  BY DEF IsCall, Decodable
<1> QED
  BY <1>1, <1>2, ShapeDims

LEMMA LoadedIs ==
  ASSUME NEW k, IsCall(k)
  PROVE  Loaded(k) \in HeadsOf(DimsOf(k))
<1> DEFINE s == k.s
           size == k.to - k.from
<1>1. /\ N(s) \in Nat /\ M(s) \in Nat /\ s.d \in Nat /\ s.p \in Nat
      /\ M(s) + s.d <= N(s) /\ s.p <= M(s) /\ N(s) <= Modulus
  BY CallDims
<1>2. /\ k.from \in Nat /\ k.to \in Nat /\ k.from < k.to /\ k.to <= Elements(s)
      /\ k.data \in [Lanes(Total(s)) -> ElementsOf(s) \union {Absent}]
      /\ s \in Shapes /\ Decodable(s) /\ k.present \subseteq Lanes(Total(s))
  BY DEF IsCall, IsChunk
<1>3. PlanOf(k).err_locs \in Vectors
  BY <1>2, DecodePlanIs DEF PlanOf
<1>4. PICK n \in Nat : n = size
  BY <1>2
<1>5. 0 \in Element
  BY Orders
<1>6. Fill(size, 0) \in [1 .. n -> Element]
  BY <1>4, <1>5 DEF Fill
<1>7. ASSUME NEW x \in ElementsOf(s), NEW log_m \in Element
      PROVE  LaneMul(SubSeq(x, k.from + 1, k.to), log_m) \in [1 .. n -> Element]
  <2> DEFINE y == SubSeq(x, k.from + 1, k.to)
  <2>1. Elements(s) \in Int
    BY <1>2, ShapeDims DEF Elements
  <2>2. \A c \in k.from + 1 .. k.to : x[c] \in Element
    <3>1. \A c \in k.from + 1 .. k.to : c \in 1 .. Elements(s)
      BY <1>2, <2>1
    <3> QED
      BY <3>1 DEF ElementsOf
  <2>3. y \in Seq(Element) /\ Len(y) = n
    <3>1. k.from + 1 \in Int /\ k.to \in Int
      BY <1>2
    <3>2. y \in Seq(Element) /\ Len(y) = IF k.from + 1 <= k.to THEN k.to - (k.from + 1) + 1 ELSE 0
      BY <2>2, <3>1, SubSeqProperties
    <3> HIDE DEF y
    <3> QED
      BY <1>2, <1>4, <3>2
  <2> HIDE DEF y
  <2>4. y \in [1 .. n -> Element] /\ DOMAIN y = 1 .. n
    BY <2>3, LenProperties
  <2>5. \A c \in 1 .. n : MulLut[log_m][y[c]] \in Element
    BY <2>4, MulLutIs
  <2>6. LaneMul(y, log_m) \in [1 .. n -> Element]
    BY <2>4, <2>5 DEF LaneMul
  <2> QED
    BY <2>6 DEF y
<1>8. ASSUME NEW l \in Lanes(N(s))
      PROVE  Loaded(k)[l] \in [1 .. n -> Element]
  <2> DEFINE i == IF l >= M(s) THEN l - M(s) ELSE s.d + l
  <2>1. l \in Nat /\ l < N(s)
    BY <1>1 DEF Lanes
  <2>2. PlanOf(k).err_locs[l] \in Element
    <3>1. l \in Element
      BY <1>1, <2>1, Orders
    <3> QED
      BY <1>3, <3>1 DEF Vectors
  <2>3. CASE l < M(s) + s.d /\ ~(l \in s.p .. M(s) - 1) /\ k.data[i] # Absent
    <3>1. i \in Lanes(Total(s))
      BY <1>1, <2>1, <2>3 DEF Lanes, Total
    <3>2. k.data[i] \in ElementsOf(s)
      BY <1>2, <2>3, <3>1
    <3>3. Loaded(k)[l] = LaneMul(SubSeq(k.data[i], k.from + 1, k.to), PlanOf(k).err_locs[l])
      BY <2>3 DEF Loaded
    <3> HIDE DEF i
    <3> QED
      BY <1>7, <2>2, <3>2, <3>3
  <2>4. CASE ~(l < M(s) + s.d /\ ~(l \in s.p .. M(s) - 1) /\ k.data[i] # Absent)
    <3>1. Loaded(k)[l] = Fill(size, 0)
      BY <2>4 DEF Loaded
    <3> QED
      BY <1>6, <3>1
  <2> QED
    BY <2>3, <2>4
<1>9. Loaded(k) = [l \in Lanes(N(s)) |-> Loaded(k)[l]]
  BY DEF Loaded
<1>10. DimsOf(k).n = N(s) /\ DimsOf(k).size = n
  BY <1>4 DEF DimsOf
<1> QED
  BY <1>8, <1>9, <1>10 DEF HeadsOf

LEMMA IfftDecodeAlike ==
  ASSUME NEW z, IsDims(z), NEW v, NEW w, AreasAlike(v, w, z), NEW plan,
         IfftSteps(plan, plan.m, dit4_decode_at_16) \in Seq(Butterflies)
  PROVE  AreasAlike(ifft_dit_decode16(v, z.size, plan), ifft_dit_decode16(w, z.size, plan), z)
<1> DEFINE h == ZeroLanes(View(v, z.size), TailLanes(plan))
           steps == IfftSteps(plan, plan.m, dit4_decode_at_16)
<1>1. View(v, z.size) \in HeadsOf(z) /\ View(v, z.size) = View(w, z.size)
  BY ViewIs
<1>2. h \in HeadsOf(z)
  BY <1>1, ZeroHeads
<1>3. /\ ifft_dit_decode16(v, z.size, plan) = RunSteps("inverse", Splice(v, h), steps)
      /\ ifft_dit_decode16(w, z.size, plan) = RunSteps("inverse", Splice(w, h), steps)
  BY <1>1 DEF ifft_dit_decode16
<1> HIDE DEF h, steps
<1>4. v \in AreasOf(z) /\ w \in AreasOf(z)
  BY DEF AreasAlike
<1>5. AreasAlike(Splice(v, h), Splice(w, h), z)
  BY <1>2, <1>4, SpliceAlike
<1>6. steps \in Seq(Butterflies)
  BY DEF steps
<1> QED
  BY <1>3, <1>5, <1>6, RunStepsAlike

LEMMA LanesCount ==
  ASSUME NEW n \in Nat
  PROVE  Cardinality(Lanes(n)) = n
<1>1. n - 1 \in Int /\ 0 \in Int
  OBVIOUS
<1>2. Cardinality(0 .. n - 1) = IF 0 > n - 1 THEN 0 ELSE (n - 1) - 0 + 1
  BY <1>1, FS_Interval
<1> QED
  BY <1>2 DEF Lanes

\* Whatever areas the workers had, the chunks that they compute are alike in the
\* columns that count.
LEMMA ChunkAlike ==
  ASSUME NEW k, IsCall(k), NEW v \in AreasOf(DimsOf(k)), NEW w \in AreasOf(DimsOf(k))
  PROVE  AreasAlike(ChunkOf(k, v), ChunkOf(k, w), DimsOf(k))
<1> DEFINE z == DimsOf(k)
           n == N(k.s)
           plan == PlanOf(k)
           size == k.to - k.from
           Area == [Lanes(n) -> Seq(Element)]
           Forward(x) == fft_dit_decode16(x, plan.fft_plan)
           Backward(x) == ifft_dit_decode16(x, size, plan.ifft_plan)
           Chunk(x) == Forward(Derivative(Backward(Splice(x, Loaded(k))), n))
<1>1. /\ IsDims(z) /\ n \in TwoPowers /\ n <= Modulus /\ n \in Nat
      /\ z.n = n /\ z.size = size /\ z.len \in Nat
  BY CallDims DEF DimsOf, IsDims
<1>2. /\ IfftSteps(plan.ifft_plan, plan.ifft_plan.m, dit4_decode_at_16) \in Seq(Butterflies)
      /\ FftSteps(plan.fft_plan, n, dit4_decode_at_16) \in Seq(Butterflies)
  BY DecodePlanIs DEF IsCall, PlanOf
<1>3. Loaded(k) \in HeadsOf(z)
  BY LoadedIs
<1> HIDE DEF z, n, plan, size
<1>4. ASSUME NEW x, NEW y, AreasAlike(x, y, z)
      PROVE  AreasAlike(Forward(x), Forward(y), z)
  <2>1. DOMAIN x = Lanes(n) /\ DOMAIN y = Lanes(n)
    BY <1>1, <1>4 DEF AreasAlike, AreasOf
  <2>2. Cardinality(DOMAIN x) = n /\ Cardinality(DOMAIN y) = n
    BY <1>1, <2>1, LanesCount
  <2>3. /\ Forward(x) = RunSteps("forward", x, FftSteps(plan.fft_plan, n, dit4_decode_at_16))
        /\ Forward(y) = RunSteps("forward", y, FftSteps(plan.fft_plan, n, dit4_decode_at_16))
    BY <2>2 DEF fft_dit_decode16
  <2> QED
    BY <1>1, <1>2, <1>4, <2>3, RunStepsAlike
<1>5. ASSUME NEW x, NEW y, AreasAlike(x, y, z)
      PROVE  AreasAlike(Backward(x), Backward(y), z)
  BY <1>1, <1>2, <1>5, IfftDecodeAlike
<1>6. ASSUME NEW x, NEW y, AreasAlike(x, y, z)
      PROVE  AreasAlike(Derivative(x, n), Derivative(y, n), z)
  BY <1>1, <1>6, DerivativeAlike
<1>7. ASSUME NEW x \in AreasOf(z)
      PROVE  x \in Area
  <2>1. \A l \in Lanes(n) : x[l] \in Seq(Element)
    BY <1>1, IsASequence DEF AreasOf, LanesOf
  <2>2. x = [l \in Lanes(n) |-> x[l]]
    BY <1>1 DEF AreasOf
  <2> QED
    BY <2>1, <2>2
<1> HIDE DEF Forward, Backward
<1>8. ASSUME NEW x \in AreasOf(z)
      PROVE  ChunkOf(k, x) = Chunk(x)
  <2> DEFINE fft == [a \in Area |-> Forward(a)]
             derivative == [a \in Area |-> fft[Derivative(a, n)]]
             ifft == [a \in Area |-> derivative[Backward(a)]]
             load == Splice(x, Loaded(k))
  <2>1. LoadChunk(k.s, k.data, plan.err_locs, x, k.from, k.to) = load
    <3>1. DOMAIN x = Lanes(n)
      BY <1>1 DEF AreasOf
    <3> QED
      BY <3>1 DEF LoadChunk, Loaded, n, plan, View
  <2>2. ChunkOf(k, x) = ifft[load]
    BY <2>1 DEF ChunkOf, compute_reconstruct_chunk, Forward, Backward, plan, n, size,
                compute_formal_derivative16
  <2>3. AreasAlike(load, load, z)
    BY <1>1, <1>3, <1>8, SpliceAlike
  <2> HIDE DEF load
  <2>4. AreasAlike(Backward(load), Backward(load), z)
    BY <1>5, <2>3
  <2>5. AreasAlike(Derivative(Backward(load), n), Derivative(Backward(load), n), z)
    BY <1>6, <2>4
  <2>6. load \in Area /\ Backward(load) \in Area /\ Derivative(Backward(load), n) \in Area
    BY <1>7, <2>3, <2>4, <2>5 DEF AreasAlike
  <2> HIDE DEF Area
  <2>7. ifft[load] = Forward(Derivative(Backward(load), n))
    BY <2>6
  <2> QED
    BY <2>2, <2>7 DEF load
<1> HIDE DEF Area, Chunk
<1>9. ChunkOf(k, v) = Chunk(v) /\ ChunkOf(k, w) = Chunk(w)
  BY <1>8 DEF z
<1>10. AreasAlike(Splice(v, Loaded(k)), Splice(w, Loaded(k)), z)
  BY <1>1, <1>3, SpliceAlike DEF z
<1>11. AreasAlike(Chunk(v), Chunk(w), z)
  BY <1>4, <1>5, <1>6, <1>10 DEF Chunk
<1> QED
  BY <1>9, <1>11 DEF z

----------------------------------------------------------------------------
(* The chunks of an encoding.                                                 *)

\* The columns from + 1 to `to` of an encoding of the data shards data.
IsEncoding(e) ==
  /\ e.s \in Shapes /\ Encodable(e.s)
  /\ e.data \in [Lanes(e.s.d) -> ElementsOf(e.s)]
  /\ IsChunk(e.s, e.from, e.to)
WorkOf(e)  == [n |-> 2 * M(e.s), len |-> e.to - e.from, size |-> e.to - e.from]
HalfOf(e)  == [n |-> M(e.s), len |-> e.to - e.from, size |-> e.to - e.from]
EncodedOf(e, area) == EncodeChunk(e.s, e.data, area, e.from, e.to)

\* The lanes of a group before its transform, and after it.
GroupInput(e, g) ==
  [l \in Lanes(M(e.s)) |->
     IF l \in TailLanes(EncodePlan16[e.s].ifft[g].plan) THEN [c \in 1 .. e.to - e.from |-> 0]
     ELSE SubSeq(e.data[(g - 1) * M(e.s) + l], e.from + 1, e.to)]
GroupOutput(e, g) == RunSteps("inverse", GroupInput(e, g), EncodePlan16[e.s].ifft[g].steps)

\* A group put into the work area, and all of them.
PutInto(m, into, v, u) ==
  [l \in DOMAIN v |-> IF l >= into /\ l < into + m THEN u[l - into]
                      ELSE IF l < m THEN LanePlus(u[l], v[l]) ELSE v[l]]
IntoOf(e, g) == IF g = 1 THEN 0 ELSE M(e.s)
GroupedOf(e, v, g) ==
  PutInto(M(e.s), IntoOf(e, g), v,
    ifft_dit_encoder16(e.data, EncodePlan16[e.s].ifft[g],
      [l \in Lanes(M(e.s)) |-> v[l + IntoOf(e, g)]], (g - 1) * M(e.s), e.from, e.to))
GroupsOf(e, v) ==
  CHOOSE group : group = [g \in 0 .. Len(EncodePlan16[e.s].ifft) |->
                            IF g = 0 THEN v ELSE GroupedOf(e, group[g - 1], g)]
ParityOf(e, v) ==
  PutInto(M(e.s), 0, v, fft_dit16([l \in Lanes(M(e.s)) |-> v[l]], EncodePlan16[e.s].fft))

LEMMA EncodingDims ==
  ASSUME NEW e, IsEncoding(e)
  PROVE  /\ IsDims(WorkOf(e)) /\ IsDims(HalfOf(e))
         /\ M(e.s) \in Nat /\ M(e.s) >= 1 /\ M(e.s) \in TwoPowers /\ e.s.d \in Nat
         /\ e.from \in Nat /\ e.to \in Nat /\ e.from < e.to /\ e.to <= Elements(e.s)
         /\ Elements(e.s) \in Nat
         /\ WorkOf(e).n = 2 * M(e.s) /\ HalfOf(e).n = M(e.s)
         /\ LanesOf(WorkOf(e)) = [1 .. e.to - e.from -> Element]
         /\ LanesOf(HalfOf(e)) = [1 .. e.to - e.from -> Element]
<1>1. /\ e.s \in Shapes /\ M(e.s) <= Modulus
      /\ e.from \in Nat /\ e.to \in Nat /\ e.from < e.to /\ e.to <= Elements(e.s)
  BY DEF IsEncoding, IsChunk, Encodable
<1>2. Elements(e.s) \in Nat
  BY <1>1, ShapeDims DEF Elements
<1> QED
  BY <1>1, <1>2, ShapeDims DEF IsDims, WorkOf, HalfOf, LanesOf

\* The columns of a data shard.
LEMMA ColumnsAre ==
  ASSUME NEW s \in Shapes, NEW from \in Nat, NEW to \in Nat, from < to, to <= Elements(s),
         NEW x \in ElementsOf(s)
  PROVE  SubSeq(x, from + 1, to) \in [1 .. to - from -> Element]
<1>1. Elements(s) \in Int
  BY ShapeDims DEF Elements
<1>2. \A c \in from + 1 .. to : x[c] \in Element
  <2>1. \A c \in from + 1 .. to : c \in 1 .. Elements(s)
    BY <1>1
  <2> QED
    BY <2>1 DEF ElementsOf
<1> DEFINE y == SubSeq(x, from + 1, to)
<1>3. y \in Seq(Element) /\ Len(y) = IF from + 1 <= to THEN to - (from + 1) + 1 ELSE 0
  <2>1. from + 1 \in Int /\ to \in Int
    OBVIOUS
  <2> QED
    BY <1>2, <2>1, SubSeqProperties
<1> HIDE DEF y
<1>4. Len(y) = to - from
  BY <1>3
<1> QED
  BY <1>3, <1>4, LenProperties DEF y

LEMMA GroupIs ==
  ASSUME NEW e, IsEncoding(e), NEW g \in 1 .. Len(EncodePlan16[e.s].ifft),
         NEW lanes \in AreasOf(HalfOf(e))
  PROVE  /\ ifft_dit_encoder16(e.data, EncodePlan16[e.s].ifft[g], lanes, (g - 1) * M(e.s),
                               e.from, e.to) = GroupOutput(e, g)
         /\ GroupOutput(e, g) \in AreasOf(HalfOf(e))
<1> DEFINE planned == EncodePlan16[e.s].ifft[g]
           m == M(e.s)
           z == HalfOf(e)
           first == (g - 1) * m
           Shard(l) == SubSeq(e.data[first + l], e.from + 1, e.to)
           zeros == [c \in 1 .. e.to - e.from |-> 0]
           loaded == [l \in DOMAIN lanes |-> IF l < planned.plan.mtrunc THEN Shard(l) ELSE lanes[l]]
           tail == TailLanes(planned.plan)
<1>1. /\ IsDims(z) /\ m \in Nat /\ z.n = m /\ LanesOf(z) = [1 .. e.to - e.from -> Element]
      /\ e.s \in Shapes /\ e.from \in Nat /\ e.to \in Nat /\ e.from < e.to /\ e.to <= Elements(e.s)
  BY EncodingDims DEF IsEncoding
<1>2. GroupIsPlanned(planned, first, e.s)
  BY EncodePlanIs DEF IsEncoding
<1>3. DOMAIN lanes = Lanes(m) /\ \A l \in Lanes(m) : lanes[l] \in [1 .. e.to - e.from -> Element]
  BY <1>1 DEF AreasOf
<1>4. zeros \in [1 .. e.to - e.from -> Element]
  BY Orders
<1>5. ASSUME NEW l \in Lanes(m)
      PROVE  /\ l \notin tail => l < planned.plan.mtrunc /\ Shard(l) \in [1 .. e.to - e.from -> Element]
             /\ loaded[l] \in [1 .. e.to - e.from -> Element]
  <2>1. CASE l < planned.plan.mtrunc
    <3>1. first + l \in Lanes(e.s.d)
      BY <1>2, <2>1 DEF GroupIsPlanned
    <3>2. e.data[first + l] \in ElementsOf(e.s)
      BY <3>1 DEF IsEncoding
    <3>3. Shard(l) \in [1 .. e.to - e.from -> Element]
      <4> DEFINE x == e.data[first + l]
      <4>1. x \in ElementsOf(e.s)
        BY <3>2
      <4> HIDE DEF x
      <4>2. SubSeq(x, e.from + 1, e.to) \in [1 .. e.to - e.from -> Element]
        BY <1>1, <4>1, ColumnsAre
      <4> QED
        BY <4>2 DEF x
    <3>4. loaded[l] = Shard(l)
      BY <1>3, <2>1
    <3> HIDE DEF Shard, loaded
    <3> QED
      BY <2>1, <3>3, <3>4
  <2>2. CASE ~(l < planned.plan.mtrunc)
    <3>1. l \in tail
      BY <1>2, <2>2 DEF GroupIsPlanned
    <3>2. loaded[l] = lanes[l]
      BY <1>3, <2>2
    <3> HIDE DEF tail, loaded
    <3> QED
      BY <1>3, <3>1, <3>2
  <2> QED
    BY <2>1, <2>2
<1>6. ZeroLanes(loaded, tail) = GroupInput(e, g)
  <2>1. DOMAIN loaded = Lanes(m)
    BY <1>3
  <2>2. ASSUME NEW l \in Lanes(m)
        PROVE  (IF l \in tail THEN [c \in DOMAIN loaded[l] |-> 0] ELSE loaded[l])
                 = IF l \in tail THEN zeros ELSE Shard(l)
    <3>1. CASE l \in tail
      <4>1. DOMAIN loaded[l] = 1 .. e.to - e.from
        BY <1>5
      <4> QED
        BY <3>1, <4>1
    <3>2. CASE l \notin tail
      <4>1. loaded[l] = Shard(l)
        BY <1>3, <1>5, <3>2
      <4> QED
        BY <3>2, <4>1
    <3> QED
      BY <3>1, <3>2
  <2>3. ZeroLanes(loaded, tail) =
          [l \in Lanes(m) |-> IF l \in tail THEN [c \in DOMAIN loaded[l] |-> 0] ELSE loaded[l]]
    BY <2>1 DEF ZeroLanes
  <2>4. GroupInput(e, g) = [l \in Lanes(m) |-> IF l \in tail THEN zeros ELSE Shard(l)]
    BY DEF GroupInput
  <2> HIDE DEF tail, loaded, zeros, Shard, m
  <2> QED
    BY <2>2, <2>3, <2>4
<1>7. GroupInput(e, g) \in AreasOf(z)
  <2>1. GroupInput(e, g) = [l \in Lanes(m) |-> IF l \in tail THEN zeros ELSE Shard(l)]
    BY DEF GroupInput
  <2> HIDE DEF tail, zeros, Shard, m, loaded
  <2> QED
    BY <1>1, <1>4, <1>5, <2>1 DEF AreasOf
<1>8. ifft_dit_encoder16(e.data, planned, lanes, first, e.from, e.to)
        = RunSteps("inverse", ZeroLanes(loaded, tail), planned.steps)
  BY DEF ifft_dit_encoder16
<1>9. planned.steps \in Seq(Butterflies)
  BY <1>2 DEF GroupIsPlanned
<1>10. AreasAlike(GroupInput(e, g), GroupInput(e, g), z)
  BY <1>7 DEF AreasAlike, Alike, AreasOf
<1> HIDE DEF z
<1>11. AreasAlike(GroupOutput(e, g), GroupOutput(e, g), z)
  BY <1>1, <1>9, <1>10, RunStepsAlike DEF GroupOutput
<1> QED
  BY <1>6, <1>8, <1>11 DEF AreasAlike, GroupOutput, z

LEMMA PutIs ==
  ASSUME NEW e, IsEncoding(e), NEW into \in {0, M(e.s)},
         NEW v \in AreasOf(WorkOf(e)), NEW u \in AreasOf(HalfOf(e))
  PROVE  /\ PutInto(M(e.s), into, v, u) \in AreasOf(WorkOf(e))
         /\ \A l \in Lanes(M(e.s)) :
              PutInto(M(e.s), into, v, u)[l] = IF into = 0 THEN u[l] ELSE LanePlus(u[l], v[l])
<1> DEFINE m == M(e.s)
           z == WorkOf(e)
           y == HalfOf(e)
           r == PutInto(m, into, v, u)
<1>1. /\ IsDims(z) /\ IsDims(y) /\ m \in Nat /\ m >= 1 /\ z.n = 2 * m /\ y.n = m
      /\ LanesOf(z) = LanesOf(y)
  BY EncodingDims
<1>2. /\ DOMAIN v = Lanes(2 * m) /\ \A l \in Lanes(2 * m) : v[l] \in LanesOf(z)
      /\ \A l \in Lanes(m) : u[l] \in LanesOf(z)
  BY <1>1 DEF AreasOf
<1>3. r = [l \in Lanes(2 * m) |-> IF l >= into /\ l < into + m THEN u[l - into]
                                  ELSE IF l < m THEN LanePlus(u[l], v[l]) ELSE v[l]]
  BY <1>2 DEF PutInto
<1>4. \A l \in Lanes(m) : l \in Lanes(2 * m) /\ l \in Int /\ 0 <= l /\ l < m
  BY <1>1 DEF Lanes
<1>5. \A x \in LanesOf(z), w \in LanesOf(z) : LanePlus(x, w) \in LanesOf(z)
  <2>1. ASSUME NEW x \in LanesOf(z), NEW w \in LanesOf(z)
        PROVE  LanePlus(x, w) \in LanesOf(z)
    <3> HIDE DEF z
    <3>1. Alike(x, x, z) /\ Alike(w, w, z)
      BY DEF Alike
    <3> QED
      BY <1>1, <3>1, LanePlusAlike DEF Alike
  <2> QED
    BY <2>1
<1> HIDE DEF m, z, y, r
<1>6. ASSUME NEW l \in Lanes(2 * m)
      PROVE  r[l] \in LanesOf(z)
  <2>1. l \in Int /\ 0 <= l /\ l < 2 * m
    BY <1>1 DEF Lanes
  <2>2. CASE l >= into /\ l < into + m
    <3>1. l - into \in Lanes(m)
      BY <1>1, <2>1, <2>2 DEF Lanes, m
    <3> QED
      BY <1>2, <1>3, <2>2, <3>1
  <2>3. CASE ~(l >= into /\ l < into + m) /\ l < m
    <3>1. l \in Lanes(m)
      BY <1>1, <2>1, <2>3 DEF Lanes
    <3> QED
      BY <1>2, <1>3, <1>5, <2>3, <3>1
  <2>4. CASE ~(l >= into /\ l < into + m) /\ ~(l < m)
    BY <1>2, <1>3, <2>4
  <2> QED
    BY <2>2, <2>3, <2>4
<1>7. r \in AreasOf(z)
  <2>1. r = [l \in Lanes(2 * m) |-> r[l]]
    BY <1>3
  <2> QED
    BY <1>1, <1>6, <2>1 DEF AreasOf
<1>8. ASSUME NEW l \in Lanes(m)
      PROVE  r[l] = IF into = 0 THEN u[l] ELSE LanePlus(u[l], v[l])
  <2>1. l \in Lanes(2 * m) /\ l \in Int /\ 0 <= l /\ l < m
    BY <1>4
  <2>2. CASE into = 0
    <3>1. l >= into /\ l < into + m /\ l - into = l
      BY <1>1, <2>1, <2>2
    <3> QED
      BY <1>3, <2>1, <2>2, <3>1
  <2>3. CASE into # 0
    <3>1. into = m /\ ~(l >= into)
      BY <1>1, <2>1, <2>3 DEF m
    <3> QED
      BY <1>3, <2>1, <2>3, <3>1
  <2> QED
    BY <2>2, <2>3
<1> QED
  BY <1>7, <1>8 DEF m, z, r

\* Half of a work area.
LEMMA HalfIs ==
  ASSUME NEW e, IsEncoding(e), NEW into \in {0, M(e.s)}, NEW v \in AreasOf(WorkOf(e))
  PROVE  [l \in Lanes(M(e.s)) |-> v[l + into]] \in AreasOf(HalfOf(e))
<1>1. PICK m \in Nat : /\ m = M(e.s) /\ WorkOf(e).n = 2 * m /\ HalfOf(e).n = m
                       /\ LanesOf(WorkOf(e)) = LanesOf(HalfOf(e))
  BY EncodingDims
<1>2. \A l \in Lanes(m) : l + into \in Lanes(2 * m)
  BY <1>1 DEF Lanes
<1>3. \A l \in Lanes(m) : v[l + into] \in LanesOf(HalfOf(e))
  BY <1>1, <1>2 DEF AreasOf
<1> QED
  BY <1>1, <1>3 DEF AreasOf

LEMMA GroupedIs ==
  ASSUME NEW e, IsEncoding(e), NEW g \in 1 .. Len(EncodePlan16[e.s].ifft),
         NEW v \in AreasOf(WorkOf(e))
  PROVE  /\ GroupedOf(e, v, g) \in AreasOf(WorkOf(e))
         /\ \A l \in Lanes(M(e.s)) :
              GroupedOf(e, v, g)[l] = IF g = 1 THEN GroupOutput(e, g)[l]
                                      ELSE LanePlus(GroupOutput(e, g)[l], v[l])
<1> DEFINE into == IntoOf(e, g)
           lanes == [l \in Lanes(M(e.s)) |-> v[l + into]]
           u == GroupOutput(e, g)
<1>1. M(e.s) \in Nat /\ M(e.s) >= 1
  BY EncodingDims
<1>2. into \in {0, M(e.s)} /\ (into = 0 <=> g = 1)
  BY <1>1 DEF IntoOf
<1> HIDE DEF into
<1>3. lanes \in AreasOf(HalfOf(e))
  BY <1>2, HalfIs
<1> HIDE DEF lanes
<1>4. /\ ifft_dit_encoder16(e.data, EncodePlan16[e.s].ifft[g], lanes, (g - 1) * M(e.s),
                            e.from, e.to) = u
      /\ u \in AreasOf(HalfOf(e))
  BY <1>3, GroupIs
<1>5. GroupedOf(e, v, g) = PutInto(M(e.s), into, v, u)
  BY <1>4 DEF GroupedOf, into, lanes
<1> HIDE DEF u
<1>6. /\ PutInto(M(e.s), into, v, u) \in AreasOf(WorkOf(e))
      /\ \A l \in Lanes(M(e.s)) :
           PutInto(M(e.s), into, v, u)[l] = IF into = 0 THEN u[l] ELSE LanePlus(u[l], v[l])
  BY <1>2, <1>4, PutIs
<1> QED
  BY <1>2, <1>5, <1>6 DEF u

LEMMA GroupsAre ==
  ASSUME NEW e, IsEncoding(e), NEW v \in AreasOf(WorkOf(e))
  PROVE  /\ EncodedOf(e, v) = ParityOf(e, GroupsOf(e, v)[Len(EncodePlan16[e.s].ifft)])
         /\ GroupsOf(e, v)[0] = v
         /\ \A g \in 1 .. Len(EncodePlan16[e.s].ifft) :
              GroupsOf(e, v)[g] = GroupedOf(e, GroupsOf(e, v)[g - 1], g)
         /\ \A g \in 0 .. Len(EncodePlan16[e.s].ifft) : GroupsOf(e, v)[g] \in AreasOf(WorkOf(e))
<1> DEFINE D == AreasOf(WorkOf(e))
           Is(f) == f = [g \in 0 .. Len(EncodePlan16[e.s].ifft) |->
                           IF g = 0 THEN v ELSE GroupedOf(e, f[g - 1], g)]
<1>1. PICK n \in Nat : n = Len(EncodePlan16[e.s].ifft)
  BY EncodePlanIs DEF IsEncoding
<1> DEFINE S == [g \in 1 .. n |-> [x \in D |-> GroupedOf(e, x, g)]]
<1>2. ASSUME NEW g \in 1 .. n, NEW x \in D
      PROVE  GroupedOf(e, x, g) \in D
  BY <1>1, GroupedIs
<1> HIDE DEF D
<1>3. \A g \in 1 .. n : \A x \in D : S[g][x] = GroupedOf(e, x, g) /\ S[g][x] \in D
  BY <1>2
<1> HIDE DEF S
<1>4. StaysIn(D, n, S) /\ v \in D
  BY <1>3 DEF StaysIn, D
<1>5. PICK f : Recursion(f, n, v, S) /\ \A g \in 0 .. n : f[g] \in D
  BY <1>1, <1>4, Iteration
<1>6. ASSUME NEW g \in 0 .. n
      PROVE  (IF g = 0 THEN v ELSE S[g][f[g - 1]]) = IF g = 0 THEN v ELSE GroupedOf(e, f[g - 1], g)
  <2>1. g # 0 => g \in 1 .. n /\ g - 1 \in 0 .. n
    BY <1>1
  <2> QED
    BY <1>3, <1>5, <2>1
<1>7. Is(f)
  BY <1>1, <1>5, <1>6 DEF Recursion
<1>8. Is(GroupsOf(e, v))
  BY <1>7 DEF GroupsOf
<1>9. EncodedOf(e, v) = ParityOf(e, GroupsOf(e, v)[Len(EncodePlan16[e.s].ifft)])
  BY DEF EncodedOf, EncodeChunk, ParityOf, GroupsOf, GroupedOf, PutInto, IntoOf
<1> DEFINE h == GroupsOf(e, v)
<1>10. h[0] = v /\ \A g \in 1 .. n : h[g] = GroupedOf(e, h[g - 1], g)
  <2> HIDE DEF h
  <2>1. h = [g \in 0 .. n |-> IF g = 0 THEN v ELSE GroupedOf(e, h[g - 1], g)]
    BY <1>1, <1>8 DEF h
  <2>2. 0 \in 0 .. n /\ \A g \in 1 .. n : g \in 0 .. n /\ g # 0
    BY <1>1
  <2> QED
    BY <2>1, <2>2
<1> HIDE DEF h
<1> DEFINE good == {g \in 0 .. n : h[g] \in D}
<1>11. 0 \in good
  BY <1>1, <1>4, <1>10
<1>12. ASSUME NEW g \in 0 .. n - 1, g \in good
       PROVE  g + 1 \in good
  <2>1. g + 1 \in 1 .. n /\ g + 1 \in 0 .. n /\ (g + 1) - 1 = g
    BY <1>1
  <2>2. h[g + 1] = GroupedOf(e, h[g], g + 1)
    BY <1>10, <2>1
  <2>3. h[g + 1] \in D
    BY <1>2, <1>12, <2>1, <2>2
  <2> QED
    BY <2>1, <2>3
<1>13. \A g \in 0 .. n : g \in good
  <2> HIDE DEF good
  <2> QED
    BY <1>1, <1>11, <1>12, UpTo
<1>14. \A g \in 0 .. n : h[g] \in D
  BY <1>13
<1> QED
  BY <1>1, <1>9, <1>10, <1>14 DEF h, D

\* Whatever the last chunk left in the work area, the parity of a chunk is that of
\* a fresh one.
LEMMA EncodingAlike ==
  ASSUME NEW e, IsEncoding(e), NEW v \in AreasOf(WorkOf(e)), NEW w \in AreasOf(WorkOf(e))
  PROVE  /\ EncodedOf(e, v) \in AreasOf(WorkOf(e))
         /\ \A l \in Lanes(M(e.s)) : EncodedOf(e, v)[l] = EncodedOf(e, w)[l]
<1> DEFINE D == AreasOf(WorkOf(e))
           f == GroupsOf(e, v)
           h == GroupsOf(e, w)
           lower == Lanes(M(e.s))
<1>1. PICK n \in Nat : n = Len(EncodePlan16[e.s].ifft) /\ n >= 1
  BY EncodePlanIs DEF IsEncoding
<1>2. /\ EncodedOf(e, v) = ParityOf(e, f[n])
      /\ \A g \in 1 .. n : f[g] = GroupedOf(e, f[g - 1], g)
      /\ \A g \in 0 .. n : f[g] \in D
  BY <1>1, GroupsAre
<1>3. /\ EncodedOf(e, w) = ParityOf(e, h[n])
      /\ \A g \in 1 .. n : h[g] = GroupedOf(e, h[g - 1], g)
      /\ \A g \in 0 .. n : h[g] \in D
  BY <1>1, GroupsAre
<1> HIDE DEF f, h
<1>4. ASSUME NEW g \in 1 .. n, NEW l \in lower
      PROVE  /\ f[g][l] = IF g = 1 THEN GroupOutput(e, g)[l]
                          ELSE LanePlus(GroupOutput(e, g)[l], f[g - 1][l])
             /\ h[g][l] = IF g = 1 THEN GroupOutput(e, g)[l]
                          ELSE LanePlus(GroupOutput(e, g)[l], h[g - 1][l])
  <2>1. g - 1 \in 0 .. n
    BY <1>1
  <2>2. f[g - 1] \in D /\ h[g - 1] \in D
    BY <1>2, <1>3, <2>1
  <2> QED
    BY <1>1, <1>2, <1>3, <2>2, GroupedIs
<1> DEFINE good == {g \in 0 .. n : g = 0 \/ \A l \in lower : f[g][l] = h[g][l]}
<1>5. 0 \in good
  BY <1>1
<1>6. ASSUME NEW g \in 0 .. n - 1, g \in good
      PROVE  g + 1 \in good
  <2>1. g + 1 \in 1 .. n /\ g + 1 \in 0 .. n /\ (g + 1) - 1 = g /\ (g + 1 = 1 <=> g = 0)
    BY <1>1
  <2>2. ASSUME NEW l \in lower
        PROVE  f[g + 1][l] = h[g + 1][l]
    <3>1. /\ f[g + 1][l] = IF g = 0 THEN GroupOutput(e, g + 1)[l]
                           ELSE LanePlus(GroupOutput(e, g + 1)[l], f[g][l])
          /\ h[g + 1][l] = IF g = 0 THEN GroupOutput(e, g + 1)[l]
                           ELSE LanePlus(GroupOutput(e, g + 1)[l], h[g][l])
      BY <1>4, <2>1
    <3> QED
      BY <1>6, <3>1
  <2> QED
    BY <2>1, <2>2
<1>7. \A g \in 0 .. n : g \in good
  <2> HIDE DEF good
  <2> QED
    BY <1>1, <1>5, <1>6, UpTo
<1>8. f[n] \in D /\ h[n] \in D /\ \A l \in lower : f[n][l] = h[n][l]
  BY <1>1, <1>2, <1>3, <1>7
<1> DEFINE a == [l \in lower |-> f[n][l]]
           b == [l \in lower |-> h[n][l]]
           out == fft_dit16(a, EncodePlan16[e.s].fft)
<1>9. a = b
  BY <1>8
<1>10. a \in AreasOf(HalfOf(e))
  <2>1. [l \in lower |-> f[n][l + 0]] \in AreasOf(HalfOf(e))
    BY <1>8, HalfIs
  <2>2. \A l \in lower : l + 0 = l
    BY EncodingDims DEF Lanes
  <2> QED
    BY <2>1, <2>2
<1>11. out \in AreasOf(HalfOf(e))
  <2> HIDE DEF a
  <2>1. AreasAlike(a, a, HalfOf(e)) /\ IsDims(HalfOf(e))
    BY <1>10, EncodingDims DEF AreasAlike, Alike, AreasOf
  <2>2. EncodePlan16[e.s].fft \in Seq(Butterflies)
    BY EncodePlanIs DEF IsEncoding
  <2>3. AreasAlike(out, out, HalfOf(e))
    BY <2>1, <2>2, RunStepsAlike DEF fft_dit16
  <2> QED
    BY <2>3 DEF AreasAlike
<1>12. /\ ParityOf(e, f[n]) = PutInto(M(e.s), 0, f[n], out)
       /\ ParityOf(e, h[n]) = PutInto(M(e.s), 0, h[n], out)
  BY <1>9 DEF ParityOf
<1> HIDE DEF a, b, out
<1>13. 0 \in {0, M(e.s)}
  OBVIOUS
<1>14. /\ PutInto(M(e.s), 0, f[n], out) \in D
       /\ \A l \in lower : PutInto(M(e.s), 0, f[n], out)[l] = out[l]
  <2>1. /\ PutInto(M(e.s), 0, f[n], out) \in D
        /\ \A l \in lower : PutInto(M(e.s), 0, f[n], out)[l]
                              = IF 0 = 0 THEN out[l] ELSE LanePlus(out[l], f[n][l])
    BY <1>8, <1>11, <1>13, PutIs
  <2> QED
    BY <2>1
<1>15. \A l \in lower : PutInto(M(e.s), 0, h[n], out)[l] = out[l]
  <2>1. \A l \in lower : PutInto(M(e.s), 0, h[n], out)[l]
                           = IF 0 = 0 THEN out[l] ELSE LanePlus(out[l], h[n][l])
    BY <1>8, <1>11, <1>13, PutIs
  <2> QED
    BY <2>1
<1> QED
  BY <1>2, <1>3, <1>12, <1>14, <1>15

----------------------------------------------------------------------------
(* The byte layout.                                                           *)

LEMMA DivBounds ==
  ASSUME NEW a \in Nat, NEW b \in Nat \ {0}
  PROVE  a \div b \in Nat /\ b * (a \div b) <= a /\ a < b * (a \div b) + b
OBVIOUS

LEMMA ModBounds ==
  ASSUME NEW a \in Nat, NEW b \in Nat \ {0}
  PROVE  a % b \in 0 .. b - 1 /\ a = b * (a \div b) + (a % b)
OBVIOUS

LEMMA DivIs ==
  ASSUME NEW a \in Nat, NEW b \in Nat \ {0}, NEW q \in Nat, NEW r \in Nat, r < b,
         a = b * q + r
  PROVE  a \div b = q /\ a % b = r
<1>1. PICK p \in Nat : p = a \div b
  BY DivBounds
<1>2. b * p <= a /\ a < b * p + b
  BY <1>1, DivBounds
<1>3. p > q => b * p >= b * q + b
  OBVIOUS
<1>4. p < q => b * q >= b * p + b
  OBVIOUS
<1>5. p = q
  <2>1. b * p \in Nat /\ b * q \in Nat
    OBVIOUS
  <2> QED
    BY <1>2, <1>3, <1>4, <2>1
<1>6. a % b \in 0 .. b - 1 /\ a = b * p + (a % b)
  BY <1>1, ModBounds
<1>7. a % b = r
  <2>1. b * p \in Nat /\ b * q = b * p
    BY <1>5
  <2> QED
    BY <1>6, <2>1
<1> QED
  BY <1>1, <1>5, <1>7

Bytes == 0 .. HalfOrder - 1

\* An element has two bytes.
LEMMA HalfOrders ==
  /\ (HalfOrder = 4 /\ Order = 16) \/ (HalfOrder = 16 /\ Order = 256)
       \/ (HalfOrder = 256 /\ Order = 65536)
  /\ \A b : b \in Bytes <=> b \in Nat /\ b < HalfOrder
<1>1. Bitwidth = 4 \/ Bitwidth = 8 \/ Bitwidth = 16
  BY Orders
<1>2. CASE Bitwidth = 4
  BY <1>2, Z3 DEF HalfOrder, Order, Bytes
<1>3. CASE Bitwidth = 8
  BY <1>3, Z3 DEF HalfOrder, Order, Bytes
<1>4. CASE Bitwidth = 16
  BY <1>4, Z3 DEF HalfOrder, Order, Bytes
<1> QED
  BY <1>1, <1>2, <1>3, <1>4

LEMMA HalvesAre ==
  ASSUME NEW x \in Element
  PROVE  /\ x % HalfOrder \in Bytes /\ x \div HalfOrder \in Bytes
         /\ (x % HalfOrder) + HalfOrder * (x \div HalfOrder) = x
<1>1. x \in Nat /\ x < Order
  BY Orders
<1>2. CASE HalfOrder = 4 /\ Order = 16
  <2>1. x % 4 \in Nat /\ x % 4 < 4 /\ x \div 4 \in Nat /\ x \div 4 < 4 /\ (x % 4) + 4 * (x \div 4) = x
    BY <1>1, <1>2
  <2> QED
    BY <1>2, <2>1, HalfOrders
<1>3. CASE HalfOrder = 16 /\ Order = 256
  <2>1. x % 16 \in Nat /\ x % 16 < 16 /\ x \div 16 \in Nat /\ x \div 16 < 16 /\ (x % 16) + 16 * (x \div 16) = x
    BY <1>1, <1>3
  <2> QED
    BY <1>3, <2>1, HalfOrders
<1>4. CASE HalfOrder = 256 /\ Order = 65536
  <2>1. x % 256 \in Nat /\ x % 256 < 256 /\ x \div 256 \in Nat /\ x \div 256 < 256
        /\ (x % 256) + 256 * (x \div 256) = x
    BY <1>1, <1>4
  <2> QED
    BY <1>4, <2>1, HalfOrders
<1> QED
  BY <1>2, <1>3, <1>4, HalfOrders

LEMMA BytesMake ==
  ASSUME NEW low \in Bytes, NEW high \in Bytes
  PROVE  low + HalfOrder * high \in Element
<1>1. low \in Nat /\ low < HalfOrder /\ high \in Nat /\ high < HalfOrder
  BY HalfOrders
<1>2. low + HalfOrder * high \in Nat /\ low + HalfOrder * high < Order
  BY <1>1, HalfOrders
<1> QED
  BY <1>2, Orders

\* Where the bytes of an element are.
LowByte(e)  == e + BLOCK * ((e - 1) \div BLOCK)
HighByte(e) == LowByte(e) + BLOCK

\* Chunks begin and end between blocks.
Between(n) == n \in Nat /\ n % BLOCK = 0

LEMMA PlacesAre ==
  ASSUME NEW from, Between(from), NEW to, Between(to), NEW e \in from + 1 .. to
  PROVE  /\ LowByte(e) \in 2 * from + 1 .. 2 * to /\ HighByte(e) \in 2 * from + 1 .. 2 * to
         /\ LowByte(e) - 2 * from = LowByte(e - from) /\ LowByte(e) = LowByte(e - from) + 2 * from
         /\ LET q == (e - 1) \div BLOCK
                r == (e - 1) % BLOCK
            IN /\ q \in Nat /\ r \in 0 .. BLOCK - 1 /\ LowByte(e) = 2 * BLOCK * q + r + 1
               /\ BLOCK * q + r + 1 = e
               /\ (LowByte(e) - 1) \div (2 * BLOCK) = q /\ (LowByte(e) - 1) % (2 * BLOCK) = r
               /\ (HighByte(e) - 1) \div (2 * BLOCK) = q
               /\ (HighByte(e) - 1) % (2 * BLOCK) = r + BLOCK
<1> DEFINE q == (e - 1) \div BLOCK
           r == (e - 1) % BLOCK
           f == from \div BLOCK
           t == to \div BLOCK
<1>1. BLOCK \in Nat \ {0}
  BY BlocksAssumption
<1>2. from \in Nat /\ to \in Nat /\ e \in Nat /\ from < e /\ e <= to /\ e - 1 \in Nat
  BY DEF Between
<1>3. f \in Nat /\ from = BLOCK * f
  BY <1>1, <1>2, ModBounds, DivBounds DEF Between
<1>4. t \in Nat /\ to = BLOCK * t
  BY <1>1, <1>2, ModBounds, DivBounds DEF Between
<1>5. q \in Nat /\ r \in 0 .. BLOCK - 1 /\ e - 1 = BLOCK * q + r
  BY <1>1, <1>2, ModBounds, DivBounds
<1>6. LowByte(e) = e + BLOCK * q /\ HighByte(e) = e + BLOCK * q + BLOCK
  BY DEF LowByte, HighByte
<1> HIDE DEF q, r, f, t
<1>7. PICK a \in Nat : a = BLOCK * q
  BY <1>1, <1>5
<1>8. LowByte(e) = 2 * a + r + 1 /\ HighByte(e) = 2 * a + r + 1 + BLOCK
  BY <1>1, <1>2, <1>5, <1>6, <1>7
<1>9. q < t
  <2>1. q >= t => BLOCK * q >= BLOCK * t
    BY <1>1, <1>4, <1>5
  <2> QED
    BY <1>1, <1>2, <1>4, <1>5, <1>7, <2>1
<1>10. a + BLOCK <= to
  <2>1. BLOCK * q + BLOCK <= BLOCK * t
    BY <1>1, <1>4, <1>5, <1>9
  <2> QED
    BY <1>4, <1>7, <2>1
<1>11. q >= f
  <2>1. q < f => BLOCK * q + BLOCK <= BLOCK * f
    BY <1>1, <1>3, <1>5
  <2> QED
    BY <1>1, <1>2, <1>3, <1>5, <1>7, <2>1
<1>12. a >= from
  <2>1. BLOCK * q >= BLOCK * f
    BY <1>1, <1>3, <1>5, <1>11
  <2> QED
    BY <1>3, <1>7, <2>1
<1>13. /\ LowByte(e) \in 2 * from + 1 .. 2 * to /\ HighByte(e) \in 2 * from + 1 .. 2 * to
  BY <1>1, <1>2, <1>5, <1>8, <1>10, <1>12
<1>14. LowByte(e) - 2 * from = LowByte(e - from) /\ LowByte(e) = LowByte(e - from) + 2 * from
  <2>1. (e - from) - 1 \in Nat /\ q - f \in Nat /\ (e - from) - 1 = BLOCK * (q - f) + r
    <3>1. BLOCK * (q - f) = BLOCK * q - BLOCK * f
      BY <1>1, <1>3, <1>5
    <3>2. BLOCK * (q - f) = a - from
      BY <1>3, <1>7, <3>1
    <3>3. e - 1 = a + r /\ r \in Int
      BY <1>1, <1>5, <1>7
    <3>4. q - f \in Nat
      BY <1>3, <1>5, <1>11
    <3>5. (e - from) - 1 \in Nat /\ (e - from) - 1 = (a - from) + r
      BY <1>2, <3>3
    <3> QED
      BY <3>2, <3>4, <3>5
  <2>2. ((e - from) - 1) \div BLOCK = q - f
    BY <1>1, <1>5, <2>1, DivIs
  <2>3. LowByte(e - from) = (e - from) + BLOCK * (q - f)
    BY <2>2 DEF LowByte
  <2>4. BLOCK * (q - f) = a - from
    BY <1>1, <1>3, <1>5, <1>7
  <2> QED
    BY <1>2, <1>6, <1>7, <2>3, <2>4
<1>15. 2 * BLOCK \in Nat \ {0} /\ (2 * BLOCK) * q = 2 * a /\ 2 * BLOCK * q = 2 * a
  BY <1>1, <1>5, <1>7
<1>16. (LowByte(e) - 1) \div (2 * BLOCK) = q /\ (LowByte(e) - 1) % (2 * BLOCK) = r
  <2>1. LowByte(e) - 1 \in Nat /\ LowByte(e) - 1 = (2 * BLOCK) * q + r /\ r < 2 * BLOCK /\ r \in Nat
    BY <1>1, <1>5, <1>8, <1>15
  <2> QED
    BY <1>5, <1>15, <2>1, DivIs
<1>17. (HighByte(e) - 1) \div (2 * BLOCK) = q /\ (HighByte(e) - 1) % (2 * BLOCK) = r + BLOCK
  <2>1. /\ HighByte(e) - 1 \in Nat /\ HighByte(e) - 1 = (2 * BLOCK) * q + (r + BLOCK)
        /\ r + BLOCK < 2 * BLOCK /\ r + BLOCK \in Nat
    BY <1>1, <1>5, <1>8, <1>15
  <2> QED
    BY <1>5, <1>15, <2>1, DivIs
<1>18. LowByte(e) = 2 * BLOCK * q + r + 1 /\ BLOCK * q + r + 1 = e
  BY <1>1, <1>2, <1>5, <1>7, <1>8, <1>15
<1> QED
  BY <1>5, <1>13, <1>14, <1>16, <1>17, <1>18 DEF q, r

\* A shard of a length that fits has whole blocks of elements.
LEMMA SizesAre ==
  ASSUME NEW s \in Shapes, ShardLenFits(s)
  PROVE  /\ s.bytes = 2 * Elements(s) /\ Between(Elements(s)) /\ Elements(s) >= 1
         /\ Between(0) /\ LaneLen(s) \in Nat /\ LaneLen(s) >= 1
<1>1. BLOCK \in Nat \ {0} /\ s.bytes \in Nat /\ s.bytes > 0 /\ WORK_SIZE16 \in Nat \ {0}
  BY BlocksAssumption, ShapeDims DEF ShardLenFits
<1>2. 2 * BLOCK \in Nat \ {0} /\ s.bytes % (2 * BLOCK) = 0
  BY <1>1 DEF ShardLenFits
<1>3. PICK q \in Nat : s.bytes = (2 * BLOCK) * q
  <2>1. s.bytes = (2 * BLOCK) * (s.bytes \div (2 * BLOCK)) + 0
    BY <1>1, <1>2, ModBounds
  <2>2. s.bytes \div (2 * BLOCK) \in Nat
    BY <1>1, <1>2, DivBounds
  <2> QED
    BY <1>1, <2>1, <2>2
<1>4. PICK a \in Nat : a = BLOCK * q
  BY <1>1
<1>5. s.bytes = 2 * a
  BY <1>1, <1>3, <1>4
<1>6. Elements(s) = a
  BY <1>5 DEF Elements
<1>7. a % BLOCK = 0 /\ 0 % BLOCK = 0
  <2>1. a = BLOCK * q + 0 /\ 0 = BLOCK * 0 + 0 /\ 0 < BLOCK
    BY <1>1, <1>4
  <2> QED
    BY <1>1, <2>1, DivIs
<1>8. a >= 1
  BY <1>1, <1>5
<1> QED
  BY <1>1, <1>5, <1>6, <1>7, <1>8 DEF Between, LaneLen, LessOf

BytesOf(s) == [1 .. s.bytes -> Bytes]

\* What an element is made of.
LEMMA ElementIs ==
  ASSUME NEW n, Between(n), NEW user \in [1 .. 2 * n -> Bytes], NEW e \in 1 .. n
  PROVE  /\ ElementOf(user, e) = user[LowByte(e)] + HalfOrder * user[HighByte(e)]
         /\ ElementOf(user, e) \in Element
         /\ LowByte(e) \in 1 .. 2 * n /\ HighByte(e) \in 1 .. 2 * n
<1>1. Between(0)
  <2>1. BLOCK \in Nat \ {0} /\ 0 = BLOCK * 0 + 0 /\ 0 < BLOCK
    BY BlocksAssumption
  <2> QED
    BY <2>1, DivIs DEF Between
<1>2. LowByte(e) \in 1 .. 2 * n /\ HighByte(e) \in 1 .. 2 * n
  <2>1. e \in 0 + 1 .. n
    OBVIOUS
  <2>2. LowByte(e) \in 2 * 0 + 1 .. 2 * n /\ HighByte(e) \in 2 * 0 + 1 .. 2 * n
    BY <1>1, <2>1, PlacesAre
  <2> QED
    BY <2>2
<1>3. user[LowByte(e)] \in Bytes /\ user[HighByte(e)] \in Bytes
  BY <1>2
<1>4. ElementOf(user, e) = user[LowByte(e)] + HalfOrder * user[HighByte(e)]
  BY DEF ElementOf, LowByte, HighByte
<1> HIDE DEF LowByte, HighByte
<1>5. user[LowByte(e)] + HalfOrder * user[HighByte(e)] \in Element
  BY <1>3, BytesMake
<1> QED
  BY <1>2, <1>4, <1>5

LEMMA ToWorkIs ==
  ASSUME NEW s \in Shapes, ShardLenFits(s), NEW user \in BytesOf(s)
  PROVE  /\ user_bytes_to_work_u16(user) \in ElementsOf(s)
         /\ \A e \in 1 .. Elements(s) : user_bytes_to_work_u16(user)[e] = ElementOf(user, e)
<1> DEFINE n == Elements(s)
<1>1. s.bytes = 2 * n /\ Between(n) /\ n \in Nat
  BY SizesAre DEF Between
<1>2. user \in [1 .. 2 * n -> Bytes]
  BY <1>1 DEF BytesOf
<1>3. Len(user) = 2 * n
  <2>1. 2 * n \in Nat
    BY <1>1
  <2> QED
    BY <1>2, <2>1, IsASequence
<1>4. Len(user) \div 2 = n
  BY <1>1, <1>3
<1>5. ASSUME NEW e \in 1 .. n
      PROVE  LET base == 2 * BLOCK * ((e - 1) \div BLOCK)
                 i == (e - 1) % BLOCK
             IN user[base + i + 1] + HalfOrder * user[base + BLOCK + i + 1] = ElementOf(user, e)
  <2> DEFINE q == (e - 1) \div BLOCK
             r == (e - 1) % BLOCK
  <2>1. Between(0) /\ e \in 0 + 1 .. n
    BY SizesAre
  <2>2. q \in Nat /\ r \in 0 .. BLOCK - 1 /\ LowByte(e) = 2 * BLOCK * q + r + 1
    BY <1>1, <2>1, PlacesAre
  <2> HIDE DEF q, r
  <2>3. 2 * BLOCK * q \in Nat /\ BLOCK \in Nat
    BY <2>2, BlocksAssumption
  <2>4. 2 * BLOCK * q + BLOCK + r + 1 = HighByte(e)
    BY <2>2, <2>3 DEF HighByte
  <2>5. ElementOf(user, e) = user[LowByte(e)] + HalfOrder * user[HighByte(e)]
    BY <1>1, <1>2, ElementIs
  <2>6. user[2 * BLOCK * q + r + 1] + HalfOrder * user[2 * BLOCK * q + BLOCK + r + 1]
          = ElementOf(user, e)
    BY <2>2, <2>4, <2>5
  <2> QED
    BY <2>6 DEF q, r
<1>6. user_bytes_to_work_u16(user) = [e \in 1 .. n |-> ElementOf(user, e)]
  BY <1>4, <1>5 DEF user_bytes_to_work_u16
<1>7. \A e \in 1 .. n : ElementOf(user, e) \in Element
  BY <1>1, <1>2, ElementIs
<1> QED
  BY <1>6, <1>7 DEF ElementsOf

LEMMA FromWorkIs ==
  ASSUME NEW n, Between(n), NEW x \in [1 .. n -> Element]
  PROVE  /\ work_u16_to_user_bytes(x) \in [1 .. 2 * n -> Bytes]
         /\ \A e \in 1 .. n : ElementOf(work_u16_to_user_bytes(x), e) = x[e]
<1> DEFINE user == work_u16_to_user_bytes(x)
           Block(q) == (q - 1) \div (2 * BLOCK)
           Place(q) == (q - 1) % (2 * BLOCK)
           Source(q) == x[BLOCK * Block(q) + (Place(q) % BLOCK) + 1]
           Half(q) == IF Place(q) < BLOCK THEN Source(q) % HalfOrder ELSE Source(q) \div HalfOrder
<1>1. n \in Nat /\ BLOCK \in Nat \ {0}
  BY BlocksAssumption DEF Between
<1>2. Len(x) = n
  BY <1>1, IsASequence
<1>3. user = [q \in 1 .. 2 * n |-> Half(q)]
  BY <1>2 DEF work_u16_to_user_bytes
<1> HIDE DEF user
<1>4. PICK t \in Nat : n = BLOCK * t
  <2>1. n = BLOCK * (n \div BLOCK) + (n % BLOCK) /\ n \div BLOCK \in Nat /\ n % BLOCK = 0
    BY <1>1, ModBounds, DivBounds DEF Between
  <2>2. PICK u \in Nat : u = n \div BLOCK
    BY <2>1
  <2>3. n = BLOCK * u
    BY <1>1, <2>1, <2>2
  <2> QED
    BY <2>3
<1>5. ASSUME NEW b \in Nat, b < t, NEW r \in 0 .. BLOCK - 1
      PROVE  BLOCK * b + r + 1 \in 1 .. n
  <2>1. BLOCK * b + BLOCK <= BLOCK * t
    BY <1>1, <1>4, <1>5
  <2>2. BLOCK * b \in Nat
    BY <1>1
  <2> QED
    BY <1>1, <1>4, <1>5, <2>1, <2>2
<1>6. ASSUME NEW q \in 1 .. 2 * n
      PROVE  Half(q) \in Bytes
  <2>1. 2 * BLOCK \in Nat \ {0} /\ q - 1 \in Nat /\ q - 1 < 2 * n
    BY <1>1
  <2>2. PICK b \in Nat : b = Block(q)
    BY <2>1, DivBounds
  <2>3. PICK p \in 0 .. 2 * BLOCK - 1 : p = Place(q)
    BY <2>1, ModBounds
  <2>4. (2 * BLOCK) * b <= q - 1
    BY <2>1, <2>2, DivBounds
  <2>5. b < t
    <3>1. b >= t => BLOCK * b >= BLOCK * t
      BY <1>1, <1>4
    <3>2. PICK c \in Nat : c = BLOCK * b
      BY <1>1
    <3>3. (2 * BLOCK) * b = 2 * c
      BY <1>1, <3>2
    <3> QED
      BY <1>1, <1>4, <2>1, <2>4, <3>1, <3>2, <3>3
  <2>6. p % BLOCK \in 0 .. BLOCK - 1
    BY <1>1, ModBounds
  <2>7. BLOCK * b + (p % BLOCK) + 1 \in 1 .. n
    BY <1>5, <2>5, <2>6
  <2>8. Source(q) \in Element
    BY <2>2, <2>3, <2>7
  <2> HIDE DEF Source, Place
  <2> QED
    BY <2>8, HalvesAre
<1>7. user \in [1 .. 2 * n -> Bytes]
  BY <1>3, <1>6
<1>8. ASSUME NEW e \in 1 .. n
      PROVE  user[LowByte(e)] = x[e] % HalfOrder /\ user[HighByte(e)] = x[e] \div HalfOrder
  <2> DEFINE q == (e - 1) \div BLOCK
             r == (e - 1) % BLOCK
  <2>1. Between(0) /\ e \in 0 + 1 .. n
    <3>1. 0 = BLOCK * 0 + 0 /\ 0 < BLOCK
      BY <1>1
    <3> QED
      BY <1>1, <3>1, DivIs DEF Between
  <2>2. /\ q \in Nat /\ r \in 0 .. BLOCK - 1 /\ BLOCK * q + r + 1 = e
        /\ Block(LowByte(e)) = q /\ Place(LowByte(e)) = r
        /\ Block(HighByte(e)) = q /\ Place(HighByte(e)) = r + BLOCK
    BY <2>1, PlacesAre
  <2>3. LowByte(e) \in 1 .. 2 * n /\ HighByte(e) \in 1 .. 2 * n
    BY <1>7, ElementIs
  <2> HIDE DEF q, r, Block, Place
  <2>4. r % BLOCK = r /\ (r + BLOCK) % BLOCK = r
    <3>1. r = BLOCK * 0 + r /\ r + BLOCK = BLOCK * 1 + r /\ r < BLOCK /\ r \in Nat /\ r + BLOCK \in Nat
      BY <1>1, <2>2
    <3> QED
      BY <1>1, <3>1, DivIs
  <2>5. Source(LowByte(e)) = x[e] /\ Source(HighByte(e)) = x[e]
    BY <2>2, <2>4
  <2>6. Place(LowByte(e)) < BLOCK /\ ~(Place(HighByte(e)) < BLOCK)
    BY <1>1, <2>2
  <2> HIDE DEF Source
  <2> QED
    BY <1>3, <2>3, <2>5, <2>6
<1>9. ASSUME NEW e \in 1 .. n
      PROVE  ElementOf(user, e) = x[e]
  <2>1. ElementOf(user, e) = user[LowByte(e)] + HalfOrder * user[HighByte(e)]
    BY <1>7, ElementIs
  <2>2. x[e] \in Element
    OBVIOUS
  <2>3. (x[e] % HalfOrder) + HalfOrder * (x[e] \div HalfOrder) = x[e]
    BY <2>2, HalvesAre
  <2> QED
    BY <1>8, <2>1, <2>3
<1> QED
  BY <1>7, <1>9 DEF user

LEMMA MultipleIs ==
  ASSUME NEW a \in Nat, NEW b \in Nat \ {0}
  PROVE  a % b = 0 <=> \E q \in Nat : a = b * q
<1>1. ASSUME a % b = 0
      PROVE  \E q \in Nat : a = b * q
  <2>1. PICK q \in Nat : q = a \div b
    BY DivBounds
  <2>2. a = b * q + (a % b)
    BY <2>1, ModBounds
  <2>3. b * q \in Nat
    OBVIOUS
  <2>4. a = b * q
    BY <1>1, <2>2, <2>3
  <2> QED
    BY <2>4
<1>2. ASSUME NEW q \in Nat, a = b * q
      PROVE  a % b = 0
  <2>1. a = b * q + 0 /\ 0 < b
    BY <1>2
  <2> QED
    BY <2>1, DivIs
<1> QED
  BY <1>1, <1>2

\* Where a chunk begins.
IsStart(s, from) == from \in Nat /\ from < Elements(s) /\ from % WORK_SIZE16 = 0

LEMMA ChunkBounds ==
  ASSUME NEW s \in Shapes, ShardLenFits(s), NEW from, IsStart(s, from)
  PROVE  /\ IsChunk(s, from, ChunkEnd(s, from))
         /\ Between(from) /\ Between(ChunkEnd(s, from)) /\ Between(ChunkEnd(s, from) - from)
<1> DEFINE n == Elements(s)
           to == ChunkEnd(s, from)
<1>1. BLOCK \in Nat \ {0} /\ WORK_SIZE16 \in Nat \ {0} /\ WORK_SIZE16 % BLOCK = 0
  BY BlocksAssumption
<1>2. n \in Nat /\ Between(n) /\ LaneLen(s) \in Nat /\ from \in Nat /\ from < n
  BY SizesAre DEF Between, IsStart
<1>3. PICK w \in Nat : WORK_SIZE16 = BLOCK * w
  BY <1>1, MultipleIs
<1>4. PICK f \in Nat : from = WORK_SIZE16 * f
  BY <1>1, <1>2, MultipleIs DEF IsStart
<1>5. PICK t \in Nat : n = BLOCK * t
  BY <1>1, <1>2, MultipleIs DEF Between
<1>6. PICK b \in Nat : b = w * f
  OBVIOUS
<1>7. from = BLOCK * b
  <2>1. (BLOCK * w) * f = BLOCK * (w * f)
    BY <1>1
  <2> QED
    BY <1>3, <1>4, <1>6, <2>1
<1>8. from + WORK_SIZE16 = BLOCK * (b + w)
  <2>1. BLOCK * (b + w) = BLOCK * b + BLOCK * w
    BY <1>1
  <2> QED
    BY <1>3, <1>7, <2>1
<1>9. to = IF from + WORK_SIZE16 <= n THEN from + WORK_SIZE16 ELSE n
  BY DEF ChunkEnd, LessOf
<1>10. LaneLen(s) = IF n <= WORK_SIZE16 THEN n ELSE WORK_SIZE16
  BY DEF LaneLen, LessOf
<1> HIDE DEF n, to
<1>11. to \in Nat /\ from < to /\ to <= n /\ to - from <= LaneLen(s)
  BY <1>1, <1>2, <1>9, <1>10
<1>12. PICK c \in Nat : to = BLOCK * c
  <2>1. b + w \in Nat
    OBVIOUS
  <2> QED
    BY <1>5, <1>8, <1>9, <2>1
<1>13. c - b \in Nat /\ to - from = BLOCK * (c - b)
  <2>1. c < b => BLOCK * c <= BLOCK * b
    BY <1>1
  <2>2. BLOCK * (c - b) = BLOCK * c - BLOCK * b
    BY <1>1
  <2>3. c - b \in Nat
    BY <1>7, <1>11, <1>12, <2>1
  <2> QED
    BY <1>7, <1>12, <2>2, <2>3
<1>14. to - from \in Nat
  BY <1>2, <1>11
<1>15. Between(from) /\ Between(to) /\ Between(to - from)
  BY <1>1, <1>2, <1>7, <1>11, <1>12, <1>13, <1>14, MultipleIs DEF Between
<1> QED
  BY <1>2, <1>11, <1>15 DEF IsChunk, n, to

\* The chunk of an element.
StartOf(e) == (e - 1) - ((e - 1) % WORK_SIZE16)

LEMMA ChunkOfElement ==
  ASSUME NEW s \in Shapes, ShardLenFits(s), NEW from, IsStart(s, from), NEW e \in 1 .. Elements(s)
  PROVE  /\ e \in from + 1 .. ChunkEnd(s, from) <=> StartOf(e) = from
         /\ IsStart(s, StartOf(e))
<1> DEFINE n == Elements(s)
           to == ChunkEnd(s, from)
<1>1. WORK_SIZE16 \in Nat \ {0} /\ n \in Nat /\ from \in Nat /\ from < n
  BY SizesAre, BlocksAssumption DEF Between, IsStart
<1>2. to = IF from + WORK_SIZE16 <= n THEN from + WORK_SIZE16 ELSE n
  BY DEF ChunkEnd, LessOf
<1>3. e - 1 \in Nat /\ e \in Nat /\ e <= n
  BY <1>1
<1> HIDE DEF to, n
<1>4. PICK q \in Nat, r \in 0 .. WORK_SIZE16 - 1 : q = (e - 1) \div WORK_SIZE16 /\ r = (e - 1) % WORK_SIZE16
  BY <1>1, <1>3, DivBounds, ModBounds
<1>5. e - 1 = WORK_SIZE16 * q + r
  BY <1>1, <1>3, <1>4, ModBounds
<1>6. PICK k \in Nat : k = WORK_SIZE16 * q
  BY <1>1
<1>7. StartOf(e) = k
  BY <1>3, <1>4, <1>5, <1>6 DEF StartOf
<1>8. PICK f \in Nat : from = WORK_SIZE16 * f
  BY <1>1, MultipleIs DEF IsStart
<1>9. ASSUME e \in from + 1 .. to
      PROVE  k = from
  <2>1. from <= e - 1 /\ e - 1 < from + WORK_SIZE16
    BY <1>1, <1>2, <1>3, <1>9
  <2>2. q < f => WORK_SIZE16 * q + WORK_SIZE16 <= WORK_SIZE16 * f
    BY <1>1
  <2>3. f < q => WORK_SIZE16 * f + WORK_SIZE16 <= WORK_SIZE16 * q
    BY <1>1
  <2>4. k + r >= from /\ k + r < from + WORK_SIZE16 /\ r < WORK_SIZE16 /\ r >= 0
    BY <1>1, <1>4, <1>5, <1>6, <2>1
  <2>5. q = f
    BY <1>1, <1>6, <1>8, <2>2, <2>3, <2>4
  <2> QED
    BY <1>6, <1>8, <2>5
<1>10. ASSUME k = from
       PROVE  e \in from + 1 .. to
  BY <1>1, <1>2, <1>3, <1>4, <1>5, <1>6, <1>10
<1>11. IsStart(s, StartOf(e))
  <2>1. k % WORK_SIZE16 = 0
    BY <1>1, <1>6, MultipleIs
  <2>2. k < n
    BY <1>1, <1>3, <1>4, <1>5, <1>6
  <2> QED
    BY <1>7, <2>1, <2>2 DEF IsStart, n
<1> QED
  BY <1>7, <1>9, <1>10, <1>11 DEF to

\* Two sequences of bytes, one after the other.
JoinedIs(x, y, z) ==
  /\ z \in [1 .. Len(x) + Len(y) -> Bytes]
  /\ \A q \in 1 .. Len(x) : z[q] = x[q]
  /\ \A q \in Len(x) + 1 .. Len(x) + Len(y) : z[q] = y[q - Len(x)]

LEMMA Joined ==
  ASSUME NEW x \in Seq(Bytes), NEW y \in Seq(Bytes)
  PROVE  JoinedIs(x, y, x \o y)
<1>1. Len(x) \in Nat /\ Len(y) \in Nat
  BY LenProperties
<1> DEFINE z == x \o y
<1>2. z \in Seq(Bytes) /\ Len(z) = Len(x) + Len(y)
      /\ \A q \in 1 .. Len(x) + Len(y) : z[q] = IF q <= Len(x) THEN x[q] ELSE y[q - Len(x)]
  BY ConcatProperties
<1> HIDE DEF z
<1>3. z \in [1 .. Len(x) + Len(y) -> Bytes]
  BY <1>2, LenProperties
<1>4. \A q \in 1 .. Len(x) : z[q] = x[q]
  BY <1>1, <1>2
<1>5. \A q \in Len(x) + 1 .. Len(x) + Len(y) : z[q] = y[q - Len(x)]
  BY <1>1, <1>2
<1> QED
  BY <1>3, <1>4, <1>5 DEF z, JoinedIs

LEMMA Cut ==
  ASSUME NEW T, NEW n \in Nat, NEW x \in [1 .. n -> T], NEW i \in Nat, NEW j \in Nat,
         i <= j, j <= n
  PROVE  /\ SubSeq(x, i + 1, j) \in [1 .. j - i -> T]
         /\ \A q \in 1 .. j - i : SubSeq(x, i + 1, j)[q] = x[i + q]
<1>1. \A c \in i + 1 .. j : x[c] \in T
  OBVIOUS
<1> DEFINE y == SubSeq(x, i + 1, j)
<1>2. /\ y \in Seq(T) /\ Len(y) = IF i + 1 <= j THEN j - (i + 1) + 1 ELSE 0
      /\ \A q \in 1 .. j - (i + 1) + 1 : y[q] = x[(i + 1) + q - 1]
  <2>1. i + 1 \in Int /\ j \in Int
    OBVIOUS
  <2> QED
    BY <1>1, <2>1, SubSeqProperties
<1> HIDE DEF y
<1>3. Len(y) = j - i
  BY <1>2
<1>4. y \in [1 .. j - i -> T]
  BY <1>2, <1>3, LenProperties
<1>5. ASSUME NEW q \in 1 .. j - i
      PROVE  y[q] = x[i + q]
  <2>1. q \in 1 .. j - (i + 1) + 1 /\ (i + 1) + q - 1 = i + q
    OBVIOUS
  <2> QED
    BY <1>2, <2>1
<1> QED
  BY <1>4, <1>5 DEF y

\* Bytes of a chunk between what is before and after it.
Written(s, from, to, out, bytes) ==
  SubSeq(out, 1, 2 * from) \o bytes \o SubSeq(out, 2 * to + 1, s.bytes)

LEMMA WrittenIs ==
  ASSUME NEW s \in Shapes, ShardLenFits(s), NEW from, Between(from), NEW to, Between(to),
         from <= to, to <= Elements(s), NEW out \in BytesOf(s),
         NEW bytes \in [1 .. 2 * (to - from) -> Bytes]
  PROVE  /\ Written(s, from, to, out, bytes) \in BytesOf(s)
         /\ \A e \in from + 1 .. to :
              ElementOf(Written(s, from, to, out, bytes), e) = ElementOf(bytes, e - from)
         /\ \A e \in 1 .. Elements(s) : e \notin from + 1 .. to =>
              ElementOf(Written(s, from, to, out, bytes), e) = ElementOf(out, e)
<1> DEFINE y == Written(s, from, to, out, bytes)
           n == Elements(s)
           size == s.bytes
<1>1. from \in Nat /\ to \in Nat /\ n \in Nat /\ size = 2 * n /\ Between(n) /\ Between(0) /\ to <= n
  BY SizesAre DEF Between
<1>2. out \in [1 .. size -> Bytes] /\ size \in Nat
  BY <1>1 DEF BytesOf
<1>3. PICK i \in Nat : i = 2 * from
  BY <1>1
<1>4. PICK h \in Nat : h = 2 * to
  BY <1>1
<1>5. i <= h /\ h <= size /\ 2 * (to - from) = h - i
  BY <1>1, <1>2, <1>3, <1>4
<1> DEFINE a0 == SubSeq(out, 0 + 1, i)
           c0 == SubSeq(out, h + 1, size)
<1>6. y = (a0 \o bytes) \o c0
  BY <1>3, <1>4 DEF Written
<1> HIDE DEF size, y
<1>7. a0 \in [1 .. i -> Bytes] /\ \A q \in 1 .. i : a0[q] = out[q]
  <2>1. PICK o \in Nat : o = 0
    OBVIOUS
  <2>2. o <= i /\ i <= size
    BY <1>2, <1>5, <2>1
  <2>3. a0 = SubSeq(out, o + 1, i)
    BY <2>1
  <2> HIDE DEF a0
  <2>4. a0 \in [1 .. i - o -> Bytes] /\ \A q \in 1 .. i - o : a0[q] = out[o + q]
    BY <1>2, <2>2, <2>3, Cut
  <2>5. i - o = i /\ \A q \in 1 .. i : o + q = q
    BY <2>1
  <2> QED
    BY <2>4, <2>5
<1>8. c0 \in [1 .. size - h -> Bytes] /\ \A q \in 1 .. size - h : c0[q] = out[h + q]
  <2>1. size <= size
    BY <1>2
  <2> HIDE DEF c0
  <2> QED
    BY <1>2, <1>5, <2>1, Cut DEF c0
<1> HIDE DEF a0, c0
<1>9. PICK j \in Nat : j = h - i
  BY <1>5
<1>10. PICK k \in Nat : k = size - h
  BY <1>2, <1>5
<1> DEFINE b == a0 \o bytes
<1>11. /\ b \in [1 .. i + j -> Bytes]
       /\ \A q \in 1 .. i : b[q] = a0[q]
       /\ \A q \in i + 1 .. i + j : b[q] = bytes[q - i]
  <2>1. bytes \in [1 .. j -> Bytes]
    BY <1>5, <1>9
  <2> HIDE DEF b
  <2>2. a0 \in Seq(Bytes) /\ Len(a0) = i /\ bytes \in Seq(Bytes) /\ Len(bytes) = j
    BY <1>7, <2>1, IsASequence
  <2>3. JoinedIs(a0, bytes, b)
    BY <2>2, Joined DEF b
  <2> QED
    BY <2>2, <2>3 DEF JoinedIs
<1> HIDE DEF b
<1>12. i + j = h /\ h + k = size
  BY <1>2, <1>9, <1>10
<1>13. /\ y \in [1 .. size -> Bytes]
       /\ \A q \in 1 .. h : y[q] = b[q]
       /\ \A q \in h + 1 .. size : y[q] = c0[q - h]
  <2>1. b \in [1 .. h -> Bytes] /\ c0 \in [1 .. k -> Bytes] /\ y = b \o c0
    BY <1>6, <1>8, <1>10, <1>11, <1>12 DEF b
  <2>2. b \in Seq(Bytes) /\ Len(b) = h /\ c0 \in Seq(Bytes) /\ Len(c0) = k
    BY <2>1, IsASequence
  <2>3. JoinedIs(b, c0, y)
    BY <2>1, <2>2, Joined
  <2> QED
    BY <1>12, <2>2, <2>3 DEF JoinedIs
<1>14. \A q \in 1 .. i : y[q] = out[q]
  <2>1. \A q \in 1 .. i : q \in 1 .. h
    BY <1>5
  <2> QED
    BY <1>7, <1>11, <1>13, <2>1
<1>15. /\ \A q \in i + 1 .. h : y[q] = bytes[q - i]
       /\ \A q \in h + 1 .. size : y[q] = out[q]
  <2>1. \A q \in i + 1 .. h : q \in 1 .. h
    BY <1>5
  <2>2. \A q \in i + 1 .. h : y[q] = bytes[q - i]
    BY <1>11, <1>12, <1>13, <2>1
  <2>3. \A q \in h + 1 .. size : q - h \in 1 .. size - h /\ h + (q - h) = q
    BY <1>2
  <2> QED
    BY <1>8, <1>13, <2>2, <2>3
<1>16. ASSUME NEW e \in from + 1 .. to
       PROVE  ElementOf(y, e) = ElementOf(bytes, e - from)
  <2>1. /\ LowByte(e) \in 2 * from + 1 .. 2 * to /\ HighByte(e) \in 2 * from + 1 .. 2 * to
        /\ LowByte(e) - 2 * from = LowByte(e - from)
    BY <1>16, PlacesAre
  <2>2. HighByte(e) - 2 * from = HighByte(e - from)
    <3>1. LowByte(e) \in Int /\ BLOCK \in Int
      BY <2>1, BlocksAssumption
    <3> QED
      BY <1>1, <2>1, <3>1 DEF HighByte
  <2>3. /\ y[LowByte(e)] = bytes[LowByte(e - from)] /\ y[HighByte(e)] = bytes[HighByte(e - from)]
    BY <1>3, <1>4, <1>15, <2>1, <2>2
  <2>4. ElementOf(y, e) = y[LowByte(e)] + HalfOrder * y[HighByte(e)]
    BY DEF ElementOf, LowByte, HighByte
  <2>5. ElementOf(bytes, e - from) = bytes[LowByte(e - from)] + HalfOrder * bytes[HighByte(e - from)]
    BY DEF ElementOf, LowByte, HighByte
  <2> QED
    BY <2>3, <2>4, <2>5
<1>17. ASSUME NEW e \in 1 .. n, e \notin from + 1 .. to
       PROVE  ElementOf(y, e) = ElementOf(out, e)
  <2>1. \/ LowByte(e) \in 1 .. 2 * from /\ HighByte(e) \in 1 .. 2 * from
        \/ LowByte(e) \in 2 * to + 1 .. size /\ HighByte(e) \in 2 * to + 1 .. size
    <3>1. CASE e <= from
      <4>1. e \in 0 + 1 .. from
        BY <3>1
      <4>2. LowByte(e) \in 2 * 0 + 1 .. 2 * from /\ HighByte(e) \in 2 * 0 + 1 .. 2 * from
        BY <1>1, <4>1, PlacesAre
      <4> QED
        BY <4>2
    <3>2. CASE e > to
      <4>1. e \in to + 1 .. n
        BY <1>1, <3>2
      <4>2. LowByte(e) \in 2 * to + 1 .. 2 * n /\ HighByte(e) \in 2 * to + 1 .. 2 * n
        BY <1>1, <4>1, PlacesAre
      <4> QED
        BY <1>1, <4>2
    <3> QED
      BY <1>1, <1>17, <3>1, <3>2
  <2>2. y[LowByte(e)] = out[LowByte(e)] /\ y[HighByte(e)] = out[HighByte(e)]
    BY <1>3, <1>4, <1>14, <1>15, <2>1
  <2>3. /\ ElementOf(y, e) = y[LowByte(e)] + HalfOrder * y[HighByte(e)]
        /\ ElementOf(out, e) = out[LowByte(e)] + HalfOrder * out[HighByte(e)]
    BY DEF ElementOf, LowByte, HighByte
  <2> QED
    BY <2>2, <2>3
<1> QED
  BY <1>13, <1>16, <1>17 DEF y, n, BytesOf, size

LEMMA AppendedIs ==
  ASSUME NEW from, Between(from), NEW to, Between(to), from <= to,
         NEW x \in [1 .. 2 * from -> Bytes], NEW bytes \in [1 .. 2 * (to - from) -> Bytes]
  PROVE  /\ x \o bytes \in [1 .. 2 * to -> Bytes]
         /\ \A e \in from + 1 .. to : ElementOf(x \o bytes, e) = ElementOf(bytes, e - from)
         /\ \A e \in 1 .. from : ElementOf(x \o bytes, e) = ElementOf(x, e)
<1> DEFINE y == x \o bytes
<1>1. from \in Nat /\ to \in Nat
  BY DEF Between
<1>2. Between(0)
  <2>1. BLOCK \in Nat \ {0} /\ 0 = BLOCK * 0 + 0 /\ 0 < BLOCK
    BY BlocksAssumption
  <2> QED
    BY <2>1, DivIs DEF Between
<1>3. PICK i \in Nat : i = 2 * from
  BY <1>1
<1>4. PICK h \in Nat : h = 2 * to
  BY <1>1
<1>5. PICK j \in Nat : j = h - i /\ 2 * (to - from) = j
  BY <1>1, <1>3, <1>4
<1>6. x \in Seq(Bytes) /\ Len(x) = i /\ bytes \in Seq(Bytes) /\ Len(bytes) = j
  BY <1>3, <1>5, IsASequence
<1>7. JoinedIs(x, bytes, y)
  BY <1>6, Joined
<1> HIDE DEF y
<1>8. /\ y \in [1 .. h -> Bytes]
      /\ \A q \in 1 .. i : y[q] = x[q]
      /\ \A q \in i + 1 .. h : y[q] = bytes[q - i]
  <2>1. i + j = h
    BY <1>5
  <2> QED
    BY <1>6, <1>7, <2>1 DEF JoinedIs
<1>9. ASSUME NEW e \in from + 1 .. to
      PROVE  ElementOf(y, e) = ElementOf(bytes, e - from)
  <2>1. /\ LowByte(e) \in 2 * from + 1 .. 2 * to /\ HighByte(e) \in 2 * from + 1 .. 2 * to
        /\ LowByte(e) - 2 * from = LowByte(e - from)
    BY <1>9, PlacesAre
  <2>2. HighByte(e) - 2 * from = HighByte(e - from)
    <3>1. LowByte(e) \in Int /\ BLOCK \in Int
      BY <2>1, BlocksAssumption
    <3> QED
      BY <1>1, <2>1, <3>1 DEF HighByte
  <2>3. /\ y[LowByte(e)] = bytes[LowByte(e - from)] /\ y[HighByte(e)] = bytes[HighByte(e - from)]
    BY <1>3, <1>4, <1>8, <2>1, <2>2
  <2>4. ElementOf(y, e) = y[LowByte(e)] + HalfOrder * y[HighByte(e)]
    BY DEF ElementOf, LowByte, HighByte
  <2>5. ElementOf(bytes, e - from) = bytes[LowByte(e - from)] + HalfOrder * bytes[HighByte(e - from)]
    BY DEF ElementOf, LowByte, HighByte
  <2> QED
    BY <2>3, <2>4, <2>5
<1>10. ASSUME NEW e \in 1 .. from
       PROVE  ElementOf(y, e) = ElementOf(x, e)
  <2>1. e \in 0 + 1 .. from
    OBVIOUS
  <2>2. LowByte(e) \in 2 * 0 + 1 .. 2 * from /\ HighByte(e) \in 2 * 0 + 1 .. 2 * from
    BY <1>2, <2>1, PlacesAre
  <2>3. y[LowByte(e)] = x[LowByte(e)] /\ y[HighByte(e)] = x[HighByte(e)]
    BY <1>3, <1>8, <2>2
  <2>4. /\ ElementOf(y, e) = y[LowByte(e)] + HalfOrder * y[HighByte(e)]
        /\ ElementOf(x, e) = x[LowByte(e)] + HalfOrder * x[HighByte(e)]
    BY DEF ElementOf, LowByte, HighByte
  <2> QED
    BY <2>3, <2>4
<1> QED
  BY <1>4, <1>8, <1>9, <1>10 DEF y

----------------------------------------------------------------------------
(* A whole encoding.                                                          *)

ChunkStart(k) == (k - 1) * WORK_SIZE16
Done(s, k)    == LessOf(k * WORK_SIZE16, Elements(s))

\* The chunks follow each other, from the first element to the last.
LEMMA ChunksAre ==
  ASSUME NEW s \in Shapes, ShardLenFits(s)
  PROVE  /\ Chunks(s) \in Nat /\ Chunks(s) >= 1
         /\ Done(s, 0) = 0 /\ Done(s, Chunks(s)) = Elements(s)
         /\ \A k \in 1 .. Chunks(s) :
              /\ IsStart(s, ChunkStart(k)) /\ ChunkEnd(s, ChunkStart(k)) = Done(s, k)
              /\ ChunkStart(k) = Done(s, k - 1)
         /\ \A from : IsStart(s, from) => \E k \in 1 .. Chunks(s) : from = ChunkStart(k)
<1>1. PICK w \in Nat : w = WORK_SIZE16 /\ w >= 1
  BY BlocksAssumption
<1>2. PICK n \in Nat : n = Elements(s) /\ n >= 1
  BY SizesAre DEF Between
<1>3. PICK c \in Nat : c = Chunks(s) /\ w * c <= n + w - 1 /\ n + w - 1 < w * c + w
  <2>1. n + w - 1 \in Nat /\ w \in Nat \ {0}
    BY <1>1, <1>2
  <2>2. /\ (n + w - 1) \div w \in Nat /\ w * ((n + w - 1) \div w) <= n + w - 1
        /\ n + w - 1 < w * ((n + w - 1) \div w) + w
    BY <2>1, DivBounds
  <2>3. Chunks(s) = (n + w - 1) \div w
    BY <1>1, <1>2 DEF Chunks
  <2> QED
    BY <2>2, <2>3
<1>4. c >= 1
  <2>1. c = 0 => w * c = 0
    BY <1>1
  <2> QED
    BY <1>1, <1>2, <1>3, <2>1
<1>5. Done(s, 0) = 0
  BY <1>1, <1>2 DEF Done, LessOf
<1>6. Done(s, c) = n
  <2>1. c * w = w * c /\ w * c \in Nat
    BY <1>1, <1>3
  <2> QED
    BY <1>1, <1>2, <1>3, <2>1 DEF Done, LessOf
<1>7. ASSUME NEW k \in 1 .. c
      PROVE  /\ IsStart(s, ChunkStart(k)) /\ ChunkEnd(s, ChunkStart(k)) = Done(s, k)
             /\ ChunkStart(k) = Done(s, k - 1)
  <2>1. PICK j \in Nat : j = k - 1 /\ j + 1 <= c
    BY <1>3
  <2>2. PICK a \in Nat : a = w * j
    OBVIOUS
  <2>3. ChunkStart(k) = a /\ k * w = a + w /\ (k - 1) * w = a
    <3>1. k = j + 1 /\ (j + 1) * w = w * j + w /\ j * w = w * j
      BY <2>1
    <3> QED
      BY <1>1, <2>1, <2>2, <3>1 DEF ChunkStart
  <2>4. a + w <= w * c
    <3>1. w * (j + 1) <= w * c /\ w * (j + 1) = w * j + w
      BY <1>3, <2>1
    <3> QED
      BY <2>2, <3>1
  <2>5. a < n
    <3>1. w * c \in Nat
      BY <1>3
    <3> QED
      BY <1>3, <2>4, <3>1
  <2>6. a % w = 0
    BY <1>1, <2>2, MultipleIs
  <2>7. IsStart(s, ChunkStart(k))
    BY <1>1, <1>2, <2>3, <2>5, <2>6 DEF IsStart
  <2>8. ChunkEnd(s, ChunkStart(k)) = Done(s, k)
    BY <1>1, <2>3 DEF ChunkEnd, Done
  <2>9. Done(s, k - 1) = a
    BY <1>1, <1>2, <2>3, <2>5 DEF Done, LessOf
  <2> QED
    BY <2>3, <2>7, <2>8, <2>9
<1>8. ASSUME NEW from, IsStart(s, from)
      PROVE  \E k \in 1 .. c : from = ChunkStart(k)
  <2>1. from \in Nat /\ from < n /\ from % w = 0
    BY <1>1, <1>2, <1>8 DEF IsStart
  <2>2. PICK j \in Nat : from = w * j
    <3>1. from \in Nat /\ w \in Nat \ {0}
      BY <1>1, <2>1
    <3>2. \E q \in Nat : from = w * q
      BY <2>1, <3>1, MultipleIs
    <3> QED
      BY <3>2
  <2>3. j >= c => w * j >= w * c
    BY <1>3
  <2>4. j < c
    <3>1. w * c \in Nat
      BY <1>3
    <3> QED
      BY <1>1, <1>3, <2>1, <2>2, <2>3, <3>1
  <2>5. j + 1 \in 1 .. c /\ (j + 1) - 1 = j /\ j * w = w * j
    BY <2>4
  <2>6. ChunkStart(j + 1) = from
    BY <1>1, <2>2, <2>5 DEF ChunkStart
  <2> QED
    BY <2>5, <2>6
<1> QED
  BY <1>2, <1>3, <1>4, <1>5, <1>6, <1>7, <1>8

\* The k-th chunk of an encoding of the data shards data.
Encoding(s, data, k) ==
  [s |-> s, data |-> data, from |-> ChunkStart(k), to |-> ChunkEnd(s, ChunkStart(k))]
SizeOf(s, k) == ChunkEnd(s, ChunkStart(k)) - ChunkStart(k)

\* The dimensions of a thread's work area.
WorkDims(s, size) == [n |-> 2 * M(s), len |-> LaneLen(s), size |-> size]

\* One chunk more, and all of them.
WithChunk(s, parity, v, k) ==
  [area   |-> v,
   parity |-> [r \in Lanes(s.p) |->
                 parity[r] \o work_u16_to_user_bytes(SubSeq(v[r], 1, SizeOf(s, k)))]]
ChunkStep(s, data, st, k) ==
  WithChunk(s, st.parity,
            Splice(st.area, EncodedOf(Encoding(s, data, k), View(st.area, SizeOf(s, k)))), k)
AllChunks(s, data, start) ==
  CHOOSE chunk : chunk = [k \in 0 .. Chunks(s) |->
                            IF k = 0 THEN start ELSE ChunkStep(s, data, chunk[k - 1], k)]

DataOf(s, data_bytes) == [i \in Lanes(s.d) |-> user_bytes_to_work_u16(data_bytes[i])]
Cleared(s, area) ==
  [area |-> ZeroLanes(area, DOMAIN area), parity |-> [r \in Lanes(s.p) |-> <<>>]]

LEMMA EncodeIsAllChunks ==
  ASSUME NEW s, NEW data_bytes, NEW area
  PROVE  encode_with_tables16(s, data_bytes, area)
           = AllChunks(s, DataOf(s, data_bytes), Cleared(s, area))[Chunks(s)]
BY DEF encode_with_tables16, AllChunks, DataOf, Cleared, ChunkStep, WithChunk, EncodedOf, Encoding,
       SizeOf, ChunkStart

LEMMA EncodingIs ==
  ASSUME NEW s \in Shapes, Encodable(s), NEW data \in [Lanes(s.d) -> ElementsOf(s)],
         NEW k \in 1 .. Chunks(s)
  PROVE  /\ IsEncoding(Encoding(s, data, k))
         /\ IsDims(WorkDims(s, SizeOf(s, k))) /\ SizeOf(s, k) \in Nat /\ SizeOf(s, k) >= 1
         /\ HeadsOf(WorkDims(s, SizeOf(s, k))) = AreasOf(WorkOf(Encoding(s, data, k)))
         /\ AreasOf(WorkDims(s, SizeOf(s, k))) = WorkAreas(s)
         /\ Between(SizeOf(s, k))
<1>1. ShardLenFits(s)
  BY DEF Encodable
<1>2. IsStart(s, ChunkStart(k))
  BY <1>1, ChunksAre
<1>3. IsChunk(s, ChunkStart(k), ChunkEnd(s, ChunkStart(k))) /\ Between(SizeOf(s, k))
  BY <1>1, <1>2, ChunkBounds DEF SizeOf
<1>4. IsEncoding(Encoding(s, data, k))
  BY <1>3 DEF IsEncoding, Encoding
<1> QED
  BY <1>3, <1>4 DEF IsChunk, IsDims, WorkDims, SizeOf, HeadsOf, AreasOf, WorkOf, Encoding, WorkAreas,
                    LanesOf

\* The same chunk on a fresh work area.
FreshOf(s, data, k) ==
  EncodedOf(Encoding(s, data, k), ZeroWork(2 * M(s), SizeOf(s, k)))
ParityBytes(s, data, k, r) == work_u16_to_user_bytes(FreshOf(s, data, k)[r])

\* Whatever is in the work area, the chunk adds the bytes of a fresh one.
LEMMA ChunkStepIs ==
  ASSUME NEW s \in Shapes, Encodable(s), NEW data \in [Lanes(s.d) -> ElementsOf(s)],
         NEW k \in 1 .. Chunks(s), NEW st, st.area \in WorkAreas(s)
  PROVE  /\ ChunkStep(s, data, st, k).area \in WorkAreas(s)
         /\ ChunkStep(s, data, st, k).parity
              = [r \in Lanes(s.p) |-> st.parity[r] \o ParityBytes(s, data, k, r)]
         /\ \A r \in Lanes(s.p) : FreshOf(s, data, k)[r] \in [1 .. SizeOf(s, k) -> Element]
<1> DEFINE e == Encoding(s, data, k)
           z == WorkDims(s, SizeOf(s, k))
           size == SizeOf(s, k)
           v == View(st.area, size)
           w == ZeroWork(2 * M(s), size)
           h == EncodedOf(e, v)
           y == Splice(st.area, h)
<1>1. /\ IsEncoding(e) /\ IsDims(z) /\ HeadsOf(z) = AreasOf(WorkOf(e)) /\ AreasOf(z) = WorkAreas(s)
      /\ z.size = size /\ z.n = 2 * M(s) /\ e.s = s /\ size \in Nat
  BY EncodingIs DEF WorkDims, Encoding
<1>2. s.p \in Nat /\ M(s) \in Nat /\ s.p <= M(s)
  BY ShapeDims DEF Encodable
<1>3. st.area \in AreasOf(z)
  BY <1>1
<1> HIDE DEF e, z, size
<1>4. v \in HeadsOf(z)
  <2>1. AreasAlike(st.area, st.area, z)
    BY <1>3 DEF AreasAlike, Alike, AreasOf
  <2>2. View(st.area, z.size) \in HeadsOf(z)
    BY <1>1, <2>1, ViewIs
  <2> QED
    BY <1>1, <2>2
<1>5. w \in HeadsOf(z)
  <2>1. 0 \in Element
    BY Orders
  <2> QED
    BY <1>1, <2>1 DEF HeadsOf, ZeroWork, Fill
<1> HIDE DEF v, w
<1>6. h \in HeadsOf(z) /\ \A l \in Lanes(M(s)) : h[l] = EncodedOf(e, w)[l]
  BY <1>1, <1>4, <1>5, EncodingAlike
<1>7. EncodedOf(e, w) = FreshOf(s, data, k)
  BY DEF FreshOf, e, w, size
<1> HIDE DEF h
<1>8. y \in AreasOf(z) /\ \A l \in Lanes(z.n) : \A c \in 1 .. size : y[l][c] = h[l][c]
  <2>1. AreasAlike(y, y, z)
    BY <1>1, <1>3, <1>6, SpliceAlike
  <2>2. ASSUME NEW l \in Lanes(z.n), NEW c \in 1 .. size
        PROVE  y[l][c] = h[l][c]
    <3>1. st.area[l] \in LanesOf(z) /\ h[l] \in [1 .. z.size -> Element]
      BY <1>3, <1>6 DEF AreasOf, HeadsOf
    <3>2. y[l] = h[l] \o SubSeq(st.area[l], Len(h[l]) + 1, Len(st.area[l]))
      BY <1>3 DEF Splice, AreasOf
    <3> DEFINE a == st.area[l]
               b == h[l]
    <3>3. a \in LanesOf(z) /\ b \in [1 .. z.size -> Element]
      BY <3>1
    <3> HIDE DEF a, b
    <3>4. \A d \in 1 .. z.size : (b \o SubSeq(a, Len(b) + 1, Len(a)))[d] = b[d]
      BY <1>1, <3>3, SpliceLane
    <3> QED
      BY <1>1, <3>2, <3>4 DEF a, b
  <2> QED
    BY <2>1, <2>2 DEF AreasAlike
<1> HIDE DEF y
<1>9. ASSUME NEW r \in Lanes(s.p)
      PROVE  /\ SubSeq(y[r], 1, size) = FreshOf(s, data, k)[r]
             /\ FreshOf(s, data, k)[r] \in [1 .. size -> Element]
  <2>1. r \in Lanes(M(s)) /\ r \in Lanes(z.n)
    BY <1>1, <1>2 DEF Lanes
  <2>2. h[r] = FreshOf(s, data, k)[r] /\ h[r] \in [1 .. size -> Element]
    BY <1>1, <1>6, <1>7, <2>1 DEF HeadsOf
  <2>3. AreasAlike(y, y, z)
    BY <1>8 DEF AreasAlike, Alike, AreasOf
  <2>4. View(y, z.size) \in HeadsOf(z) /\ DOMAIN y = Lanes(z.n)
    BY <1>1, <2>3, <1>8, ViewIs DEF AreasOf
  <2>5. SubSeq(y[r], 1, size) \in [1 .. size -> Element]
    BY <1>1, <2>1, <2>4 DEF View, HeadsOf
  <2> DEFINE x == SubSeq(y[r], 1, size)
             a == y[r]
  <2>6. \A c \in 1 .. size : a[c] \in Element /\ a[c] = h[r][c]
    BY <1>8, <2>1, <2>2
  <2>7. \A c \in 1 .. size : x[c] = a[c]
    <3> HIDE DEF a
    <3>1. \A c \in 1 .. size : a[c] \in Element
      BY <2>6
    <3>2. 1 \in Int /\ size \in Int
      BY <1>1
    <3>3. \A c \in 1 .. size - 1 + 1 : SubSeq(a, 1, size)[c] = a[1 + c - 1]
      BY <3>1, <3>2, SubSeqProperties
    <3>4. size - 1 + 1 = size /\ \A c \in 1 .. size : 1 + c - 1 = c
      BY <1>1
    <3> QED
      BY <3>3, <3>4 DEF a
  <2> HIDE DEF x, a
  <2>8. x \in [1 .. size -> Element]
    BY <2>5 DEF x
  <2>9. x = h[r]
    <3> DEFINE b == h[r]
    <3>1. b \in [1 .. size -> Element] /\ \A c \in 1 .. size : x[c] = b[c]
      BY <2>2, <2>6, <2>7
    <3> HIDE DEF b
    <3>2. x = [c \in 1 .. size |-> x[c]] /\ b = [c \in 1 .. size |-> b[c]]
      BY <2>8, <3>1
    <3>3. [c \in 1 .. size |-> x[c]] = [c \in 1 .. size |-> b[c]]
      BY <3>1
    <3> QED
      BY <3>2, <3>3 DEF b
  <2> QED
    BY <2>2, <2>9 DEF x
<1>10. ChunkStep(s, data, st, k) = WithChunk(s, st.parity, y, k)
  BY DEF ChunkStep, y, h, e, v, size
<1>11. /\ WithChunk(s, st.parity, y, k).area = y
       /\ WithChunk(s, st.parity, y, k).parity
            = [r \in Lanes(s.p) |-> st.parity[r] \o work_u16_to_user_bytes(SubSeq(y[r], 1, size))]
  BY DEF WithChunk, size
<1>12. [r \in Lanes(s.p) |-> st.parity[r] \o work_u16_to_user_bytes(SubSeq(y[r], 1, size))]
         = [r \in Lanes(s.p) |-> st.parity[r] \o ParityBytes(s, data, k, r)]
  BY <1>9 DEF ParityBytes
<1> QED
  BY <1>1, <1>8, <1>9, <1>10, <1>11, <1>12 DEF size

LEMMA ParityBytesAre ==
  ASSUME NEW s \in Shapes, Encodable(s), NEW data \in [Lanes(s.d) -> ElementsOf(s)],
         NEW k \in 1 .. Chunks(s), NEW r \in Lanes(s.p)
  PROVE  /\ ParityBytes(s, data, k, r) \in [1 .. 2 * SizeOf(s, k) -> Bytes]
         /\ \A e \in 1 .. SizeOf(s, k) :
              ElementOf(ParityBytes(s, data, k, r), e) = FreshOf(s, data, k)[r][e]
<1>1. Between(SizeOf(s, k))
  BY EncodingIs
<1> DEFINE st == [area |-> ZeroWork(2 * M(s), LaneLen(s))]
<1>2. st.area \in WorkAreas(s)
  <2>1. 0 \in Element
    BY Orders
  <2> QED
    BY <2>1 DEF ZeroWork, Fill, WorkAreas
<1> HIDE DEF st
<1>3. FreshOf(s, data, k)[r] \in [1 .. SizeOf(s, k) -> Element]
  BY <1>2, ChunkStepIs
<1> DEFINE x == FreshOf(s, data, k)[r]
           n == SizeOf(s, k)
<1>4. Between(n) /\ x \in [1 .. n -> Element]
  BY <1>1, <1>3
<1> HIDE DEF x, n
<1>5. /\ work_u16_to_user_bytes(x) \in [1 .. 2 * n -> Bytes]
      /\ \A e \in 1 .. n : ElementOf(work_u16_to_user_bytes(x), e) = x[e]
  BY <1>4, FromWorkIs
<1> QED
  BY <1>5 DEF ParityBytes, x, n

\* The parity after k chunks.
PartlyIs(s, data, k, x, r) ==
  /\ x \in [1 .. 2 * Done(s, k) -> Bytes]
  /\ \A j \in 1 .. k : \A e \in ChunkStart(j) + 1 .. ChunkEnd(s, ChunkStart(j)) :
       ElementOf(x, e) = FreshOf(s, data, j)[r][e - ChunkStart(j)]

LEMMA PartlyGrows ==
  ASSUME NEW s \in Shapes, Encodable(s), NEW data \in [Lanes(s.d) -> ElementsOf(s)],
         NEW k \in 1 .. Chunks(s), NEW r \in Lanes(s.p), NEW x, PartlyIs(s, data, k - 1, x, r)
  PROVE  PartlyIs(s, data, k, x \o ParityBytes(s, data, k, r), r)
<1> DEFINE y == x \o ParityBytes(s, data, k, r)
           from == ChunkStart(k)
           to == ChunkEnd(s, from)
           bytes == ParityBytes(s, data, k, r)
<1>1. ShardLenFits(s)
  BY DEF Encodable
<1>2. IsStart(s, from) /\ to = Done(s, k) /\ from = Done(s, k - 1) /\ Chunks(s) \in Nat
  BY <1>1, ChunksAre
<1>3. Between(from) /\ Between(to) /\ from \in Nat /\ to \in Nat /\ from <= to
  BY <1>1, <1>2, ChunkBounds DEF IsChunk
<1>4. to - from = SizeOf(s, k)
  BY DEF SizeOf
<1>5. bytes \in [1 .. 2 * (to - from) -> Bytes] /\ x \in [1 .. 2 * from -> Bytes]
  BY <1>2, <1>4, ParityBytesAre DEF PartlyIs
<1>6. \A e \in 1 .. to - from : ElementOf(bytes, e) = FreshOf(s, data, k)[r][e]
  BY <1>4, ParityBytesAre
<1> HIDE DEF from, to, bytes
<1>7. /\ x \o bytes \in [1 .. 2 * to -> Bytes]
      /\ \A e \in from + 1 .. to : ElementOf(x \o bytes, e) = ElementOf(bytes, e - from)
      /\ \A e \in 1 .. from : ElementOf(x \o bytes, e) = ElementOf(x, e)
  BY <1>3, <1>5, AppendedIs
<1>8. ASSUME NEW j \in 1 .. k, NEW e \in ChunkStart(j) + 1 .. ChunkEnd(s, ChunkStart(j))
      PROVE  ElementOf(x \o bytes, e) = FreshOf(s, data, j)[r][e - ChunkStart(j)]
  <2>1. CASE j = k
    <3>1. e \in from + 1 .. to /\ e - from \in 1 .. to - from
      BY <1>3, <2>1 DEF from, to
    <3>2. ElementOf(x \o bytes, e) = FreshOf(s, data, k)[r][e - from]
      BY <1>6, <1>7, <3>1
    <3> QED
      BY <2>1, <3>2 DEF from
  <2>2. CASE j # k
    <3>1. j \in 1 .. k - 1 /\ j \in 1 .. Chunks(s)
      BY <1>2, <2>2
    <3>2. ChunkEnd(s, ChunkStart(j)) <= from
      <4>1. ChunkEnd(s, ChunkStart(j)) = Done(s, j)
        BY <1>1, <3>1, ChunksAre
      <4>2. PICK w \in Nat : w = WORK_SIZE16
        BY BlocksAssumption
      <4>3. from = (k - 1) * w
        BY <4>2 DEF from, ChunkStart
      <4>4. (k - 1) * w >= j * w /\ j * w \in Nat
        BY <3>1
      <4>5. Elements(s) \in Nat
        BY <1>1, SizesAre DEF Between
      <4>6. Done(s, j) <= j * w
        BY <4>2, <4>4, <4>5 DEF Done, LessOf
      <4>7. from \in Int /\ Done(s, j) \in Int
        BY <1>3, <4>2, <4>4, <4>5 DEF Done, LessOf
      <4> QED
        BY <4>1, <4>3, <4>4, <4>6, <4>7
    <3>3. e \in 1 .. from
      <4>1. ChunkStart(j) \in Nat /\ ChunkEnd(s, ChunkStart(j)) \in Nat
        BY <1>1, <3>1, ChunksAre, ChunkBounds DEF IsStart, IsChunk
      <4> QED
        BY <1>3, <3>2, <4>1
    <3>4. ElementOf(x \o bytes, e) = ElementOf(x, e)
      BY <1>7, <3>3
    <3> QED
      BY <3>1, <3>4 DEF PartlyIs
  <2> QED
    BY <2>1, <2>2
<1>9. x \o bytes \in [1 .. 2 * Done(s, k) -> Bytes]
  BY <1>2, <1>7
<1> QED
  BY <1>8, <1>9 DEF PartlyIs, bytes

LEMMA EncodeIs ==
  ASSUME NEW s \in Shapes, Encodable(s), NEW data_bytes \in [Lanes(s.d) -> BytesOf(s)],
         NEW area \in WorkAreas(s)
  PROVE  LET encoded == encode_with_tables16(s, data_bytes, area)
         IN /\ encoded.area \in WorkAreas(s)
            /\ encoded.parity \in [Lanes(s.p) -> BytesOf(s)]
            /\ \A r \in Lanes(s.p) :
                 PartlyIs(s, DataOf(s, data_bytes), Chunks(s), encoded.parity[r], r)
<1> DEFINE data == DataOf(s, data_bytes)
           start == Cleared(s, area)
           P == [Lanes(s.p) -> Seq(Bytes)]
           D == [area : WorkAreas(s), parity : P]
           Is(f) == f = [k \in 0 .. Chunks(s) |->
                           IF k = 0 THEN start ELSE ChunkStep(s, data, f[k - 1], k)]
<1>1. ShardLenFits(s)
  BY DEF Encodable
<1>2. data \in [Lanes(s.d) -> ElementsOf(s)]
  BY <1>1, ToWorkIs DEF DataOf
<1>3. PICK n \in Nat : n = Chunks(s)
  BY <1>1, ChunksAre
<1>4. start \in D /\ \A r \in Lanes(s.p) : start.parity[r] = <<>>
  <2>1. 0 \in Element
    BY Orders
  <2>2. DOMAIN area = Lanes(2 * M(s)) /\ \A l \in Lanes(2 * M(s)) : DOMAIN area[l] = 1 .. LaneLen(s)
    BY DEF WorkAreas
  <2>3. ZeroLanes(area, DOMAIN area) \in WorkAreas(s)
    BY <2>1, <2>2 DEF ZeroLanes, WorkAreas
  <2>4. <<>> \in Seq(Bytes)
    OBVIOUS
  <2> QED
    BY <2>3, <2>4 DEF Cleared
<1> HIDE DEF data, start
<1> DEFINE S == [k \in 1 .. n |-> [x \in D |-> ChunkStep(s, data, x, k)]]
<1>5. ASSUME NEW k \in 1 .. n, NEW x \in D
      PROVE  /\ ChunkStep(s, data, x, k) \in D
             /\ ChunkStep(s, data, x, k).parity
                  = [r \in Lanes(s.p) |-> x.parity[r] \o ParityBytes(s, data, k, r)]
  <2> DEFINE y == ChunkStep(s, data, x, k)
  <2>1. x.area \in WorkAreas(s) /\ \A r \in Lanes(s.p) : x.parity[r] \in Seq(Bytes)
    OBVIOUS
  <2>2. /\ y.area \in WorkAreas(s)
        /\ y.parity = [r \in Lanes(s.p) |-> x.parity[r] \o ParityBytes(s, data, k, r)]
    <3>1. k \in 1 .. Chunks(s) /\ x.area \in WorkAreas(s)
      BY <1>3, <2>1
    <3> HIDE DEF P, D
    <3> QED
      BY <1>2, <3>1, ChunkStepIs
  <2>3. y = [area |-> y.area, parity |-> y.parity]
    BY DEF ChunkStep, WithChunk
  <2> HIDE DEF y
  <2>4. ASSUME NEW r \in Lanes(s.p)
        PROVE  x.parity[r] \o ParityBytes(s, data, k, r) \in Seq(Bytes)
    <3> DEFINE b == ParityBytes(s, data, k, r)
               c == 2 * SizeOf(s, k)
    <3>1. b \in [1 .. c -> Bytes] /\ c \in Nat
      BY <1>2, <1>3, ParityBytesAre, EncodingIs
    <3> HIDE DEF b, c
    <3>2. b \in Seq(Bytes)
      BY <3>1, IsASequence
    <3> QED
      BY <2>1, <3>2, ConcatProperties DEF b
  <2>5. y.parity \in P
    BY <2>2, <2>4
  <2> HIDE DEF P
  <2>6. y \in D
    BY <2>2, <2>3, <2>5
  <2> QED
    BY <2>2, <2>6 DEF y
<1> HIDE DEF D
<1>6. \A k \in 1 .. n : \A x \in D : S[k][x] = ChunkStep(s, data, x, k) /\ S[k][x] \in D
  BY <1>5
<1> HIDE DEF S
<1>7. StaysIn(D, n, S)
  BY <1>6 DEF StaysIn
<1>8. PICK f : Recursion(f, n, start, S) /\ \A k \in 0 .. n : f[k] \in D
  BY <1>4, <1>7, Iteration
<1>9. ASSUME NEW k \in 0 .. n
      PROVE  (IF k = 0 THEN start ELSE S[k][f[k - 1]])
                = IF k = 0 THEN start ELSE ChunkStep(s, data, f[k - 1], k)
  <2>1. k # 0 => k \in 1 .. n /\ k - 1 \in 0 .. n
    BY <1>3
  <2> QED
    BY <1>6, <1>8, <2>1
<1>10. Is(f)
  BY <1>3, <1>8, <1>9 DEF Recursion
<1>11. Is(AllChunks(s, data, start))
  BY <1>10 DEF AllChunks
<1> DEFINE h == AllChunks(s, data, start)
<1>12. h[0] = start /\ \A k \in 1 .. n : h[k] = ChunkStep(s, data, h[k - 1], k)
  <2> HIDE DEF h
  <2>1. h = [k \in 0 .. n |-> IF k = 0 THEN start ELSE ChunkStep(s, data, h[k - 1], k)]
    BY <1>3, <1>11 DEF h
  <2>2. 0 \in 0 .. n /\ \A k \in 1 .. n : k \in 0 .. n /\ k # 0
    BY <1>3
  <2> QED
    BY <2>1, <2>2
<1> HIDE DEF h
<1> DEFINE good == {k \in 0 .. n : h[k] \in D /\ \A r \in Lanes(s.p) :
                                     PartlyIs(s, data, k, h[k].parity[r], r)}
<1>13. 0 \in good
  <2>1. ASSUME NEW r \in Lanes(s.p)
        PROVE  PartlyIs(s, data, 0, h[0].parity[r], r)
    <3>1. h[0].parity[r] = <<>> /\ Done(s, 0) = 0
      BY <1>1, <1>4, <1>12, ChunksAre
    <3>2. <<>> \in [1 .. 2 * 0 -> Bytes] /\ \A j \in 1 .. 0 : FALSE
      OBVIOUS
    <3> QED
      BY <3>1, <3>2 DEF PartlyIs
  <2> QED
    BY <1>3, <1>4, <1>12, <2>1
<1>14. ASSUME NEW k \in 0 .. n - 1, k \in good
       PROVE  k + 1 \in good
  <2>1. k + 1 \in 1 .. n /\ k + 1 \in 0 .. n /\ (k + 1) - 1 = k
    BY <1>3
  <2>2. h[k + 1] = ChunkStep(s, data, h[k], k + 1)
    BY <1>12, <2>1
  <2>3. h[k] \in D /\ \A r \in Lanes(s.p) : PartlyIs(s, data, k, h[k].parity[r], r)
    BY <1>14
  <2>4. /\ h[k + 1] \in D
        /\ h[k + 1].parity = [r \in Lanes(s.p) |-> h[k].parity[r] \o ParityBytes(s, data, k + 1, r)]
    BY <1>5, <2>1, <2>2, <2>3
  <2>5. ASSUME NEW r \in Lanes(s.p)
        PROVE  PartlyIs(s, data, k + 1, h[k + 1].parity[r], r)
    <3> DEFINE x == h[k].parity[r]
    <3>1. PartlyIs(s, data, (k + 1) - 1, x, r)
      BY <2>1, <2>3
    <3> HIDE DEF x
    <3>2. PartlyIs(s, data, k + 1, x \o ParityBytes(s, data, k + 1, r), r)
      BY <1>2, <1>3, <2>1, <3>1, PartlyGrows
    <3> QED
      BY <2>4, <3>2 DEF x
  <2> QED
    BY <2>1, <2>4, <2>5
<1>15. n \in good
  <2>1. \A k \in 0 .. n : k \in good
    <3> HIDE DEF good
    <3> QED
      BY <1>3, <1>13, <1>14, UpTo
  <2> QED
    BY <1>3, <2>1
<1>16. encode_with_tables16(s, data_bytes, area) = h[n]
  BY <1>3, EncodeIsAllChunks DEF h, data, start
<1>17. Done(s, n) = Elements(s) /\ s.bytes = 2 * Elements(s)
  BY <1>1, <1>3, ChunksAre, SizesAre
<1>18. \A r \in Lanes(s.p) : h[n].parity[r] \in BytesOf(s)
  BY <1>15, <1>17 DEF PartlyIs, BytesOf
<1>19. h[n].area \in WorkAreas(s) /\ h[n].parity = [r \in Lanes(s.p) |-> h[n].parity[r]]
  BY <1>15 DEF D
<1> QED
  BY <1>3, <1>15, <1>16, <1>18, <1>19 DEF data

----------------------------------------------------------------------------
(* What a chunk of a reconstruction writes.                                   *)

\* The missing shard i, from the work area that the chunk leaves.
ReadOut(k, left, i) ==
  LaneMul(SubSeq(left[Lane(k.s, i)], 1, k.to - k.from),
          Modulus - PlanOf(k).err_locs[Lane(k.s, i)])

LEMMA LaneIs ==
  ASSUME NEW s \in Shapes, Decodable(s), NEW i \in Lanes(Total(s))
  PROVE  Lane(s, i) \in Lanes(N(s)) /\ Lane(s, i) \in Element
<1>1. /\ s.d \in Nat /\ s.p \in Nat /\ M(s) \in Nat /\ N(s) \in Nat /\ M(s) >= s.p
      /\ N(s) >= M(s) + s.d /\ N(s) <= Modulus
  BY ShapeDims DEF Decodable
<1>2. i \in Int /\ 0 <= i /\ i < s.d + s.p
  BY <1>1 DEF Lanes, Total
<1>3. Lane(s, i) \in Nat /\ Lane(s, i) < N(s)
  BY <1>1, <1>2 DEF Lane
<1>4. Lane(s, i) \in Element
  BY <1>1, <1>3, Orders
<1> QED
  BY <1>1, <1>3, <1>4 DEF Lanes

\* A lane of the right length times a power.
LEMMA LaneMulIs ==
  ASSUME NEW n \in Nat, NEW x \in [1 .. n -> Element], NEW log_m \in Element
  PROVE  LaneMul(x, log_m) \in [1 .. n -> Element]
<1>1. \A c \in 1 .. n : x[c] \in Element
  OBVIOUS
<1>2. \A c \in 1 .. n : MulLut[log_m][x[c]] \in Element
  BY <1>1, MulLutIs
<1> QED
  BY <1>2 DEF LaneMul

\* Whatever was in the worker's area, a chunk leaves an area, and what is read
\* from it is what a fresh area would give.
LEMMA ReadOutIs ==
  ASSUME NEW k, IsCall(k), NEW v \in CallAreas(k.s), NEW i \in Lanes(Total(k.s))
  PROVE  /\ ChunkOf(k, v) \in CallAreas(k.s)
         /\ ReadOut(k, ChunkOf(k, v), i) \in [1 .. k.to - k.from -> Element]
         /\ ReadOut(k, ChunkOf(k, v), i)
              = ReadOut(k, ChunkOf(k, ZeroWork(N(k.s), LaneLen(k.s))), i)
<1> DEFINE z == DimsOf(k)
           w == ZeroWork(N(k.s), LaneLen(k.s))
           l == Lane(k.s, i)
           x == ChunkOf(k, v)
           y == ChunkOf(k, w)
           size == k.to - k.from
<1>1. /\ AreasOf(z) = CallAreas(k.s) /\ IsDims(z) /\ z.size = size /\ z.n = N(k.s)
      /\ size \in Nat
  BY CallDims DEF DimsOf, AreasOf, LanesOf, CallAreas, IsDims
<1>2. w \in AreasOf(z)
  <2>1. 0 \in Element
    BY Orders
  <2>2. w \in CallAreas(k.s)
    BY <2>1 DEF ZeroWork, Fill, CallAreas
  <2> QED
    BY <1>1, <2>2
<1>3. k.s \in Shapes /\ Decodable(k.s) /\ k.present \subseteq Lanes(Total(k.s))
  BY DEF IsCall
<1>4. l \in Lanes(N(k.s)) /\ l \in Element
  BY <1>3, LaneIs
<1> HIDE DEF w, z, l, size
<1>5. AreasAlike(x, y, z)
  BY <1>1, <1>2, ChunkAlike DEF z
<1> HIDE DEF x, y
<1>6. View(x, z.size) \in HeadsOf(z) /\ View(x, z.size) = View(y, z.size)
  BY <1>1, <1>5, ViewIs
<1>7. DOMAIN x = Lanes(z.n) /\ DOMAIN y = Lanes(z.n) /\ x \in AreasOf(z)
  BY <1>5 DEF AreasAlike, AreasOf
<1>8. /\ SubSeq(x[l], 1, size) \in [1 .. size -> Element]
      /\ SubSeq(x[l], 1, size) = SubSeq(y[l], 1, size)
  BY <1>1, <1>4, <1>6, <1>7 DEF View, HeadsOf
<1>9. Modulus - PlanOf(k).err_locs[l] \in Element
  <2>1. PlanOf(k).err_locs \in Vectors
    BY <1>3, DecodePlanIs DEF PlanOf
  <2>2. PlanOf(k).err_locs[l] \in Element
    BY <1>4, <2>1 DEF Vectors
  <2> QED
    BY <2>2, ElementsAreNumbers
<1>10. /\ ReadOut(k, x, i) = LaneMul(SubSeq(x[l], 1, size), Modulus - PlanOf(k).err_locs[l])
       /\ ReadOut(k, y, i) = LaneMul(SubSeq(y[l], 1, size), Modulus - PlanOf(k).err_locs[l])
  BY DEF ReadOut, l, size
<1>11. LaneMul(SubSeq(x[l], 1, size), Modulus - PlanOf(k).err_locs[l]) \in [1 .. size -> Element]
  <2> DEFINE a == SubSeq(x[l], 1, size)
             b == Modulus - PlanOf(k).err_locs[l]
  <2>1. a \in [1 .. size -> Element] /\ b \in Element
    BY <1>8, <1>9
  <2> HIDE DEF a, b
  <2>2. LaneMul(a, b) \in [1 .. size -> Element]
    BY <1>1, <2>1, LaneMulIs
  <2> QED
    BY <2>2 DEF a, b
<1> QED
  BY <1>1, <1>7, <1>8, <1>10, <1>11 DEF x, y, w, size

\* A worker reads the missing shards of a chunk out of the area that its last job
\* left as out of one that is new: compute_reconstruct_chunk clears what it must.
THEOREM ReusedAreaIsAsNew ==
  ASSUME NEW k, IsCall(k), NEW v \in CallAreas(k.s), NEW i \in Lanes(Total(k.s))
  PROVE  ReadOut(k, ChunkOf(k, v), i) = ReadOut(k, ChunkOf(k, ZeroWork(N(k.s), LaneLen(k.s))), i)
BY ReadOutIs

\* The shards of a container, as elements.
ElementsIn(shards) ==
  [i \in DOMAIN shards |->
     IF shards[i] = Absent THEN Absent ELSE user_bytes_to_work_u16(shards[i])]
CallOf(s, present, shards, from) ==
  [s |-> s, present |-> present, data |-> ElementsIn(shards),
   from |-> from, to |-> ChunkEnd(s, from)]

Containers(s) == [Lanes(Total(s)) -> BytesOf(s) \union {Absent}]

LEMMA CallIs ==
  ASSUME NEW s \in Shapes, Decodable(s), NEW shards \in Containers(s),
         NEW present, present \subseteq Lanes(Total(s)), NEW from, IsStart(s, from)
  PROVE  IsCall(CallOf(s, present, shards, from))
<1>1. ShardLenFits(s)
  BY DEF Decodable
<1>2. IsChunk(s, from, ChunkEnd(s, from))
  BY <1>1, ChunkBounds
<1>3. ASSUME NEW i \in Lanes(Total(s))
      PROVE  (IF shards[i] = Absent THEN Absent ELSE user_bytes_to_work_u16(shards[i]))
               \in ElementsOf(s) \union {Absent}
  <2>1. CASE shards[i] # Absent
    <3> DEFINE x == shards[i]
    <3>1. x \in BytesOf(s)
      BY <2>1 DEF Containers
    <3> HIDE DEF x
    <3>2. user_bytes_to_work_u16(x) \in ElementsOf(s)
      BY <1>1, <3>1, ToWorkIs
    <3> QED
      BY <2>1, <3>2 DEF x
  <2> QED
    BY <2>1
<1>4. ElementsIn(shards) \in [Lanes(Total(s)) -> ElementsOf(s) \union {Absent}]
  BY <1>3 DEF ElementsIn, Containers
<1> QED
  BY <1>2, <1>4 DEF IsCall, CallOf

----------------------------------------------------------------------------
(* The state of a thread.                                                     *)

Outputs(s) == [Lanes(Total(s)) -> BytesOf(s)]

ThreadIsTyped(u) ==
  /\ phase[u] \in {"idle", "build", "chunks"} /\ answer[u] \in Answers
  /\ flat_work[u] # NoWork => \E s \in Shapes : Encodable(s) /\ flat_work[u] \in WorkAreas(s)
  /\ shard[u] # <<>> => /\ shape[u] \in Shapes /\ Encodable(shape[u])
                        /\ shard[u] \in Containers(shape[u])
  /\ outputs[u] # <<>> => shape[u] \in Shapes /\ outputs[u] \in Outputs(shape[u])
  /\ phase[u] # "idle" => /\ shard[u] # <<>> /\ Decodable(shape[u])
                          /\ Cardinality(Present(u)) >= shape[u].d
                          /\ outputs[u] \in Outputs(shape[u])
  /\ held[u] # NoPlan <=> phase[u] = "chunks"
  /\ \A from \in jobs[u] : phase[u] = "chunks" /\ IsStart(shape[u], from)
  /\ \A w \in Workers :
       areas[u][w] # NoWork => phase[u] = "chunks" /\ areas[u][w] \in CallAreas(shape[u])

\* The shards that are there, and the chunks that are done, are the code's.
ThreadIsOfTheCode(u) ==
  /\ \A i \in DOMAIN shard[u] : shard[u][i] # Absent =>
       \A e \in 1 .. Elements(shape[u]) : IsOfTheCode(shape[u], i, shard[u][i], e)
  /\ answer[u] = "ok" => \A i \in DOMAIN shard[u] : shard[u][i] # Absent
  /\ phase[u] = "chunks" => \A i \in DOMAIN shard[u] \ Present(u) :
       \A e \in 1 .. Elements(shape[u]) :
         StartOf(e) \notin jobs[u] => IsOfTheCode(shape[u], i, outputs[u][i], e)

AllThreads ==
  /\ PerThread
  /\ DOMAIN answer = Threads /\ DOMAIN flat_work = Threads /\ DOMAIN jobs = Threads
  /\ DOMAIN areas = Threads /\ DOMAIN outputs = Threads
  /\ \A u \in Threads : DOMAIN areas[u] = Workers

TypedInv ==
  /\ PlanInv /\ AllThreads /\ calls \in 0 .. MaxCalls
  /\ \A u \in Threads : ThreadIsTyped(u)
CodeInv == TypedInv /\ \A u \in Threads : ThreadIsOfTheCode(u)

Still(u) ==
  /\ Untouched(u) /\ answer'[u] = answer[u] /\ flat_work'[u] = flat_work[u]
  /\ jobs'[u] = jobs[u] /\ areas'[u] = areas[u] /\ outputs'[u] = outputs[u]

LEMMA StillIsTyped ==
  ASSUME NEW u \in Threads, ThreadIsTyped(u), Still(u)
  PROVE  ThreadIsTyped(u)'
<1>1. Present(u)' = Present(u)
  BY DEF Present, Still, Untouched
<1> QED
  BY <1>1 DEF ThreadIsTyped, Still, Untouched

LEMMA StillIsOfTheCode ==
  ASSUME NEW u \in Threads, ThreadIsOfTheCode(u), Still(u)
  PROVE  ThreadIsOfTheCode(u)'
<1>1. Present(u)' = Present(u)
  BY DEF Present, Still, Untouched
<1> QED
  BY <1>1 DEF ThreadIsOfTheCode, Still, Untouched

\* A container has a shard at least, and its bytes are not none.
LEMMA ContainersAre ==
  ASSUME NEW s \in Shapes, ShardLenFits(s)
  PROVE  /\ <<>> \notin Containers(s) /\ <<>> \notin Outputs(s) /\ Absent \notin BytesOf(s)
         /\ BytesOf(s) \subseteq Seq(Bytes) /\ \A x \in BytesOf(s) : Len(x) = s.bytes
         /\ Total(s) \in Nat /\ s.d \in Nat /\ s.d >= 1 /\ s.p \in Nat /\ s.bytes \in Nat
<1>1. s.d \in Nat /\ s.d >= 1 /\ s.p \in Nat /\ s.bytes \in Nat /\ s.bytes >= 1
  BY ShapeDims DEF ShardLenFits
<1>2. Total(s) \in Nat /\ 0 \in Lanes(Total(s))
  BY <1>1 DEF Total, Lanes
<1>3. 1 \in 1 .. s.bytes
  BY <1>1
<1>4. DOMAIN <<>> = {}
  OBVIOUS
<1>5. <<>> \notin Containers(s) /\ <<>> \notin Outputs(s)
  BY <1>2, <1>4 DEF Containers, Outputs
<1>6. Absent \notin BytesOf(s)
  BY <1>3, <1>4 DEF BytesOf, Absent
<1>7. ASSUME NEW x \in BytesOf(s)
      PROVE  x \in Seq(Bytes) /\ Len(x) = s.bytes
  BY <1>1, IsASequence DEF BytesOf
<1> QED
  BY <1>1, <1>2, <1>5, <1>6, <1>7

LEMMA CallersBytesAre ==
  ASSUME NEW s \in Shapes, NEW i \in Lanes(s.d)
  PROVE  DataBytes(s, i) \in BytesOf(s)
<1>1. s.d \in Nat /\ s.bytes \in Nat /\ i \in Int
  BY ShapeDims DEF Lanes
<1>2. ASSUME NEW q \in 1 .. s.bytes
      PROVE  (5 * i + 3 * q + i * q + s.d) % HalfOrder \in Bytes
  <2>1. PICK n \in Int : n = 5 * i + 3 * q + i * q + s.d
    BY <1>1
  <2>2. n % HalfOrder \in Nat /\ n % HalfOrder < HalfOrder
    <3>1. CASE HalfOrder = 4
      BY <3>1
    <3>2. CASE HalfOrder = 16
      BY <3>2
    <3>3. CASE HalfOrder = 256
      BY <3>3
    <3> QED
      BY <3>1, <3>2, <3>3, HalfOrders
  <2> QED
    BY <2>1, <2>2, HalfOrders
<1> QED
  BY <1>2 DEF DataBytes, BytesOf

----------------------------------------------------------------------------
(* Encoding.                                                                  *)

CallersBytes(s) == [i \in Lanes(s.d) |-> DataBytes(s, i)]
AreaFor(t, s) ==
  IF flat_work[t] # NoWork /\ DOMAIN flat_work[t] = Lanes(2 * M(s))
       /\ Len(flat_work[t][0]) = LaneLen(s)
  THEN flat_work[t] ELSE ZeroWork(2 * M(s), LaneLen(s))
Encoded(t, s) == encode_with_tables16(s, CallersBytes(s), AreaFor(t, s))
Filled(s, encoded) ==
  [i \in Lanes(Total(s)) |-> IF i < s.d THEN DataBytes(s, i) ELSE encoded.parity[i - s.d]]

\* The area that a thread kept is of the right size, or a new one is made.
LEMMA AreaForIs ==
  ASSUME NEW t \in Threads, ThreadIsTyped(t), NEW s \in Shapes, Encodable(s)
  PROVE  AreaFor(t, s) \in WorkAreas(s)
<1>1. CASE flat_work[t] # NoWork /\ DOMAIN flat_work[t] = Lanes(2 * M(s))
             /\ Len(flat_work[t][0]) = LaneLen(s)
  <2> DEFINE v == flat_work[t]
  <2>1. PICK r \in Shapes : Encodable(r) /\ v \in WorkAreas(r)
    BY <1>1 DEF ThreadIsTyped
  <2> HIDE DEF v
  <2>2. M(r) \in Nat /\ M(r) >= 1 /\ LaneLen(r) \in Nat
    BY <2>1, ShapeDims, SizesAre DEF Encodable
  <2>3. 0 \in Lanes(2 * M(r))
    BY <2>2 DEF Lanes
  <2>4. v[0] \in [1 .. LaneLen(r) -> Element]
    BY <2>1, <2>3 DEF WorkAreas
  <2>5. Len(v[0]) = LaneLen(r)
    BY <2>2, <2>4, IsASequence
  <2>6. DOMAIN v = Lanes(2 * M(r))
    BY <2>1 DEF WorkAreas
  <2>7. Lanes(2 * M(s)) = Lanes(2 * M(r)) /\ LaneLen(s) = LaneLen(r)
    BY <1>1, <2>5, <2>6 DEF v
  <2>8. v \in WorkAreas(s)
    BY <2>1, <2>7 DEF WorkAreas
  <2> QED
    BY <1>1, <2>8 DEF AreaFor, v
<1>2. CASE ~(flat_work[t] # NoWork /\ DOMAIN flat_work[t] = Lanes(2 * M(s))
               /\ Len(flat_work[t][0]) = LaneLen(s))
  <2>1. AreaFor(t, s) = ZeroWork(2 * M(s), LaneLen(s))
    BY <1>2 DEF AreaFor
  <2>2. 0 \in Element
    BY Orders
  <2> QED
    BY <2>1, <2>2 DEF ZeroWork, Fill, WorkAreas
<1> QED
  BY <1>1, <1>2

LEMMA EncodedIs ==
  ASSUME NEW t \in Threads, ThreadIsTyped(t), NEW s \in Shapes, Encodable(s)
  PROVE  /\ Encoded(t, s).area \in WorkAreas(s)
         /\ Filled(s, Encoded(t, s)) \in Outputs(s)
         /\ \A r \in Lanes(s.p) : PartlyIs(s, DataOf(s, CallersBytes(s)), Chunks(s),
                                           Encoded(t, s).parity[r], r)
<1>1. AreaFor(t, s) \in WorkAreas(s)
  BY AreaForIs
<1>2. CallersBytes(s) \in [Lanes(s.d) -> BytesOf(s)]
  BY CallersBytesAre DEF CallersBytes
<1> DEFINE encoded == Encoded(t, s)
<1>3. /\ encoded.area \in WorkAreas(s)
      /\ encoded.parity \in [Lanes(s.p) -> BytesOf(s)]
      /\ \A r \in Lanes(s.p) :
           PartlyIs(s, DataOf(s, CallersBytes(s)), Chunks(s), encoded.parity[r], r)
  BY <1>1, <1>2, EncodeIs DEF Encoded
<1> HIDE DEF encoded
<1>4. s.d \in Nat /\ s.p \in Nat
  BY ShapeDims
<1>5. ASSUME NEW i \in Lanes(Total(s))
      PROVE  (IF i < s.d THEN DataBytes(s, i) ELSE encoded.parity[i - s.d]) \in BytesOf(s)
  <2>1. i \in Int /\ 0 <= i /\ i < s.d + s.p
    BY <1>4 DEF Lanes, Total
  <2>2. CASE i < s.d
    <3>1. i \in Lanes(s.d)
      BY <1>4, <2>1, <2>2 DEF Lanes
    <3> QED
      BY <2>2, <3>1, CallersBytesAre
  <2>3. CASE ~(i < s.d)
    <3>1. i - s.d \in Lanes(s.p)
      BY <1>4, <2>1, <2>3 DEF Lanes
    <3> QED
      BY <1>3, <2>3, <3>1
  <2> QED
    BY <2>2, <2>3
<1>6. Filled(s, encoded) \in Outputs(s)
  BY <1>5 DEF Filled, Outputs
<1> QED
  BY <1>3, <1>6 DEF encoded

\* What a call of encode does to its thread.
LEMMA EncodeStep ==
  ASSUME TypedInv, NEW t \in Threads, NEW s \in Shapes, Encode(t, s)
  PROVE  /\ phase[t] = "idle" /\ phase' = phase /\ held' = held /\ jobs' = jobs /\ areas' = areas
         /\ shape' = [shape EXCEPT ![t] = s]
         /\ outputs' = [outputs EXCEPT ![t] = <<>>]
         /\ calls < MaxCalls /\ calls' = calls + 1
         /\ Encodable(s) => /\ flat_work' = [flat_work EXCEPT ![t] = Encoded(t, s).area]
                            /\ shard' = [shard EXCEPT ![t] = Filled(s, Encoded(t, s))]
                            /\ answer' = [answer EXCEPT ![t] = "ok"]
         /\ ~Encodable(s) => /\ flat_work' = flat_work
                             /\ shard' = [shard EXCEPT ![t] = <<>>]
                             /\ \E a \in Answers \ {"ok"} : answer' = [answer EXCEPT ![t] = a]
<1>1. /\ phase[t] = "idle" /\ phase' = phase /\ held' = held /\ jobs' = jobs /\ areas' = areas
      /\ shape' = [shape EXCEPT ![t] = s]
      /\ outputs' = [outputs EXCEPT ![t] = <<>>]
      /\ calls < MaxCalls /\ calls' = calls + 1
  BY DEF Encode
<1>2. ASSUME Encodable(s)
      PROVE  /\ flat_work' = [flat_work EXCEPT ![t] = Encoded(t, s).area]
             /\ shard' = [shard EXCEPT ![t] = Filled(s, Encoded(t, s))]
             /\ answer' = [answer EXCEPT ![t] = "ok"]
  <2>1. \E encoded \in {Encoded(t, s)} :
          /\ flat_work' = [flat_work EXCEPT ![t] = encoded.area]
          /\ shard' = [shard EXCEPT ![t] =
               [i \in Lanes(Total(s)) |->
                  IF i < s.d THEN CallersBytes(s)[i] ELSE encoded.parity[i - s.d]]]
          /\ answer' = [answer EXCEPT ![t] = "ok"]
    BY <1>2, Zenon DEF Encode, Encoded, AreaFor, CallersBytes
  <2> DEFINE encoded == Encoded(t, s)
  <2>2. /\ flat_work' = [flat_work EXCEPT ![t] = encoded.area]
        /\ shard' = [shard EXCEPT ![t] =
             [i \in Lanes(Total(s)) |->
                IF i < s.d THEN CallersBytes(s)[i] ELSE encoded.parity[i - s.d]]]
        /\ answer' = [answer EXCEPT ![t] = "ok"]
    BY <2>1
  <2> HIDE DEF encoded
  <2>3. ASSUME NEW i \in Lanes(Total(s))
        PROVE  (IF i < s.d THEN CallersBytes(s)[i] ELSE encoded.parity[i - s.d])
                 = IF i < s.d THEN DataBytes(s, i) ELSE encoded.parity[i - s.d]
    <3>1. s.d \in Nat /\ s.p \in Nat
      BY ShapeDims
    <3>2. i < s.d => i \in Lanes(s.d)
      BY <3>1 DEF Lanes, Total
    <3> QED
      BY <3>2 DEF CallersBytes
  <2>4. [i \in Lanes(Total(s)) |->
           IF i < s.d THEN CallersBytes(s)[i] ELSE encoded.parity[i - s.d]] = Filled(s, encoded)
    BY <2>3 DEF Filled
  <2> QED
    BY <2>2, <2>4 DEF encoded
<1>3. ASSUME ~Encodable(s)
      PROVE  /\ flat_work' = flat_work
             /\ shard' = [shard EXCEPT ![t] = <<>>]
             /\ \E a \in Answers \ {"ok"} : answer' = [answer EXCEPT ![t] = a]
  <2> DEFINE a == CASE ~ShardLenFits(s) -> "IncorrectShardSize"
                    [] M(s) > Modulus   -> "TooManyShards"
                    [] OTHER            -> "panic"
  <2>1. /\ flat_work' = flat_work /\ shard' = [shard EXCEPT ![t] = <<>>]
        /\ answer' = [answer EXCEPT ![t] = a]
    BY <1>3 DEF Encode
  <2>2. a \in Answers \ {"ok"}
    BY DEF Answers
  <2> QED
    BY <2>1, <2>2
<1> QED
  BY <1>1, <1>2, <1>3

\* A step of one thread keeps the invariants if it keeps that thread's part.
LEMMA OneThreadTyped ==
  ASSUME TypedInv, NEW t \in Threads, PlanInv', AllThreads', (calls \in 0 .. MaxCalls)',
         ThreadIsTyped(t)', \A u \in Threads \ {t} : Still(u)
  PROVE  TypedInv'
<1>1. \A u \in Threads : ThreadIsTyped(u)
  BY DEF TypedInv
<1>2. \A u \in Threads : ThreadIsTyped(u)'
  BY <1>1, StillIsTyped
<1> QED
  BY <1>2 DEF TypedInv

LEMMA OneThreadOfTheCode ==
  ASSUME CodeInv, NEW t \in Threads, TypedInv', ThreadIsOfTheCode(t)',
         \A u \in Threads \ {t} : Still(u)
  PROVE  CodeInv'
<1>1. \A u \in Threads : ThreadIsOfTheCode(u)
  BY DEF CodeInv
<1>2. \A u \in Threads : ThreadIsOfTheCode(u)'
  BY <1>1, StillIsOfTheCode
<1> QED
  BY <1>2 DEF CodeInv

LEMMA EncodeKeepsTypes ==
  ASSUME TypedInv, NEW t \in Threads, NEW s \in Shapes, Encode(t, s)
  PROVE  TypedInv' /\ \A u \in Threads \ {t} : Still(u)
<1>1. /\ phase[t] = "idle" /\ phase' = phase /\ held' = held /\ jobs' = jobs /\ areas' = areas
      /\ shape' = [shape EXCEPT ![t] = s]
      /\ outputs' = [outputs EXCEPT ![t] = <<>>]
      /\ calls < MaxCalls /\ calls' = calls + 1
  BY EncodeStep
<1>2. ThreadIsTyped(t) /\ PlanInv /\ AllThreads
  BY DEF TypedInv
<1>3. PICK work, shards, a :
        /\ DOMAIN flat_work' = Threads /\ flat_work'[t] = work
        /\ \A u \in Threads \ {t} : flat_work'[u] = flat_work[u]
        /\ shard' = [shard EXCEPT ![t] = shards]
        /\ answer' = [answer EXCEPT ![t] = a] /\ a \in Answers
        /\ work # NoWork => \E r \in Shapes : Encodable(r) /\ work \in WorkAreas(r)
        /\ shards # <<>> => Encodable(s) /\ shards \in Containers(s)
  <2>1. CASE Encodable(s)
    <3> DEFINE encoded == Encoded(t, s)
    <3>1. encoded.area \in WorkAreas(s) /\ Filled(s, encoded) \in Outputs(s)
      BY <1>2, <2>1, EncodedIs
    <3>2. /\ flat_work' = [flat_work EXCEPT ![t] = encoded.area]
          /\ shard' = [shard EXCEPT ![t] = Filled(s, encoded)]
          /\ answer' = [answer EXCEPT ![t] = "ok"]
      BY <2>1, EncodeStep
    <3> HIDE DEF encoded
    <3>3. Filled(s, encoded) \in Containers(s)
      BY <3>1 DEF Outputs, Containers
    <3>4. "ok" \in Answers
      BY DEF Answers
    <3>5. /\ DOMAIN flat_work' = Threads /\ flat_work'[t] = encoded.area
          /\ \A u \in Threads \ {t} : flat_work'[u] = flat_work[u]
      BY <1>2, <3>2 DEF AllThreads
    <3> QED
      BY <2>1, <3>1, <3>2, <3>3, <3>4, <3>5
  <2>2. CASE ~Encodable(s)
    <3>1. /\ flat_work' = flat_work /\ shard' = [shard EXCEPT ![t] = <<>>]
          /\ \E a \in Answers \ {"ok"} : answer' = [answer EXCEPT ![t] = a]
      BY <2>2, EncodeStep
    <3> DEFINE none == <<>>
               work == flat_work[t]
    <3>2. /\ DOMAIN flat_work' = Threads /\ flat_work'[t] = work
          /\ \A u \in Threads \ {t} : flat_work'[u] = flat_work[u]
      BY <1>2, <3>1 DEF AllThreads
    <3>3. work # NoWork => \E r \in Shapes : Encodable(r) /\ work \in WorkAreas(r)
      BY <1>2 DEF ThreadIsTyped
    <3>4. shard' = [shard EXCEPT ![t] = none] /\ ~(none # <<>>)
      BY <3>1
    <3> HIDE DEF none, work
    <3> QED
      BY <3>1, <3>2, <3>3, <3>4
  <2> QED
    BY <2>1, <2>2
<1>4. PlanInv'
  BY <1>2, EncodeKeeps
<1>5. AllThreads'
  BY <1>1, <1>2, <1>3, <1>4 DEF AllThreads, PlanInv
<1>6. (calls \in 0 .. MaxCalls)'
  <2>1. calls \in 0 .. MaxCalls /\ MaxCalls \in Nat
    BY BlocksAssumption DEF TypedInv
  <2> QED
    BY <1>1, <2>1
<1>7. /\ phase'[t] = "idle" /\ shape'[t] = s /\ outputs'[t] = <<>> /\ held'[t] = held[t]
      /\ jobs'[t] = jobs[t] /\ areas'[t] = areas[t] /\ flat_work'[t] = work
      /\ shard'[t] = shards /\ answer'[t] = a
  BY <1>1, <1>2, <1>3 DEF AllThreads, PerThread
<1>8. ThreadIsTyped(t)'
  BY <1>1, <1>2, <1>3, <1>7 DEF ThreadIsTyped
<1>9. ASSUME NEW u \in Threads \ {t}
      PROVE  Still(u)
  BY <1>1, <1>2, <1>3 DEF AllThreads, PerThread, Still, Untouched
<1> QED
  BY <1>4, <1>5, <1>6, <1>8, <1>9, OneThreadTyped

LEMMA LoseKeepsTypes ==
  ASSUME TypedInv, NEW t \in Threads, Lose(t)
  PROVE  TypedInv' /\ \A u \in Threads \ {t} : Still(u)
<1>1. /\ phase[t] = "idle" /\ phase' = phase /\ held' = held /\ jobs' = jobs /\ areas' = areas
      /\ shape' = shape /\ outputs' = outputs /\ flat_work' = flat_work /\ calls' = calls
      /\ answer' = [answer EXCEPT ![t] = "none"]
  BY DEF Lose
<1>2. ThreadIsTyped(t) /\ PlanInv /\ AllThreads
  BY DEF TypedInv
<1>3. PICK lost : shard' = [shard EXCEPT ![t] = [i \in DOMAIN shard[t] |->
                              IF i \in lost THEN Absent ELSE shard[t][i]]]
  BY <1>2 DEF Lose, PlanInv, PerThread
<1>4. PlanInv'
  BY <1>2, LoseKeeps
<1>5. AllThreads'
  BY <1>1, <1>2, <1>4 DEF AllThreads, PlanInv
<1>6. (calls \in 0 .. MaxCalls)'
  BY <1>1 DEF TypedInv
<1> DEFINE left == [i \in DOMAIN shard[t] |-> IF i \in lost THEN Absent ELSE shard[t][i]]
<1>7. /\ phase'[t] = "idle" /\ shape'[t] = shape[t] /\ outputs'[t] = outputs[t]
      /\ held'[t] = held[t] /\ jobs'[t] = jobs[t] /\ areas'[t] = areas[t]
      /\ flat_work'[t] = flat_work[t] /\ shard'[t] = left /\ answer'[t] = "none"
  BY <1>1, <1>2, <1>3 DEF AllThreads, PerThread
<1>8. /\ shard[t] = <<>> => left = <<>>
      /\ shard[t] # <<>> => left \in Containers(shape[t])
  <2>1. shard[t] # <<>> => shard[t] \in Containers(shape[t])
    BY <1>2 DEF ThreadIsTyped
  <2> QED
    BY <2>1 DEF Containers
<1> HIDE DEF left
<1>9. ThreadIsTyped(t)'
  BY <1>1, <1>2, <1>7, <1>8 DEF ThreadIsTyped, Answers
<1>10. ASSUME NEW u \in Threads \ {t}
       PROVE  Still(u)
  BY <1>1, <1>2, <1>3 DEF AllThreads, PerThread, Still, Untouched
<1> QED
  BY <1>4, <1>5, <1>6, <1>9, <1>10, OneThreadTyped

----------------------------------------------------------------------------
(* Reconstructing.                                                            *)

LEMMA PlanIsThere ==
  ASSUME NEW s, NEW present
  PROVE  build_decode_plan(s, present) # NoPlan
<1>1. DOMAIN build_decode_plan(s, present) = {"err_locs", "input_count", "ifft_plan", "fft_plan"}
  BY Zenon DEF build_decode_plan
<1>2. DOMAIN <<>> = {}
  OBVIOUS
<1> QED
  BY <1>1, <1>2 DEF NoPlan

LEMMA StartsAre ==
  ASSUME NEW s \in Shapes, ShardLenFits(s)
  PROVE  \A from : from \in {k \in 0 .. Elements(s) - 1 : k % WORK_SIZE16 = 0}
                     <=> IsStart(s, from)
<1>1. Elements(s) \in Nat
  BY SizesAre DEF Between
<1> QED
  BY <1>1 DEF IsStart

\* Why reconstruct_leopard_impl and reconstruct_with_tables16 go no further.
Refusal(t) ==
  CASE Present(t) = {}                       -> "EmptyShard"
    [] Present(t) = DOMAIN shard[t]          -> "ok"
    [] Cardinality(Present(t)) < shape[t].d  -> "TooFewShardsPresent"
    [] ~Decodable(shape[t])                  -> "TooManyShards"
    [] OTHER                                 -> "none"

LEMMA BeginStep ==
  ASSUME TypedInv, NEW t \in Threads, BeginReconstruct(t)
  PROVE  /\ phase[t] = "idle" /\ answer[t] = "none" /\ shard[t] # <<>>
         /\ shape' = shape /\ shard' = shard /\ flat_work' = flat_work /\ areas' = areas
         /\ calls' = calls
         /\ \/ /\ phase' = phase /\ held' = held /\ jobs' = jobs /\ outputs' = outputs
               /\ Refusal(t) # "none" /\ answer' = [answer EXCEPT ![t] = Refusal(t)]
            \/ /\ Refusal(t) = "none" /\ answer' = answer
               /\ outputs' = [outputs EXCEPT ![t] =
                                [i \in DOMAIN shard[t] |-> Fill(shape[t].bytes, 0)]]
               /\ \/ Go(t, build_decode_plan(shape[t], Present(t)))
                  \/ /\ phase' = [phase EXCEPT ![t] = "build"] /\ held' = held /\ jobs' = jobs
<1> DEFINE key == PlanKey(shape[t], Present(t))
<1>1. /\ phase[t] = "idle" /\ answer[t] = "none" /\ shard[t] # <<>>
      /\ shape' = shape /\ shard' = shard /\ flat_work' = flat_work /\ areas' = areas
      /\ calls' = calls
  BY DEF BeginReconstruct
<1>2. \/ /\ phase' = phase /\ held' = held /\ jobs' = jobs /\ outputs' = outputs
         /\ Refusal(t) # "none" /\ answer' = [answer EXCEPT ![t] = Refusal(t)]
      \/ /\ Refusal(t) = "none" /\ answer' = answer
         /\ outputs' = [outputs EXCEPT ![t] =
                          [i \in DOMAIN shard[t] |-> Fill(shape[t].bytes, 0)]]
         /\ \/ /\ Lru!Holds(plan_cache, key)
               /\ Go(t, Lru!Lookup(plan_cache, key))
            \/ /\ phase' = [phase EXCEPT ![t] = "build"] /\ held' = held /\ jobs' = jobs
  BY Zenon DEF BeginReconstruct, Refusal
<1>3. Lru!Holds(plan_cache, key) =>
        Lru!Lookup(plan_cache, key) = build_decode_plan(shape[t], Present(t))
  <2>1. shape[t] \in Shapes /\ plan_cache \in Seq(PlanEntries)
    BY <1>1 DEF TypedInv, PlanInv, ContainersHaveShapes, CacheIsOfPlans
  <2> QED
    BY <2>1, FoundIsOwn
<1> HIDE DEF key
<1> QED
  BY <1>1, <1>2, <1>3

\* A call that goes on has shards enough.
LEMMA GoesOn ==
  ASSUME NEW t \in Threads, ThreadIsTyped(t), shard[t] # <<>>, Refusal(t) = "none"
  PROVE  Decodable(shape[t]) /\ Cardinality(Present(t)) >= shape[t].d
<1>1. Decodable(shape[t]) /\ ~(Cardinality(Present(t)) < shape[t].d)
  BY DEF Refusal
<1>2. shape[t] \in Shapes /\ shard[t] \in Containers(shape[t])
  BY DEF ThreadIsTyped
<1>3. shape[t].d \in Nat /\ shape[t].p \in Nat
  BY <1>2, ShapeDims
<1>4. Present(t) \subseteq Lanes(Total(shape[t]))
  BY <1>2 DEF Present, Containers
<1>5. IsFiniteSet(Lanes(Total(shape[t])))
  <2>1. 0 \in Int /\ Total(shape[t]) - 1 \in Int
    BY <1>3 DEF Total
  <2> QED
    BY <2>1, FS_Interval DEF Lanes
<1>6. Cardinality(Present(t)) \in Nat
  BY <1>4, <1>5, FS_Subset, FS_CardinalityType
<1> QED
  BY <1>1, <1>3, <1>6

LEMMA GoKeepsTypes ==
  ASSUME TypedInv, NEW t \in Threads, PlanInv', shape' = shape, shard' = shard,
         flat_work' = flat_work, areas' = areas, answer' = answer, calls' = calls,
         shard[t] # <<>>, Decodable(shape[t]), Cardinality(Present(t)) >= shape[t].d,
         DOMAIN outputs' = Threads, outputs'[t] \in Outputs(shape[t]),
         \A u \in Threads \ {t} : outputs'[u] = outputs[u],
         Go(t, build_decode_plan(shape[t], Present(t)))
  PROVE  TypedInv' /\ \A u \in Threads \ {t} : Still(u)
<1> DEFINE starts == {k \in 0 .. Elements(shape[t]) - 1 : k % WORK_SIZE16 = 0}
           plan == build_decode_plan(shape[t], Present(t))
<1>1. /\ phase' = [phase EXCEPT ![t] = "chunks"] /\ held' = [held EXCEPT ![t] = plan]
      /\ jobs' = [jobs EXCEPT ![t] = starts]
  BY DEF Go
<1>2. ThreadIsTyped(t) /\ PlanInv /\ AllThreads
  BY DEF TypedInv
<1>3. plan # NoPlan
  BY PlanIsThere
<1>4. shape[t] \in Shapes /\ Encodable(shape[t])
  BY <1>2 DEF ThreadIsTyped
<1>5. \A from \in starts : IsStart(shape[t], from)
  BY <1>4, StartsAre DEF Encodable
<1> HIDE DEF starts, plan
<1>6. AllThreads'
  BY <1>1, <1>2 DEF AllThreads, PlanInv
<1>7. (calls \in 0 .. MaxCalls)'
  BY DEF TypedInv
<1>8. /\ phase'[t] = "chunks" /\ shape'[t] = shape[t] /\ held'[t] = plan
      /\ jobs'[t] = starts /\ areas'[t] = areas[t] /\ flat_work'[t] = flat_work[t]
      /\ shard'[t] = shard[t] /\ answer'[t] = answer[t] /\ Present(t)' = Present(t)
  BY <1>1, <1>2 DEF AllThreads, PerThread, Present
<1>9. ThreadIsTyped(t)'
  BY <1>2, <1>3, <1>5, <1>8 DEF ThreadIsTyped
<1>10. ASSUME NEW u \in Threads \ {t}
       PROVE  Still(u)
  BY <1>1, <1>2 DEF AllThreads, PerThread, Still, Untouched
<1> QED
  BY <1>6, <1>7, <1>9, <1>10, OneThreadTyped

\* The buffers of a call begin as zeros.
LEMMA BuffersAre ==
  ASSUME NEW t \in Threads, ThreadIsTyped(t), shard[t] # <<>>
  PROVE  [i \in DOMAIN shard[t] |-> Fill(shape[t].bytes, 0)] \in Outputs(shape[t])
<1>1. shape[t] \in Shapes /\ DOMAIN shard[t] = Lanes(Total(shape[t]))
  BY DEF ThreadIsTyped, Containers
<1>2. 0 \in Bytes
  <2>1. 0 \in Nat /\ 0 < HalfOrder
    BY HalfOrders
  <2> QED
    BY <2>1, HalfOrders
<1>3. Fill(shape[t].bytes, 0) \in BytesOf(shape[t])
  BY <1>2 DEF Fill, BytesOf
<1> QED
  BY <1>1, <1>3 DEF Outputs

LEMMA RefusalsAreAnswers ==
  ASSUME NEW t
  PROVE  Refusal(t) \in Answers
BY DEF Refusal, Answers

LEMMA BeginKeepsTypes ==
  ASSUME TypedInv, NEW t \in Threads, BeginReconstruct(t)
  PROVE  TypedInv' /\ \A u \in Threads \ {t} : Still(u)
<1>1. /\ phase[t] = "idle" /\ shard[t] # <<>>
      /\ shape' = shape /\ shard' = shard /\ flat_work' = flat_work /\ areas' = areas
      /\ calls' = calls
  BY BeginStep
<1>2. ThreadIsTyped(t) /\ PlanInv /\ AllThreads
  BY DEF TypedInv
<1>3. PlanInv'
  BY <1>2, BeginReconstructKeeps
<1>4. (calls \in 0 .. MaxCalls)'
  BY <1>1 DEF TypedInv
<1>5. CASE /\ phase' = phase /\ held' = held /\ jobs' = jobs /\ outputs' = outputs
           /\ Refusal(t) # "none" /\ answer' = [answer EXCEPT ![t] = Refusal(t)]
  <2>1. AllThreads'
    BY <1>1, <1>2, <1>3, <1>5 DEF AllThreads, PlanInv
  <2>2. answer'[t] = Refusal(t) /\ Refusal(t) \in Answers
    BY <1>2, <1>5, RefusalsAreAnswers DEF AllThreads
  <2>3. ThreadIsTyped(t)'
    BY <1>1, <1>2, <1>5, <2>2 DEF ThreadIsTyped
  <2>4. ASSUME NEW u \in Threads \ {t}
        PROVE  Still(u)
    BY <1>1, <1>2, <1>5 DEF AllThreads, PerThread, Still, Untouched
  <2> QED
    BY <1>3, <1>4, <2>1, <2>3, <2>4, OneThreadTyped
<1>6. CASE /\ Refusal(t) = "none" /\ answer' = answer
           /\ outputs' = [outputs EXCEPT ![t] =
                            [i \in DOMAIN shard[t] |-> Fill(shape[t].bytes, 0)]]
           /\ \/ Go(t, build_decode_plan(shape[t], Present(t)))
              \/ /\ phase' = [phase EXCEPT ![t] = "build"] /\ held' = held /\ jobs' = jobs
  <2> DEFINE buffers == [i \in DOMAIN shard[t] |-> Fill(shape[t].bytes, 0)]
  <2>1. buffers \in Outputs(shape[t])
    BY <1>1, <1>2, BuffersAre
  <2>2. outputs' = [outputs EXCEPT ![t] = buffers]
    BY <1>6
  <2> HIDE DEF buffers
  <2>3. Decodable(shape[t]) /\ Cardinality(Present(t)) >= shape[t].d
    BY <1>1, <1>2, <1>6, GoesOn
  <2>4. /\ DOMAIN outputs' = Threads /\ outputs'[t] = buffers
        /\ \A u \in Threads \ {t} : outputs'[u] = outputs[u]
    BY <1>2, <2>2 DEF AllThreads
  <2>5. CASE Go(t, build_decode_plan(shape[t], Present(t)))
    BY <1>1, <1>3, <1>6, <2>1, <2>3, <2>4, <2>5, GoKeepsTypes
  <2>6. CASE /\ phase' = [phase EXCEPT ![t] = "build"] /\ held' = held /\ jobs' = jobs
    <3>1. AllThreads'
      BY <1>1, <1>2, <1>3, <1>6, <2>4, <2>6 DEF AllThreads, PlanInv
    <3>2. phase'[t] = "build" /\ Present(t)' = Present(t)
      BY <1>1, <1>2, <2>6 DEF AllThreads, PerThread, Present
    <3>3. ThreadIsTyped(t)'
      BY <1>1, <1>2, <1>6, <2>1, <2>3, <2>4, <2>6, <3>2 DEF ThreadIsTyped
    <3>4. ASSUME NEW u \in Threads \ {t}
          PROVE  Still(u)
      BY <1>1, <1>2, <1>6, <2>4, <2>6 DEF AllThreads, PerThread, Still, Untouched
    <3> QED
      BY <1>3, <1>4, <3>1, <3>3, <3>4, OneThreadTyped
  <2> QED
    BY <1>6, <2>5, <2>6
<1> QED
  BY <1>5, <1>6, BeginStep

LEMMA BuildKeepsTypes ==
  ASSUME TypedInv, NEW t \in Threads, BuildAndInsert(t)
  PROVE  TypedInv' /\ \A u \in Threads \ {t} : Still(u)
<1>1. /\ phase[t] = "build" /\ Go(t, build_decode_plan(shape[t], Present(t)))
      /\ shape' = shape /\ shard' = shard /\ flat_work' = flat_work /\ areas' = areas
      /\ answer' = answer /\ calls' = calls /\ outputs' = outputs
  BY DEF BuildAndInsert
<1>2. ThreadIsTyped(t) /\ PlanInv /\ AllThreads
  BY DEF TypedInv
<1>3. /\ shard[t] # <<>> /\ Decodable(shape[t]) /\ Cardinality(Present(t)) >= shape[t].d
      /\ outputs[t] \in Outputs(shape[t])
  BY <1>1, <1>2 DEF ThreadIsTyped
<1>4. PlanInv'
  BY <1>2, BuildAndInsertKeeps
<1>5. DOMAIN outputs' = Threads
  BY <1>1, <1>2 DEF AllThreads
<1> QED
  BY <1>1, <1>3, <1>4, <1>5, GoKeepsTypes

LEMMA FinishKeepsTypes ==
  ASSUME TypedInv, NEW t \in Threads, Finish(t)
  PROVE  TypedInv' /\ \A u \in Threads \ {t} : Still(u)
<1>1. /\ phase[t] = "chunks" /\ jobs[t] = {}
      /\ phase' = [phase EXCEPT ![t] = "idle"] /\ held' = [held EXCEPT ![t] = NoPlan]
      /\ areas' = [areas EXCEPT ![t] = [w \in Workers |-> NoWork]]
      /\ answer' = [answer EXCEPT ![t] = "ok"]
      /\ shape' = shape /\ flat_work' = flat_work /\ jobs' = jobs /\ outputs' = outputs
      /\ calls' = calls
  BY DEF Finish
<1>2. ThreadIsTyped(t) /\ PlanInv /\ AllThreads
  BY DEF TypedInv
<1> DEFINE whole == [i \in DOMAIN shard[t] |->
                       IF i \in Present(t) THEN shard[t][i] ELSE outputs[t][i]]
<1>3. shard' = [shard EXCEPT ![t] = whole]
  BY <1>2 DEF Finish, PlanInv, PerThread
<1>4. whole \in Containers(shape[t])
  <2>1. shard[t] \in Containers(shape[t]) /\ outputs[t] \in Outputs(shape[t])
    BY <1>1, <1>2 DEF ThreadIsTyped
  <2> QED
    BY <2>1 DEF Containers, Outputs
<1> HIDE DEF whole
<1>5. PlanInv'
  BY <1>2, FinishKeeps
<1>6. AllThreads'
  BY <1>1, <1>2, <1>5 DEF AllThreads, PlanInv
<1>7. (calls \in 0 .. MaxCalls)'
  BY <1>1 DEF TypedInv
<1>8. /\ phase'[t] = "idle" /\ shape'[t] = shape[t] /\ held'[t] = NoPlan
      /\ jobs'[t] = {} /\ areas'[t] = [w \in Workers |-> NoWork] /\ flat_work'[t] = flat_work[t]
      /\ shard'[t] = whole /\ answer'[t] = "ok" /\ outputs'[t] = outputs[t]
  BY <1>1, <1>2, <1>3 DEF AllThreads, PerThread
<1>9. shape[t] \in Shapes /\ Encodable(shape[t])
  BY <1>1, <1>2 DEF ThreadIsTyped
<1>10. ThreadIsTyped(t)'
  BY <1>2, <1>4, <1>8, <1>9 DEF ThreadIsTyped, Answers
<1>11. ASSUME NEW u \in Threads \ {t}
       PROVE  Still(u)
  BY <1>1, <1>2, <1>3 DEF AllThreads, PerThread, Still, Untouched
<1> QED
  BY <1>5, <1>6, <1>7, <1>10, <1>11, OneThreadTyped

\* What a worker leaves in its work area and in the buffers.
CallAt(t, from) == CallOf(shape[t], Present(t), shard[t], from)
AreaAt(t, worker) ==
  IF areas[t][worker] = NoWork THEN ZeroWork(N(shape[t]), LaneLen(shape[t]))
  ELSE areas[t][worker]
LeftBy(t, worker, from) == ChunkOf(CallAt(t, from), AreaAt(t, worker))
BytesBy(t, worker, from, i) ==
  work_u16_to_user_bytes(ReadOut(CallAt(t, from), LeftBy(t, worker, from), i))
BuffersAfter(t, worker, from) ==
  [i \in DOMAIN outputs[t] |->
     IF i \in Present(t) THEN outputs[t][i]
     ELSE Written(shape[t], from, ChunkEnd(shape[t], from), outputs[t][i],
                  BytesBy(t, worker, from, i))]

LEMMA JobStep ==
  ASSUME TypedInv, NEW t \in Threads, NEW worker \in Workers, NEW from,
         ChunkJob(t, worker, from)
  PROVE  /\ phase[t] = "chunks" /\ from \in jobs[t]
         /\ jobs' = [jobs EXCEPT ![t] = jobs[t] \ {from}]
         /\ areas' = [areas EXCEPT ![t][worker] = LeftBy(t, worker, from)]
         /\ outputs' = [outputs EXCEPT ![t] = BuffersAfter(t, worker, from)]
         /\ phase' = phase /\ shape' = shape /\ shard' = shard /\ answer' = answer
         /\ flat_work' = flat_work /\ plan_cache' = plan_cache /\ held' = held /\ calls' = calls
<1>1. /\ phase[t] = "chunks" /\ from \in jobs[t]
      /\ phase' = phase /\ shape' = shape /\ shard' = shard /\ answer' = answer
      /\ flat_work' = flat_work /\ plan_cache' = plan_cache /\ held' = held /\ calls' = calls
  BY DEF ChunkJob
<1>2. AllThreads /\ PlanInv /\ ThreadIsTyped(t)
  BY DEF TypedInv
<1>3. jobs' = [jobs EXCEPT ![t] = jobs[t] \ {from}]
  BY <1>2 DEF ChunkJob, AllThreads
<1>4. held[t] = PlanOf(CallAt(t, from))
  <2>1. held[t] # NoPlan
    BY <1>1, <1>2 DEF ThreadIsTyped
  <2>2. held[t] = build_decode_plan(shape[t], Present(t))
    BY <1>2, <2>1 DEF PlanInv, PlanIsOfTheCall
  <2> QED
    BY <2>2 DEF PlanOf, CallAt, CallOf
<1> DEFINE to == ChunkEnd(shape[t], from)
           bare == compute_reconstruct_chunk(shape[t], ElementsIn(shard[t]), held[t],
                                             AreaAt(t, worker), from, to)
           read(left, i) == LaneMul(SubSeq(left[Lane(shape[t], i)], 1, to - from),
                                    Modulus - held[t].err_locs[Lane(shape[t], i)])
           after(left) ==
             [i \in DOMAIN outputs[t] |->
                IF i \in Present(t) THEN outputs[t][i]
                ELSE SubSeq(outputs[t][i], 1, 2 * from) \o work_u16_to_user_bytes(read(left, i))
                       \o SubSeq(outputs[t][i], 2 * to + 1, shape[t].bytes)]
<1>5. \E left \in {bare} :
        /\ areas' = [areas EXCEPT ![t][worker] = left]
        /\ outputs' = [outputs EXCEPT ![t] = after(left)]
  BY Zenon DEF ChunkJob, AreaAt, ElementsIn
<1>6. bare = LeftBy(t, worker, from)
  BY <1>4 DEF LeftBy, ChunkOf, CallAt, CallOf
<1>7. ASSUME NEW i
      PROVE  read(bare, i) = ReadOut(CallAt(t, from), LeftBy(t, worker, from), i)
  <2> DEFINE k == CallAt(t, from)
  <2>1. k.s = shape[t] /\ k.from = from /\ k.to = to
    BY DEF CallAt, CallOf
  <2> HIDE DEF k, bare
  <2> QED
    BY <1>4, <1>6, <2>1 DEF ReadOut, k
<1> HIDE DEF bare, read
<1>8. after(bare) = BuffersAfter(t, worker, from)
  BY <1>7 DEF BuffersAfter, Written, BytesBy
<1> HIDE DEF after
<1>9. /\ areas' = [areas EXCEPT ![t][worker] = bare]
      /\ outputs' = [outputs EXCEPT ![t] = after(bare)]
  BY <1>5
<1> QED
  BY <1>1, <1>3, <1>6, <1>8, <1>9

\* Whatever the work area holds, the missing shards are read as from a fresh one.
LEMMA JobIs ==
  ASSUME NEW t \in Threads, ThreadIsTyped(t), phase[t] = "chunks", NEW worker \in Workers,
         NEW from \in jobs[t]
  PROVE  /\ IsCall(CallAt(t, from)) /\ IsStart(shape[t], from)
         /\ LeftBy(t, worker, from) \in CallAreas(shape[t])
         /\ BuffersAfter(t, worker, from) \in Outputs(shape[t])
         /\ \A i \in Lanes(Total(shape[t])) \ Present(t) :
              /\ \A c \in 1 .. ChunkEnd(shape[t], from) - from :
                   ElementOf(BuffersAfter(t, worker, from)[i], from + c)
                     = ReadOut(CallAt(t, from),
                               ChunkOf(CallAt(t, from), ZeroWork(N(shape[t]), LaneLen(shape[t]))),
                               i)[c]
              /\ \A e \in 1 .. Elements(shape[t]) : StartOf(e) # from =>
                   ElementOf(BuffersAfter(t, worker, from)[i], e) = ElementOf(outputs[t][i], e)
<1> DEFINE s == shape[t]
           k == CallAt(t, from)
           v == AreaAt(t, worker)
           to == ChunkEnd(s, from)
           out == outputs[t]
           shards == shard[t]
           present == Present(t)
           fresh(i) == ReadOut(k, ChunkOf(k, ZeroWork(N(s), LaneLen(s))), i)
           after == BuffersAfter(t, worker, from)
<1>1. /\ s \in Shapes /\ Decodable(s) /\ shards \in Containers(s) /\ out \in Outputs(s)
      /\ IsStart(s, from)
  BY DEF ThreadIsTyped
<1>2. ShardLenFits(s)
  BY <1>1 DEF Decodable
<1>3. present \subseteq Lanes(Total(s))
  BY <1>1 DEF Present, Containers
<1>4. k.s = s /\ k.from = from /\ k.to = to /\ k = CallOf(s, present, shards, from)
  BY DEF CallAt, CallOf
<1>5. v \in CallAreas(s)
  <2>1. 0 \in Element
    BY Orders
  <2>2. areas[t][worker] # NoWork => areas[t][worker] \in CallAreas(s)
    BY DEF ThreadIsTyped
  <2> QED
    BY <2>1, <2>2 DEF AreaAt, ZeroWork, Fill, CallAreas
<1>6. after = [i \in DOMAIN out |-> IF i \in present THEN out[i]
                 ELSE Written(s, from, to, out[i],
                              work_u16_to_user_bytes(ReadOut(k, ChunkOf(k, v), i)))]
  BY DEF BuffersAfter, BytesBy, LeftBy
<1>7. LeftBy(t, worker, from) = ChunkOf(k, v)
  BY DEF LeftBy
<1> HIDE DEF s, k, v, to, out, shards, present, fresh, after
<1>8. IsCall(k)
  BY <1>1, <1>3, <1>4, CallIs
<1>9. IsChunk(s, from, to) /\ Between(from) /\ Between(to) /\ Between(to - from)
  BY <1>1, <1>2, ChunkBounds DEF to
<1>10. from <= to /\ to <= Elements(s) /\ from \in Nat /\ to \in Nat
  BY <1>9 DEF IsChunk
<1>11. ChunkOf(k, v) \in CallAreas(s)
  <2>1. 0 \in Lanes(Total(s)) /\ v \in CallAreas(k.s)
    BY <1>1, <1>2, <1>4, <1>5, ContainersAre DEF Lanes, Total
  <2> QED
    BY <1>4, <1>8, <2>1, ReadOutIs
<1>12. ASSUME NEW i \in Lanes(Total(s))
       PROVE  LET x == ReadOut(k, ChunkOf(k, v), i)
                  y == Written(s, from, to, out[i], work_u16_to_user_bytes(x))
              IN /\ x = fresh(i) /\ y \in BytesOf(s)
                 /\ \A c \in 1 .. to - from : ElementOf(y, from + c) = x[c]
                 /\ \A e \in 1 .. Elements(s) : StartOf(e) # from =>
                      ElementOf(y, e) = ElementOf(out[i], e)
  <2> DEFINE x == ReadOut(k, ChunkOf(k, v), i)
             bytes == work_u16_to_user_bytes(x)
             y == Written(s, from, to, out[i], bytes)
  <2>1. v \in CallAreas(k.s) /\ i \in Lanes(Total(k.s))
    BY <1>4, <1>5
  <2>2. x \in [1 .. to - from -> Element] /\ x = fresh(i)
    BY <1>4, <1>8, <2>1, ReadOutIs DEF fresh
  <2> HIDE DEF x
  <2>3. PICK n : n = to - from
    OBVIOUS
  <2>4. Between(n) /\ x \in [1 .. n -> Element]
    BY <1>9, <2>2, <2>3
  <2>5. /\ bytes \in [1 .. 2 * n -> Bytes]
        /\ \A e \in 1 .. n : ElementOf(bytes, e) = x[e]
    BY <2>4, FromWorkIs
  <2> HIDE DEF bytes
  <2>6. bytes \in [1 .. 2 * (to - from) -> Bytes] /\ out[i] \in BytesOf(s)
    BY <1>1, <2>3, <2>5 DEF Outputs
  <2>7. PICK o : o = out[i]
    OBVIOUS
  <2>8. /\ y \in BytesOf(s)
        /\ \A e \in from + 1 .. to : ElementOf(y, e) = ElementOf(bytes, e - from)
        /\ \A e \in 1 .. Elements(s) : e \notin from + 1 .. to => ElementOf(y, e) = ElementOf(o, e)
    BY <1>1, <1>2, <1>9, <1>10, <2>6, <2>7, WrittenIs
  <2> HIDE DEF y
  <2>9. ASSUME NEW c \in 1 .. to - from
        PROVE  ElementOf(y, from + c) = x[c]
    <3>1. PICK e : e = from + c
      OBVIOUS
    <3>2. e \in from + 1 .. to /\ e - from = c /\ c \in 1 .. n
      BY <1>10, <2>3, <3>1
    <3> QED
      BY <2>5, <2>8, <3>1, <3>2
  <2>10. ASSUME NEW e \in 1 .. Elements(s), StartOf(e) # from
         PROVE  ElementOf(y, e) = ElementOf(out[i], e)
    <3>1. e \notin from + 1 .. to
      BY <1>1, <1>2, <2>10, ChunkOfElement DEF to
    <3> QED
      BY <2>7, <2>8, <3>1
  <2> QED
    BY <2>2, <2>8, <2>9, <2>10 DEF x, y, bytes
<1>13. DOMAIN out = Lanes(Total(s)) /\ \A i \in Lanes(Total(s)) : out[i] \in BytesOf(s)
  BY <1>1 DEF Outputs
<1>14. after \in Outputs(s)
  BY <1>6, <1>12, <1>13 DEF Outputs
<1>15. ASSUME NEW i \in Lanes(Total(s)) \ present
       PROVE  /\ \A c \in 1 .. to - from : ElementOf(after[i], from + c) = fresh(i)[c]
              /\ \A e \in 1 .. Elements(s) : StartOf(e) # from =>
                   ElementOf(after[i], e) = ElementOf(out[i], e)
  <2>1. after[i] = Written(s, from, to, out[i], work_u16_to_user_bytes(ReadOut(k, ChunkOf(k, v), i)))
    BY <1>6, <1>13
  <2> QED
    BY <1>12, <2>1
<1> QED
  BY <1>1, <1>7, <1>8, <1>11, <1>14, <1>15 DEF s, k, v, to, out, present, fresh, after

LEMMA JobKeepsTypes ==
  ASSUME TypedInv, NEW t \in Threads, NEW worker \in Workers, NEW from \in jobs[t],
         ChunkJob(t, worker, from)
  PROVE  TypedInv' /\ \A u \in Threads \ {t} : Still(u)
<1> DEFINE left == LeftBy(t, worker, from)
           after == BuffersAfter(t, worker, from)
<1>1. /\ phase[t] = "chunks"
      /\ jobs' = [jobs EXCEPT ![t] = jobs[t] \ {from}]
      /\ areas' = [areas EXCEPT ![t][worker] = left]
      /\ outputs' = [outputs EXCEPT ![t] = after]
      /\ phase' = phase /\ shape' = shape /\ shard' = shard /\ answer' = answer
      /\ flat_work' = flat_work /\ plan_cache' = plan_cache /\ held' = held /\ calls' = calls
  BY JobStep
<1>2. ThreadIsTyped(t) /\ PlanInv /\ AllThreads
  BY DEF TypedInv
<1>3. left \in CallAreas(shape[t]) /\ after \in Outputs(shape[t])
  BY <1>1, <1>2, JobIs
<1> HIDE DEF left, after
<1>4. PlanInv'
  <2>1. Next
    BY Zenon DEF Next
  <2> QED
    BY <1>2, <2>1, PlanNext
<1>5. AllThreads'
  BY <1>1, <1>2, <1>4 DEF AllThreads, PlanInv
<1>6. (calls \in 0 .. MaxCalls)'
  BY <1>1 DEF TypedInv
<1>7. /\ phase'[t] = phase[t] /\ shape'[t] = shape[t] /\ held'[t] = held[t]
      /\ jobs'[t] = jobs[t] \ {from} /\ areas'[t][worker] = left
      /\ \A w \in Workers \ {worker} : areas'[t][w] = areas[t][w]
      /\ flat_work'[t] = flat_work[t] /\ shard'[t] = shard[t] /\ answer'[t] = answer[t]
      /\ outputs'[t] = after /\ Present(t)' = Present(t)
  BY <1>1, <1>2 DEF AllThreads, PerThread, Present
<1>8. shape[t] \in Shapes
  BY <1>1, <1>2 DEF ThreadIsTyped
<1>9. ThreadIsTyped(t)'
  <2>1. \A w \in Workers :
          areas'[t][w] # NoWork => phase'[t] = "chunks" /\ areas'[t][w] \in CallAreas(shape'[t])
    BY <1>1, <1>2, <1>3, <1>7 DEF ThreadIsTyped
  <2>2. \A k \in jobs'[t] : phase'[t] = "chunks" /\ IsStart(shape'[t], k)
    BY <1>2, <1>7 DEF ThreadIsTyped
  <2> QED
    BY <1>1, <1>2, <1>3, <1>7, <1>8, <2>1, <2>2 DEF ThreadIsTyped
<1>10. ASSUME NEW u \in Threads \ {t}
       PROVE  Still(u)
  BY <1>1, <1>2 DEF AllThreads, PerThread, Still, Untouched
<1> QED
  BY <1>4, <1>5, <1>6, <1>9, <1>10, OneThreadTyped

LEMMA TypedInit == Init => TypedInv
<1> SUFFICES ASSUME Init PROVE TypedInv
  OBVIOUS
<1>1. PlanInv
  BY PlanInit
<1>2. AllThreads
  BY <1>1 DEF Init, AllThreads, PlanInv
<1>3. calls \in 0 .. MaxCalls
  BY BlocksAssumption DEF Init
<1>4. ASSUME NEW u \in Threads
      PROVE  ThreadIsTyped(u)
  BY DEF Init, ThreadIsTyped, Answers
<1> QED
  BY <1>1, <1>2, <1>3, <1>4 DEF TypedInv

LEMMA TypedNext == TypedInv /\ [Next]_vars => TypedInv'
<1> SUFFICES ASSUME TypedInv, [Next]_vars
             PROVE  TypedInv'
  OBVIOUS
<1>1. ASSUME NEW t \in Threads, NEW s \in Shapes, Encode(t, s) PROVE TypedInv'
  BY <1>1, EncodeKeepsTypes
<1>2. ASSUME NEW t \in Threads, Lose(t) PROVE TypedInv'
  BY <1>2, LoseKeepsTypes
<1>3. ASSUME NEW t \in Threads, BeginReconstruct(t) PROVE TypedInv'
  BY <1>3, BeginKeepsTypes
<1>4. ASSUME NEW t \in Threads, BuildAndInsert(t) PROVE TypedInv'
  BY <1>4, BuildKeepsTypes
<1>5. ASSUME NEW t \in Threads, NEW worker \in Workers, NEW from \in jobs[t],
             ChunkJob(t, worker, from)
      PROVE  TypedInv'
  BY <1>5, JobKeepsTypes
<1>6. ASSUME NEW t \in Threads, Finish(t) PROVE TypedInv'
  BY <1>6, FinishKeepsTypes
<1>7. CASE UNCHANGED vars
  <2>1. PlanInv'
    BY PlanNext DEF TypedInv
  <2>2. AllThreads' /\ (calls \in 0 .. MaxCalls)'
    BY <1>7, <2>1 DEF TypedInv, AllThreads, PlanInv, vars
  <2>3. \A u \in Threads : Still(u)
    BY <1>7 DEF Still, Untouched, vars
  <2>4. \A u \in Threads : ThreadIsTyped(u)'
    BY <2>3, StillIsTyped DEF TypedInv
  <2> QED
    BY <2>1, <2>2, <2>4 DEF TypedInv
<1> QED
  BY <1>1, <1>2, <1>3, <1>4, <1>5, <1>6, <1>7, Zenon DEF Next

LEMMA TypedIsTypeOK == TypedInv => TypeOK
<1> SUFFICES ASSUME TypedInv PROVE TypeOK
  OBVIOUS
<1>1. Len(plan_cache) <= CACHE_CAPACITY /\ calls \in 0 .. MaxCalls
  BY DEF TypedInv, PlanInv, CacheIsOfPlans
<1>2. ASSUME NEW t \in Threads
      PROVE  /\ phase[t] \in {"idle", "build", "chunks"} /\ answer[t] \in Answers
             /\ \A i \in DOMAIN shard[t] : shard[t][i] \in Seq(0 .. HalfOrder - 1)
             /\ (held[t] # NoPlan) = (phase[t] = "chunks")
             /\ jobs[t] # {} => phase[t] = "chunks"
             /\ \A i \in DOMAIN outputs[t] : Len(outputs[t][i]) = shape[t].bytes
             /\ flat_work[t] # NoWork => \E s \in Shapes : flat_work[t] \in WorkAreas(s)
             /\ \A w \in Workers :
                  areas[t][w] # NoWork => phase[t] = "chunks" /\ areas[t][w] \in CallAreas(shape[t])
  <2>1. ThreadIsTyped(t)
    BY DEF TypedInv
  <2>2. ASSUME NEW i \in DOMAIN shard[t]
        PROVE  shard[t][i] \in Seq(Bytes)
    <3>1. CASE shard[t] = <<>>
      <4>1. DOMAIN shard[t] = {}
        BY <3>1
      <4> QED
        BY <4>1
    <3>2. CASE shard[t] # <<>>
      <4>1. shape[t] \in Shapes /\ Encodable(shape[t]) /\ shard[t] \in Containers(shape[t])
        BY <2>1, <3>2 DEF ThreadIsTyped
      <4>2. BytesOf(shape[t]) \subseteq Seq(Bytes)
        BY <4>1, ContainersAre DEF Encodable
      <4>3. Absent \in Seq(Bytes)
        BY EmptySeq DEF Absent
      <4> QED
        BY <4>1, <4>2, <4>3 DEF Containers
    <3> QED
      BY <3>1, <3>2
  <2>3. ASSUME NEW i \in DOMAIN outputs[t]
        PROVE  Len(outputs[t][i]) = shape[t].bytes
    <3>1. CASE outputs[t] = <<>>
      <4>1. DOMAIN outputs[t] = {}
        BY <3>1
      <4> QED
        BY <4>1
    <3>2. CASE outputs[t] # <<>>
      <4>1. shape[t] \in Shapes /\ outputs[t] \in Outputs(shape[t])
        BY <2>1, <3>2 DEF ThreadIsTyped
      <4>2. shape[t].bytes \in Nat /\ outputs[t][i] \in [1 .. shape[t].bytes -> Bytes]
        BY <4>1, ShapeDims DEF Outputs, BytesOf
      <4> QED
        BY <4>2, IsASequence
    <3> QED
      BY <3>1, <3>2
  <2>4. /\ phase[t] \in {"idle", "build", "chunks"} /\ answer[t] \in Answers
        /\ jobs[t] # {} => phase[t] = "chunks"
    BY <2>1 DEF ThreadIsTyped
  <2>5. (held[t] # NoPlan) = (phase[t] = "chunks")
    BY <2>1 DEF ThreadIsTyped
  <2>6. flat_work[t] # NoWork => \E s \in Shapes : flat_work[t] \in WorkAreas(s)
    BY <2>1 DEF ThreadIsTyped
  <2>7. \A w \in Workers :
          areas[t][w] # NoWork => phase[t] = "chunks" /\ areas[t][w] \in CallAreas(shape[t])
    BY <2>1 DEF ThreadIsTyped
  <2> QED
    BY <2>2, <2>3, <2>4, <2>5, <2>6, <2>7 DEF Bytes
<1> QED
  BY <1>1, <1>2 DEF TypeOK

\* Every thread has bytes in its container and whole shards in its buffers, and
\* a plan and chunks while a call runs and only then.  The work areas of threads and
\* workers keep the lanes of the code, with an element of the field in every column.
THEOREM TypeCorrect16 == Spec => []TypeOK
BY TypedInit, TypedNext, TypedIsTypeOK, PTL DEF Spec

----------------------------------------------------------------------------
(* The code.                                                                  *)

LEMMA CodeIs ==
  ASSUME NEW s \in Shapes, Encodable(s)
  PROVE  /\ \A i \in Lanes(Total(s)) : Code[s][i] = [e \in 1 .. Elements(s) |-> Code[s][i][e]]
         /\ \A i \in Lanes(s.d) : /\ Code[s][i] = user_bytes_to_work_u16(DataBytes(s, i))
                                  /\ \A e \in 1 .. Elements(s) :
                                       Code[s][i][e] = ElementOf(DataBytes(s, i), e)
<1> DEFINE at(i, e) == IF i < s.d THEN ElementOf(DataBytes(s, i), e)
                       ELSE ParityElement(s, Lagrange[s][i - s.d],
                              [j \in 0 .. s.d - 1 |-> ElementOf(DataBytes(s, j), e)])
<1>1. s \in DOMAIN EncodePlan16
  BY DEF EncodePlan16
<1>2. Code[s] = [i \in Lanes(Total(s)) |-> [e \in 1 .. Elements(s) |-> at(i, e)]]
  BY <1>1, Zenon DEF Code
<1>3. \A i, e : i < s.d => at(i, e) = ElementOf(DataBytes(s, i), e)
  OBVIOUS
<1> HIDE DEF at
<1>4. ASSUME NEW i \in Lanes(Total(s))
      PROVE  Code[s][i] = [e \in 1 .. Elements(s) |-> Code[s][i][e]]
  BY <1>2
<1>5. ASSUME NEW i \in Lanes(s.d)
      PROVE  /\ Code[s][i] = user_bytes_to_work_u16(DataBytes(s, i))
             /\ \A e \in 1 .. Elements(s) : Code[s][i][e] = ElementOf(DataBytes(s, i), e)
  <2>1. s.d \in Nat /\ s.p \in Nat
    BY ShapeDims
  <2>2. i < s.d /\ i \in Lanes(Total(s))
    BY <2>1 DEF Lanes, Total
  <2>3. PICK user \in BytesOf(s) : user = DataBytes(s, i)
    BY CallersBytesAre
  <2> DEFINE x == user_bytes_to_work_u16(user)
  <2>4. x \in ElementsOf(s) /\ \A e \in 1 .. Elements(s) : x[e] = ElementOf(user, e)
    BY ToWorkIs DEF Encodable
  <2> HIDE DEF x
  <2>5. x = [e \in 1 .. Elements(s) |-> x[e]]
    BY <2>4 DEF ElementsOf
  <2>6. Code[s][i] = [e \in 1 .. Elements(s) |-> at(i, e)]
    BY <1>2, <2>2
  <2>7. \A e \in 1 .. Elements(s) : at(i, e) = x[e]
    BY <1>3, <2>2, <2>3, <2>4
  <2>8. Code[s][i] = x
    BY <2>5, <2>6, <2>7
  <2> QED
    BY <2>3, <2>4, <2>8 DEF x
<1> QED
  BY <1>4, <1>5

\* The shards that an encoding fills, whatever is in the work area, are the code's.
LEMMA FilledIsOfTheCode ==
  ASSUME TransformsComputeTheCode, NEW t \in Threads, ThreadIsTyped(t),
         NEW s \in Shapes, Encodable(s)
  PROVE  \A i \in Lanes(Total(s)) : \A e \in 1 .. Elements(s) :
           IsOfTheCode(s, i, Filled(s, Encoded(t, s))[i], e)
<1> DEFINE encoded == Encoded(t, s)
           data == DataOf(s, CallersBytes(s))
           parity == encoded.parity
<1>1. s.d \in Nat /\ s.p \in Nat /\ ShardLenFits(s)
  BY ShapeDims DEF Encodable
<1>2. \A r \in Lanes(s.p) : PartlyIs(s, data, Chunks(s), parity[r], r)
  BY EncodedIs
<1>3. data = [i \in Lanes(s.d) |-> Code[s][i]]
  <2>1. data = [i \in Lanes(s.d) |-> user_bytes_to_work_u16(DataBytes(s, i))]
    BY DEF DataOf, CallersBytes
  <2> HIDE DEF data
  <2> QED
    BY <2>1, CodeIs
<1>4. EncodesTheCode(s)
  BY DEF TransformsComputeTheCode
<1> HIDE DEF encoded, data, parity
<1>5. ASSUME NEW k \in 1 .. Chunks(s), NEW r \in Lanes(s.p), NEW c \in 1 .. SizeOf(s, k)
      PROVE  FreshOf(s, data, k)[r][c] = Code[s][s.d + r][ChunkStart(k) + c]
  <2> DEFINE from == ChunkStart(k)
             size == ChunkEnd(s, from) - from
             work == EncodeChunk(s, [i \in Lanes(s.d) |-> Code[s][i]], ZeroWork(2 * M(s), size),
                                 from, ChunkEnd(s, from))
  <2>1. from \in ChunkStarts(s)
    <3>1. IsStart(s, from)
      BY <1>1, ChunksAre
    <3> HIDE DEF from
    <3> QED
      BY <1>1, <3>1, StartsAre DEF ChunkStarts
  <2>2. size = SizeOf(s, k)
    BY DEF SizeOf
  <2>3. FreshOf(s, data, k) = work
    BY <1>3 DEF FreshOf, EncodedOf, Encoding, SizeOf
  <2>4. \A q \in Lanes(s.p) : \A b \in 1 .. size : work[q][b] = Code[s][s.d + q][from + b]
    BY <1>4, <2>1, Zenon DEF EncodesTheCode
  <2> HIDE DEF work, from, size
  <2>5. work[r][c] = Code[s][s.d + r][from + c]
    BY <2>2, <2>4
  <2> QED
    BY <2>3, <2>5 DEF from
<1>6. ASSUME NEW r \in Lanes(s.p), NEW e \in 1 .. Elements(s)
      PROVE  ElementOf(parity[r], e) = Code[s][s.d + r][e]
  <2>1. PICK from : from = StartOf(e)
    OBVIOUS
  <2>2. IsStart(s, 0)
    <3>1. WORK_SIZE16 \in Nat \ {0} /\ 0 = WORK_SIZE16 * 0 /\ Elements(s) \in Nat /\ 0 < Elements(s)
      BY <1>1, BlocksAssumption, SizesAre DEF Between
    <3>2. 0 % WORK_SIZE16 = 0
      BY <3>1, MultipleIs
    <3> QED
      BY <3>1, <3>2 DEF IsStart
  <2>3. IsStart(s, from)
    BY <1>1, <2>1, <2>2, ChunkOfElement
  <2>4. e \in from + 1 .. ChunkEnd(s, from)
    BY <1>1, <2>1, <2>3, ChunkOfElement
  <2>5. PICK k \in 1 .. Chunks(s) : from = ChunkStart(k)
    BY <1>1, <2>3, ChunksAre
  <2>6. ElementOf(parity[r], e) = FreshOf(s, data, k)[r][e - from]
    <3>1. Chunks(s) \in Nat /\ k \in 1 .. Chunks(s)
      BY <1>1, ChunksAre
    <3> QED
      BY <1>2, <2>4, <2>5, <3>1 DEF PartlyIs
  <2>7. PICK c : c = e - from
    OBVIOUS
  <2>8. c \in 1 .. SizeOf(s, k) /\ from + c = e
    <3>1. IsChunk(s, from, ChunkEnd(s, from))
      BY <1>1, <2>3, ChunkBounds
    <3>2. from \in Nat /\ ChunkEnd(s, from) \in Nat
      BY <3>1 DEF IsChunk
    <3> QED
      BY <2>4, <2>5, <2>7, <3>2 DEF SizeOf
  <2> QED
    BY <1>5, <2>5, <2>6, <2>7, <2>8
<1>7. ASSUME NEW i \in Lanes(Total(s)), NEW e \in 1 .. Elements(s)
      PROVE  ElementOf(Filled(s, encoded)[i], e) = Code[s][i][e]
  <2>1. i \in Int /\ 0 <= i /\ i < s.d + s.p
    BY <1>1 DEF Lanes, Total
  <2>2. CASE i < s.d
    <3>1. i \in Lanes(s.d)
      BY <1>1, <2>1, <2>2 DEF Lanes
    <3>2. Filled(s, encoded)[i] = DataBytes(s, i)
      BY <2>2 DEF Filled
    <3> QED
      BY <3>1, <3>2, CodeIs
  <2>3. CASE ~(i < s.d)
    <3>1. PICK r \in Lanes(s.p) : i - s.d = r /\ s.d + r = i
      BY <1>1, <2>1, <2>3 DEF Lanes
    <3>2. Filled(s, encoded)[i] = parity[r]
      BY <2>3, <3>1 DEF Filled, parity
    <3> QED
      BY <1>6, <3>1, <3>2
  <2> QED
    BY <2>2, <2>3
<1> QED
  BY <1>7 DEF IsOfTheCode, encoded

\* The elements of a container whose shards are the code's.
LEMMA ElementsInAre ==
  ASSUME NEW s \in Shapes, Encodable(s), NEW shards \in Containers(s),
         \A i \in DOMAIN shards : shards[i] # Absent =>
           \A e \in 1 .. Elements(s) : IsOfTheCode(s, i, shards[i], e)
  PROVE  ElementsIn(shards)
           = [i \in Lanes(Total(s)) |->
                IF i \in {j \in DOMAIN shards : shards[j] # Absent} THEN Code[s][i] ELSE Absent]
<1>1. DOMAIN shards = Lanes(Total(s)) /\ ShardLenFits(s)
  BY DEF Containers, Encodable
<1>2. ASSUME NEW i \in Lanes(Total(s)), shards[i] # Absent
      PROVE  user_bytes_to_work_u16(shards[i]) = Code[s][i]
  <2>1. PICK user \in BytesOf(s) : user = shards[i]
    BY <1>2 DEF Containers
  <2> DEFINE x == user_bytes_to_work_u16(user)
  <2>2. x \in ElementsOf(s) /\ \A e \in 1 .. Elements(s) : x[e] = ElementOf(user, e)
    BY <1>1, ToWorkIs
  <2> HIDE DEF x
  <2>3. x = [e \in 1 .. Elements(s) |-> x[e]]
    BY <2>2 DEF ElementsOf
  <2>4. \A e \in 1 .. Elements(s) : ElementOf(user, e) = Code[s][i][e]
    BY <1>1, <1>2, <2>1 DEF IsOfTheCode
  <2>5. Code[s][i] = [e \in 1 .. Elements(s) |-> Code[s][i][e]]
    BY CodeIs
  <2>6. x = Code[s][i]
    BY <2>2, <2>3, <2>4, <2>5
  <2> QED
    BY <2>1, <2>6 DEF x
<1> QED
  BY <1>1, <1>2 DEF ElementsIn

\* What a worker reads out of its area is the code's.
LEMMA ReadOutIsOfTheCode ==
  ASSUME TransformsComputeTheCode, NEW t \in Threads, ThreadIsTyped(t), ThreadIsOfTheCode(t),
         phase[t] = "chunks", NEW from \in jobs[t], NEW i \in Lanes(Total(shape[t])) \ Present(t),
         NEW c \in 1 .. ChunkEnd(shape[t], from) - from
  PROVE  ReadOut(CallAt(t, from),
                 ChunkOf(CallAt(t, from), ZeroWork(N(shape[t]), LaneLen(shape[t]))), i)[c]
           = Code[shape[t]][i][from + c]
<1> DEFINE s == shape[t]
           present == Present(t)
           k == CallAt(t, from)
           data == [j \in Lanes(Total(s)) |-> IF j \in present THEN Code[s][j] ELSE Absent]
           size == ChunkEnd(s, from) - from
           plan == build_decode_plan(s, present)
           work == compute_reconstruct_chunk(s, data, plan, ZeroWork(N(s), LaneLen(s)),
                                             from, ChunkEnd(s, from))
<1>1. /\ s \in Shapes /\ Encodable(s) /\ Decodable(s) /\ shard[t] \in Containers(s)
      /\ Cardinality(present) >= s.d /\ IsStart(s, from)
  BY DEF ThreadIsTyped
<1>2. present \in SUBSET Lanes(Total(s))
  BY <1>1 DEF Present, Containers
<1>3. DecodesTheCode(s)
  BY <1>1 DEF TransformsComputeTheCode
<1>4. from \in ChunkStarts(s)
  BY <1>1, StartsAre DEF ChunkStarts, Encodable
<1>5. \A j \in Lanes(Total(s)) \ present : \A b \in 1 .. size :
        LaneMul(SubSeq(work[Lane(s, j)], 1, size), Modulus - plan.err_locs[Lane(s, j)])[b]
          = Code[s][j][from + b]
  BY <1>1, <1>2, <1>3, <1>4, Zenon DEF DecodesTheCode
<1>6. ElementsIn(shard[t]) = data
  <2>1. \A j \in DOMAIN shard[t] : shard[t][j] # Absent =>
          \A e \in 1 .. Elements(s) : IsOfTheCode(s, j, shard[t][j], e)
    BY DEF ThreadIsOfTheCode
  <2>2. present = {j \in DOMAIN shard[t] : shard[t][j] # Absent}
    BY DEF Present
  <2> QED
    BY <1>1, <2>1, <2>2, ElementsInAre
<1>7. k.s = s /\ k.from = from /\ k.to = ChunkEnd(s, from) /\ k.present = present /\ k.data = data
  BY <1>6 DEF CallAt, CallOf
<1>8. ChunkOf(k, ZeroWork(N(s), LaneLen(s))) = work
  BY <1>7 DEF ChunkOf, PlanOf
<1>9. ReadOut(k, work, i)
        = LaneMul(SubSeq(work[Lane(s, i)], 1, size), Modulus - plan.err_locs[Lane(s, i)])
  <2> HIDE DEF work, k, data, s, present
  <2> QED
    BY <1>7 DEF ReadOut, PlanOf
<1> HIDE DEF work, k, data, plan, size
<1>10. c \in 1 .. size
  BY DEF size
<1> QED
  BY <1>5, <1>8, <1>9, <1>10 DEF k

LEMMA EncodeKeepsCode ==
  ASSUME TransformsComputeTheCode, CodeInv, NEW t \in Threads, NEW s \in Shapes, Encode(t, s)
  PROVE  CodeInv'
<1>1. TypedInv /\ AllThreads /\ ThreadIsTyped(t)
  BY DEF CodeInv, TypedInv
<1>2. TypedInv' /\ \A u \in Threads \ {t} : Still(u)
  BY <1>1, EncodeKeepsTypes
<1>3. phase[t] = "idle" /\ phase' = phase /\ shape' = [shape EXCEPT ![t] = s]
  BY <1>1, EncodeStep
<1>4. phase'[t] = "idle" /\ shape'[t] = s
  BY <1>1, <1>3 DEF AllThreads, PerThread
<1>5. CASE Encodable(s)
  <2> DEFINE shards == Filled(s, Encoded(t, s))
  <2>1. shard' = [shard EXCEPT ![t] = shards]
    BY <1>1, <1>5, EncodeStep
  <2>2. shards \in Outputs(s)
    BY <1>1, <1>5, EncodedIs
  <2>3. \A i \in Lanes(Total(s)) : \A e \in 1 .. Elements(s) : IsOfTheCode(s, i, shards[i], e)
    BY <1>1, <1>5, FilledIsOfTheCode
  <2> HIDE DEF shards
  <2>4. shard'[t] = shards
    BY <1>1, <2>1 DEF AllThreads, PerThread
  <2>5. DOMAIN shards = Lanes(Total(s)) /\ \A i \in DOMAIN shards : shards[i] # Absent
    BY <1>5, <2>2, ContainersAre DEF Outputs, Encodable
  <2>6. ThreadIsOfTheCode(t)'
    BY <1>4, <2>3, <2>4, <2>5 DEF ThreadIsOfTheCode, IsOfTheCode
  <2> QED
    BY <1>2, <2>6, OneThreadOfTheCode
<1>6. CASE ~Encodable(s)
  <2>1. shard' = [shard EXCEPT ![t] = <<>>]
    BY <1>1, <1>6, EncodeStep
  <2>2. shard'[t] = <<>>
    BY <1>1, <2>1 DEF AllThreads, PerThread
  <2>3. DOMAIN shard'[t] = {}
    BY <2>2
  <2>4. ThreadIsOfTheCode(t)'
    BY <1>4, <2>3 DEF ThreadIsOfTheCode
  <2> QED
    BY <1>2, <2>4, OneThreadOfTheCode
<1> QED
  BY <1>5, <1>6

LEMMA LoseKeepsCode ==
  ASSUME CodeInv, NEW t \in Threads, Lose(t)
  PROVE  CodeInv'
<1>1. TypedInv /\ AllThreads /\ ThreadIsOfTheCode(t)
  BY DEF CodeInv, TypedInv
<1>2. TypedInv' /\ \A u \in Threads \ {t} : Still(u)
  BY <1>1, LoseKeepsTypes
<1>3. phase[t] = "idle" /\ phase' = phase /\ shape' = shape /\ answer' = [answer EXCEPT ![t] = "none"]
  BY DEF Lose
<1>4. PICK lost : shard' = [shard EXCEPT ![t] = [i \in DOMAIN shard[t] |->
                              IF i \in lost THEN Absent ELSE shard[t][i]]]
  BY <1>1 DEF Lose, AllThreads, PerThread
<1>5. /\ phase'[t] = "idle" /\ shape'[t] = shape[t] /\ answer'[t] = "none"
      /\ DOMAIN shard'[t] = DOMAIN shard[t]
      /\ \A i \in DOMAIN shard[t] : shard'[t][i] \in {Absent, shard[t][i]}
  BY <1>1, <1>3, <1>4 DEF AllThreads, PerThread
<1>6. ThreadIsOfTheCode(t)'
  <2>1. ASSUME NEW i \in DOMAIN shard'[t], shard'[t][i] # Absent, NEW e \in 1 .. Elements(shape'[t])
        PROVE  IsOfTheCode(shape'[t], i, shard'[t][i], e)
    BY <1>1, <1>5, <2>1 DEF ThreadIsOfTheCode
  <2> QED
    BY <1>5, <2>1 DEF ThreadIsOfTheCode, IsOfTheCode
<1> QED
  BY <1>2, <1>6, OneThreadOfTheCode

\* A step that leaves the container alone, and the buffers when chunks are done.
LEMMA ContainerKeptIsOfTheCode ==
  ASSUME NEW u, ThreadIsOfTheCode(u), shape'[u] = shape[u], shard'[u] = shard[u],
         answer'[u] = "ok" => \A i \in DOMAIN shard[u] : shard[u][i] # Absent,
         phase'[u] = "chunks" => \A i \in DOMAIN shard[u] \ Present(u) :
           \A e \in 1 .. Elements(shape[u]) :
             StartOf(e) \notin jobs'[u] => IsOfTheCode(shape[u], i, outputs'[u][i], e)
  PROVE  ThreadIsOfTheCode(u)'
<1>1. Present(u)' = Present(u)
  BY DEF Present
<1> QED
  BY <1>1 DEF ThreadIsOfTheCode, IsOfTheCode

\* No chunk is done yet.
LEMMA GoKeepsCode ==
  ASSUME NEW t \in Threads, ThreadIsTyped(t), ThreadIsOfTheCode(t), AllThreads, shard[t] # <<>>,
         shape' = shape, shard' = shard, answer' = answer,
         Go(t, build_decode_plan(shape[t], Present(t)))
  PROVE  ThreadIsOfTheCode(t)'
<1> DEFINE starts == {k \in 0 .. Elements(shape[t]) - 1 : k % WORK_SIZE16 = 0}
<1>1. jobs' = [jobs EXCEPT ![t] = starts]
  BY DEF Go
<1>2. shape[t] \in Shapes /\ ShardLenFits(shape[t])
  BY DEF ThreadIsTyped, Encodable
<1>3. ASSUME NEW e \in 1 .. Elements(shape[t])
      PROVE  StartOf(e) \in starts
  <2>1. IsStart(shape[t], 0)
    <3>1. /\ WORK_SIZE16 \in Nat \ {0} /\ 0 = WORK_SIZE16 * 0 /\ Elements(shape[t]) \in Nat
          /\ 0 < Elements(shape[t])
      BY <1>2, BlocksAssumption, SizesAre DEF Between
    <3>2. 0 % WORK_SIZE16 = 0
      BY <3>1, MultipleIs
    <3> QED
      BY <3>1, <3>2 DEF IsStart
  <2>2. IsStart(shape[t], StartOf(e))
    BY <1>2, <2>1, ChunkOfElement
  <2> QED
    BY <1>2, <2>2, StartsAre
<1> HIDE DEF starts
<1>4. jobs'[t] = starts
  BY <1>1 DEF AllThreads
<1>5. answer'[t] = "ok" => \A i \in DOMAIN shard[t] : shard[t][i] # Absent
  BY DEF ThreadIsOfTheCode
<1> QED
  BY <1>3, <1>4, <1>5, ContainerKeptIsOfTheCode

LEMMA BeginKeepsCode ==
  ASSUME CodeInv, NEW t \in Threads, BeginReconstruct(t)
  PROVE  CodeInv'
<1>1. TypedInv /\ AllThreads /\ ThreadIsOfTheCode(t) /\ ThreadIsTyped(t)
  BY DEF CodeInv, TypedInv
<1>2. TypedInv' /\ \A u \in Threads \ {t} : Still(u)
  BY <1>1, BeginKeepsTypes
<1>3. phase[t] = "idle" /\ shard[t] # <<>> /\ shape' = shape /\ shard' = shard
  BY <1>1, BeginStep
<1>4. answer[t] = "ok" => \A i \in DOMAIN shard[t] : shard[t][i] # Absent
  BY <1>1 DEF ThreadIsOfTheCode
<1>5. CASE phase' = phase /\ answer' = [answer EXCEPT ![t] = Refusal(t)]
  <2>1. Refusal(t) = "ok" => Present(t) = DOMAIN shard[t]
    BY DEF Refusal
  <2>2. answer'[t] = "ok" => \A i \in DOMAIN shard[t] : shard[t][i] # Absent
    BY <1>1, <1>5, <2>1 DEF AllThreads, Present
  <2>3. ThreadIsOfTheCode(t)'
    BY <1>1, <1>3, <1>5, <2>2, ContainerKeptIsOfTheCode
  <2> QED
    BY <1>2, <2>3, OneThreadOfTheCode
<1>6. CASE answer' = answer /\ Go(t, build_decode_plan(shape[t], Present(t)))
  <2>1. ThreadIsOfTheCode(t)'
    BY <1>1, <1>3, <1>6, GoKeepsCode
  <2> QED
    BY <1>2, <2>1, OneThreadOfTheCode
<1>7. CASE answer' = answer /\ phase' = [phase EXCEPT ![t] = "build"]
  <2>1. phase'[t] # "chunks"
    BY <1>1, <1>7 DEF AllThreads, PerThread
  <2>2. ThreadIsOfTheCode(t)'
    BY <1>1, <1>3, <1>4, <1>7, <2>1, ContainerKeptIsOfTheCode
  <2> QED
    BY <1>2, <2>2, OneThreadOfTheCode
<1> QED
  BY <1>1, <1>5, <1>6, <1>7, BeginStep

LEMMA BuildKeepsCode ==
  ASSUME CodeInv, NEW t \in Threads, BuildAndInsert(t)
  PROVE  CodeInv'
<1>1. TypedInv /\ AllThreads /\ ThreadIsOfTheCode(t) /\ ThreadIsTyped(t)
  BY DEF CodeInv, TypedInv
<1>2. TypedInv' /\ \A u \in Threads \ {t} : Still(u)
  BY <1>1, BuildKeepsTypes
<1>3. /\ phase[t] = "build" /\ Go(t, build_decode_plan(shape[t], Present(t)))
      /\ shape' = shape /\ shard' = shard /\ answer' = answer
  BY DEF BuildAndInsert
<1>4. shard[t] # <<>>
  BY <1>1, <1>3 DEF ThreadIsTyped
<1>5. ThreadIsOfTheCode(t)'
  BY <1>1, <1>3, <1>4, GoKeepsCode
<1> QED
  BY <1>2, <1>5, OneThreadOfTheCode

LEMMA JobKeepsCode ==
  ASSUME TransformsComputeTheCode, CodeInv, NEW t \in Threads, NEW worker \in Workers,
         NEW from \in jobs[t], ChunkJob(t, worker, from)
  PROVE  CodeInv'
<1> DEFINE after == BuffersAfter(t, worker, from)
           s == shape[t]
<1>1. TypedInv /\ AllThreads /\ ThreadIsOfTheCode(t) /\ ThreadIsTyped(t)
  BY DEF CodeInv, TypedInv
<1>2. TypedInv' /\ \A u \in Threads \ {t} : Still(u)
  BY <1>1, JobKeepsTypes
<1>3. /\ phase[t] = "chunks" /\ jobs' = [jobs EXCEPT ![t] = jobs[t] \ {from}]
      /\ outputs' = [outputs EXCEPT ![t] = after]
      /\ shape' = shape /\ shard' = shard /\ answer' = answer
  BY <1>1, JobStep
<1>4. jobs'[t] = jobs[t] \ {from} /\ outputs'[t] = after
  BY <1>1, <1>3 DEF AllThreads
<1>5. s \in Shapes /\ ShardLenFits(s) /\ DOMAIN shard[t] = Lanes(Total(s)) /\ IsStart(s, from)
  BY <1>1, <1>3 DEF ThreadIsTyped, Containers, Encodable
<1>6. ASSUME NEW i \in DOMAIN shard[t] \ Present(t), NEW e \in 1 .. Elements(s),
             StartOf(e) \notin jobs[t] \ {from}
      PROVE  IsOfTheCode(s, i, after[i], e)
  <2>1. i \in Lanes(Total(s)) \ Present(t)
    BY <1>5
  <2>2. CASE StartOf(e) = from
    <3>1. e \in from + 1 .. ChunkEnd(s, from)
      BY <1>5, <2>2, ChunkOfElement
    <3>2. IsChunk(s, from, ChunkEnd(s, from))
      BY <1>5, ChunkBounds
    <3>3. PICK c \in 1 .. ChunkEnd(s, from) - from : from + c = e
      BY <3>1, <3>2 DEF IsChunk
    <3>4. ElementOf(after[i], from + c)
            = ReadOut(CallAt(t, from),
                      ChunkOf(CallAt(t, from), ZeroWork(N(s), LaneLen(s))), i)[c]
      BY <1>1, <1>3, <2>1, JobIs
    <3>5. ReadOut(CallAt(t, from),
                  ChunkOf(CallAt(t, from), ZeroWork(N(s), LaneLen(s))), i)[c]
            = Code[s][i][from + c]
      BY <1>1, <1>3, <2>1, ReadOutIsOfTheCode
    <3> HIDE DEF after, s
    <3> QED
      BY <3>3, <3>4, <3>5 DEF IsOfTheCode
  <2>3. CASE StartOf(e) # from
    <3>1. ElementOf(after[i], e) = ElementOf(outputs[t][i], e)
      BY <1>1, <1>3, <2>1, <2>3, JobIs
    <3>2. StartOf(e) \notin jobs[t]
      BY <1>6, <2>3
    <3>3. IsOfTheCode(s, i, outputs[t][i], e)
      BY <1>1, <1>3, <3>2 DEF ThreadIsOfTheCode
    <3> HIDE DEF after, s
    <3> QED
      BY <3>1, <3>3 DEF IsOfTheCode
  <2> QED
    BY <2>2, <2>3
<1>7. answer'[t] = "ok" => \A i \in DOMAIN shard[t] : shard[t][i] # Absent
  BY <1>1, <1>3 DEF ThreadIsOfTheCode
<1> HIDE DEF after
<1>8. ThreadIsOfTheCode(t)'
  BY <1>1, <1>3, <1>4, <1>6, <1>7, ContainerKeptIsOfTheCode
<1> QED
  BY <1>2, <1>8, OneThreadOfTheCode

\* All chunks are done: what is copied into the container is the code's.
LEMMA FinishKeepsCode ==
  ASSUME CodeInv, NEW t \in Threads, Finish(t)
  PROVE  CodeInv'
<1>1. TypedInv /\ AllThreads /\ ThreadIsOfTheCode(t) /\ ThreadIsTyped(t)
  BY DEF CodeInv, TypedInv
<1>2. TypedInv' /\ \A u \in Threads \ {t} : Still(u)
  BY <1>1, FinishKeepsTypes
<1>3. /\ phase[t] = "chunks" /\ jobs[t] = {} /\ shape' = shape
      /\ phase' = [phase EXCEPT ![t] = "idle"] /\ answer' = [answer EXCEPT ![t] = "ok"]
  BY DEF Finish
<1> DEFINE whole == [i \in DOMAIN shard[t] |->
                       IF i \in Present(t) THEN shard[t][i] ELSE outputs[t][i]]
<1>4. shard' = [shard EXCEPT ![t] = whole]
  BY <1>1 DEF Finish, AllThreads, PerThread
<1>5. ASSUME NEW i \in DOMAIN shard[t]
      PROVE  /\ whole[i] # Absent
             /\ \A e \in 1 .. Elements(shape[t]) : IsOfTheCode(shape[t], i, whole[i], e)
  <2>1. CASE i \in Present(t)
    <3>1. whole[i] = shard[t][i] /\ shard[t][i] # Absent
      BY <2>1 DEF Present
    <3> HIDE DEF whole
    <3> QED
      BY <1>1, <3>1 DEF ThreadIsOfTheCode
  <2>2. CASE i \notin Present(t)
    <3>1. whole[i] = outputs[t][i]
      BY <2>2
    <3> HIDE DEF whole
    <3>2. /\ shape[t] \in Shapes /\ ShardLenFits(shape[t]) /\ outputs[t] \in Outputs(shape[t])
          /\ DOMAIN shard[t] = Lanes(Total(shape[t]))
      BY <1>1, <1>3 DEF ThreadIsTyped, Containers, Encodable
    <3>3. outputs[t][i] # Absent
      BY <3>2, ContainersAre DEF Outputs
    <3>4. \A e \in 1 .. Elements(shape[t]) : IsOfTheCode(shape[t], i, outputs[t][i], e)
      BY <1>1, <1>3, <2>2 DEF ThreadIsOfTheCode
    <3> QED
      BY <3>1, <3>3, <3>4
  <2> QED
    BY <2>1, <2>2
<1>6. DOMAIN whole = DOMAIN shard[t]
  OBVIOUS
<1> HIDE DEF whole
<1>7. phase'[t] = "idle" /\ shape'[t] = shape[t] /\ shard'[t] = whole
  BY <1>1, <1>3, <1>4 DEF AllThreads, PerThread
<1>8. ThreadIsOfTheCode(t)'
  BY <1>5, <1>6, <1>7 DEF ThreadIsOfTheCode, IsOfTheCode
<1> QED
  BY <1>2, <1>8, OneThreadOfTheCode

LEMMA CodeInit == Init => CodeInv
<1> SUFFICES ASSUME Init PROVE CodeInv
  OBVIOUS
<1>1. TypedInv
  BY TypedInit
<1>2. ASSUME NEW u \in Threads
      PROVE  ThreadIsOfTheCode(u)
  <2>1. DOMAIN shard[u] = {} /\ phase[u] = "idle"
    BY DEF Init
  <2> QED
    BY <2>1 DEF ThreadIsOfTheCode
<1> QED
  BY <1>1, <1>2 DEF CodeInv

LEMMA CodeNext ==
  ASSUME TransformsComputeTheCode
  PROVE  CodeInv /\ [Next]_vars => CodeInv'
<1> SUFFICES ASSUME CodeInv, [Next]_vars
             PROVE  CodeInv'
  OBVIOUS
<1>1. ASSUME NEW t \in Threads, NEW s \in Shapes, Encode(t, s) PROVE CodeInv'
  BY <1>1, EncodeKeepsCode
<1>2. ASSUME NEW t \in Threads, Lose(t) PROVE CodeInv'
  BY <1>2, LoseKeepsCode
<1>3. ASSUME NEW t \in Threads, BeginReconstruct(t) PROVE CodeInv'
  BY <1>3, BeginKeepsCode
<1>4. ASSUME NEW t \in Threads, BuildAndInsert(t) PROVE CodeInv'
  BY <1>4, BuildKeepsCode
<1>5. ASSUME NEW t \in Threads, NEW worker \in Workers, NEW from \in jobs[t],
             ChunkJob(t, worker, from)
      PROVE  CodeInv'
  BY <1>5, JobKeepsCode
<1>6. ASSUME NEW t \in Threads, Finish(t) PROVE CodeInv'
  BY <1>6, FinishKeepsCode
<1>7. CASE UNCHANGED vars
  <2>1. TypedInv'
    BY TypedNext DEF CodeInv
  <2>2. \A u \in Threads : Still(u)
    BY <1>7 DEF Still, Untouched, vars
  <2>3. \A u \in Threads : ThreadIsOfTheCode(u)'
    BY <2>2, StillIsOfTheCode DEF CodeInv
  <2> QED
    BY <2>1, <2>3 DEF CodeInv
<1> QED
  BY <1>1, <1>2, <1>3, <1>4, <1>5, <1>6, <1>7, Zenon DEF Next

\* The code's transforms work on a fresh area: so the shards of a container that
\* a call has answered "ok" for are the code's, in whatever area the thread kept.
THEOREM ParityIsOfTheCode16 ==
  ASSUME TransformsComputeTheCode
  PROVE  Spec => []ParityIsOfTheCode
<1>1. CodeInv => ParityIsOfTheCode
  BY DEF CodeInv, ThreadIsOfTheCode, ParityIsOfTheCode
<1>2. CodeInv /\ [Next]_vars => CodeInv'
  BY CodeNext
<1> QED
  BY <1>1, <1>2, CodeInit, PTL DEF Spec

\* The chunks that the workers are done with, in any order and in any work area,
\* are the code's.
THEOREM RecoveredIsOfTheCode16 ==
  ASSUME TransformsComputeTheCode
  PROVE  Spec => []RecoveredIsOfTheCode
<1>1. CodeInv => RecoveredIsOfTheCode
  BY DEF CodeInv, ThreadIsOfTheCode, RecoveredIsOfTheCode, StartOf
<1>2. CodeInv /\ [Next]_vars => CodeInv'
  BY CodeNext
<1> QED
  BY <1>1, <1>2, CodeInit, PTL DEF Spec

================================================================================
