----------------------------- MODULE DecodeCache -----------------------------
(***************************************************************************)
(* ReedSolomon::get_data_decode_matrix: threads that reconstruct with one   *)
(* codec share an LRU cache of inverted sub-matrices behind a mutex. The    *)
(* matrix is inverted between two critical sections, so two threads may     *)
(* miss the same key and both insert it. Five relaxed counters, updated one *)
(* at a time, are read one at a time by reconstruction_cache_stats.         *)
(***************************************************************************)
EXTENDS Codec, LruCache

CONSTANTS
  Threads,   \* the threads that call the codec
  Patterns,  \* the sets of present shards they meet
  Capacity,  \* inversion_cache_capacity, after its normalisation (never 0)
  MaxCalls,  \* bound of the model on the calls begun
  Free       \* not a thread: nobody holds the mutex

ASSUME CacheAssumption ==
  /\ IsFiniteSet(Threads)
  /\ Free \notin Threads
  /\ Patterns \subseteq Decodable
  /\ Capacity \in Nat \ {0}
  /\ MaxCalls \in Nat

VARIABLES
  inversion_cache, \* the codec option: is the cache used at all?
  cache,           \* data_decode_matrix_cache: entries [key, rows], LRU first
  lock,            \* the thread in a critical section, or Free
  pc,              \* where each thread is in get_data_decode_matrix
  present,         \* the present shards of each thread's current call
  result,          \* the answer to each thread's last finished call
  stats,           \* ReconstructionCacheMetrics
  calls,           \* calls begun, for the bound only
  evicted,         \* history: entries the LRU bound really dropped
  snap,            \* ReconstructionCacheStats being loaded, by counter
  toLoad,          \* the counters the snapshot has still to load, in order
  quiet            \* history: no call began since the snapshot's first load

threadVars == <<pc, present, result>>
cacheVars == <<cache, lock, evicted>>
snapVars == <<snap, toLoad, quiet>>
vars == <<inversion_cache, cacheVars, threadVars, stats, calls, snapVars>>

Counters == {"requests", "hits", "misses", "inserts", "evictions"}

\* The order of the field initialisers of snapshot().
LoadOrder == <<"requests", "hits", "misses", "inserts", "evictions">>

Zero == [c \in Counters |-> 0]

\* Bug: only the missing data indices, the ones whose rows are read, as key.
KeyOfMissingData(shards) == DataIndices \ shards

\* The cache key is the list of all missing indices, parity included: with
\* it the first DataShards present indices are determined.
Key(shards) == Shards \ shards

NoAnswer == [status |-> "none", rows |-> {}]

Init ==
  /\ inversion_cache \in BOOLEAN
  /\ cache = <<>>
  /\ lock = Free
  /\ pc = [t \in Threads |-> "idle"]
  /\ present = [t \in Threads |-> {}]
  /\ result = [t \in Threads |-> NoAnswer]
  /\ stats = Zero
  /\ calls = 0
  /\ evicted = 0
  /\ snap = Zero
  /\ toLoad = <<>>
  /\ quiet = TRUE

----------------------------------------------------------------------------
(* The calling threads.                                                      *)

Goto(t, from, to) ==
  /\ pc[t] = from
  /\ pc' = [pc EXCEPT ![t] = to]

Count(counter) == stats' = [stats EXCEPT ![counter] = @ + 1]

Acquire(t) == lock = Free /\ lock' = t

\* Bug: the guard outlives the critical section.
KeepLock(t) == lock = t /\ UNCHANGED lock

Release(t) == lock = t /\ lock' = Free

Finish(t, answer) == result' = [result EXCEPT ![t] = answer]

\* A caller enters with the first DataShards present indices: the requests
\* counter moves before the mutex is taken.
Request(t) ==
  /\ calls < MaxCalls
  /\ calls' = calls + 1
  /\ \E p \in Patterns : present' = [present EXCEPT ![t] = p]
  /\ IF inversion_cache
     THEN Goto(t, "idle", "lookup") /\ Count("requests")
     ELSE Goto(t, "idle", "invert") /\ UNCHANGED stats
  /\ quiet' = FALSE
  /\ UNCHANGED <<inversion_cache, cacheVars, result, snap, toLoad>>

\* decode_idx names every row of its mask; more of them than data shards are
\* refused before anything is counted.
RefuseWideRequest(t) ==
  /\ calls < MaxCalls
  /\ calls' = calls + 1
  /\ pc[t] = "idle"
  /\ \E p \in Patterns : Cardinality(p) # DataShards
  /\ Finish(t, Failure("TooFewShardsPresent"))
  /\ UNCHANGED <<inversion_cache, cacheVars, pc, present, stats, snapVars>>

\* First critical section: get.
LookupHit(t) ==
  /\ Goto(t, "lookup", "hit")
  /\ Acquire(t)
  /\ Holds(cache, Key(present[t]))
  /\ cache' = Touch(cache, Key(present[t]))
  /\ UNCHANGED <<inversion_cache, evicted, present, result, stats, calls, snapVars>>

LookupMiss(t) ==
  /\ Goto(t, "lookup", "miss")
  /\ Acquire(t)
  /\ ~Holds(cache, Key(present[t]))
  /\ UNCHANGED <<inversion_cache, cache, evicted, present, result, stats, calls, snapVars>>

\* The entry found is cloned and returned; the guard is dropped on return.
ReturnHit(t) ==
  /\ Goto(t, "hit", "idle")
  /\ Count("hits")
  /\ Finish(t, Matrix(Lookup(cache, Key(present[t]))))
  /\ Release(t)
  /\ UNCHANGED <<inversion_cache, cache, evicted, present, calls, snapVars>>

CountMiss(t) ==
  /\ Goto(t, "miss", "invert")
  /\ Count("misses")
  /\ Release(t)
  /\ UNCHANGED <<inversion_cache, cache, evicted, present, result, calls, snapVars>>

\* Outside the mutex: the sub-matrix is inverted. A singular one ends the
\* call, and nothing is cached.
InvertFails(t) ==
  /\ Goto(t, "invert", "idle")
  /\ FirstPresent(present[t]) \in SingularRows
  /\ Finish(t, Invert(FirstPresent(present[t])))
  /\ UNCHANGED <<inversion_cache, cacheVars, present, stats, calls, snapVars>>

InvertSucceeds(t) ==
  /\ FirstPresent(present[t]) \notin SingularRows
  /\ IF inversion_cache
     THEN Goto(t, "invert", "insert") /\ UNCHANGED result
     ELSE Goto(t, "invert", "idle") /\ Finish(t, Invert(FirstPresent(present[t])))
  /\ UNCHANGED <<inversion_cache, cacheVars, present, stats, calls, snapVars>>

\* What a finished inversion leaves in the cache.
Entry(shards) == [key |-> Key(shards), rows |-> FirstPresent(shards)]

\* Bug: a plain push, neither replacing a key nor dropping an entry.
InsertMatrixUnbounded(t) ==
  /\ Goto(t, "insert", "count")
  /\ Acquire(t)
  /\ cache' = Append(cache, Entry(present[t]))
  /\ UNCHANGED <<inversion_cache, evicted, present, result, stats, calls, snapVars>>

\* Bug: the eviction is decided one entry too early.
InsertMatrixEarly(t) ==
  /\ Goto(t, "insert", IF Len(cache) + 1 >= Capacity THEN "evict" ELSE "count")
  /\ Acquire(t)
  /\ cache' = Insert(cache, Entry(present[t]), Capacity)
  /\ evicted' = IF Len(Replace(cache, Entry(present[t]))) > Capacity
                THEN evicted + 1 ELSE evicted
  /\ UNCHANGED <<inversion_cache, present, result, stats, calls, snapVars>>

\* Second critical section: the length before the insertion decides whether
\* an eviction is counted.
InsertMatrix(t) ==
  /\ Goto(t, "insert", IF Len(cache) >= Capacity THEN "evict" ELSE "count")
  /\ Acquire(t)
  /\ cache' = Insert(cache, Entry(present[t]), Capacity)
  /\ evicted' = IF Len(Replace(cache, Entry(present[t]))) > Capacity
                THEN evicted + 1 ELSE evicted
  /\ UNCHANGED <<inversion_cache, present, result, stats, calls, snapVars>>

CountEviction(t) ==
  /\ Goto(t, "evict", "count")
  /\ Count("evictions")
  /\ UNCHANGED <<inversion_cache, cacheVars, present, result, calls, snapVars>>

ReturnInserted(t) ==
  /\ Goto(t, "count", "idle")
  /\ Count("inserts")
  /\ Finish(t, Matrix(FirstPresent(present[t])))
  /\ Release(t)
  /\ UNCHANGED <<inversion_cache, cache, evicted, present, calls, snapVars>>

----------------------------------------------------------------------------
(* reconstruction_cache_stats: five loads, no lock.                          *)

BeginSnapshot ==
  /\ toLoad = <<>>
  /\ toLoad' = Tail(LoadOrder)
  /\ snap' = [Zero EXCEPT ![Head(LoadOrder)] = stats[Head(LoadOrder)]]
  /\ quiet' = TRUE
  /\ UNCHANGED <<inversion_cache, cacheVars, threadVars, stats, calls>>

LoadCounter ==
  /\ toLoad # <<>>
  /\ toLoad' = Tail(toLoad)
  /\ snap' = [snap EXCEPT ![Head(toLoad)] = stats[Head(toLoad)]]
  /\ UNCHANGED <<inversion_cache, cacheVars, threadVars, stats, calls, quiet>>

----------------------------------------------------------------------------

\* The steps of a call once begun.
Proceed(t) ==
  \/ LookupHit(t)
  \/ LookupMiss(t)
  \/ ReturnHit(t)
  \/ CountMiss(t)
  \/ InvertFails(t)
  \/ InvertSucceeds(t)
  \/ InsertMatrix(t)
  \/ CountEviction(t)
  \/ ReturnInserted(t)

Next ==
  \/ \E t \in Threads : Request(t) \/ RefuseWideRequest(t) \/ Proceed(t)
  \/ BeginSnapshot
  \/ LoadCounter

Spec == Init /\ [][Next]_vars

\* A thread that can run is eventually scheduled; nothing makes it call again.
FairSpec == Spec /\ \A t \in Threads : WF_vars(Proceed(t))

----------------------------------------------------------------------------
(* Properties.                                                               *)

Locations ==
  {"idle", "lookup", "hit", "miss", "invert", "insert", "evict", "count"}

TypeOK ==
  /\ inversion_cache \in BOOLEAN
  /\ cache \in Seq([key : SUBSET Shards, rows : SUBSET Shards])
  /\ Len(cache) <= Capacity
  /\ lock \in Threads \cup {Free}
  /\ pc \in [Threads -> Locations]
  /\ present \in [Threads -> SUBSET Shards]
  /\ result \in [Threads -> Answers \cup {NoAnswer}]
  /\ stats \in [Counters -> Nat]
  /\ calls \in 0 .. MaxCalls
  /\ evicted \in Nat
  /\ snap \in [Counters -> Nat]
  /\ toLoad \in {SubSeq(LoadOrder, i, 5) : i \in 2 .. 6}
  /\ quiet \in BOOLEAN

\* Whichever thread left it there, an entry found under a set of missing
\* shards is the inverse of the rows that a caller with that set would
\* invert itself, and a key is held once.
EntryCorrect(entry) ==
  /\ entry.rows = FirstPresent(Shards \ entry.key)
  /\ entry.rows \notin SingularRows

CacheCoherent ==
  /\ \A i \in DOMAIN cache : EntryCorrect(cache[i])
  /\ \A i, j \in DOMAIN cache : cache[i].key = cache[j].key => i = j

\* Requests are the hits, the misses and the calls still on their way: an
\* early way out loses no request and counts none twice.
RequestsAccounted ==
  inversion_cache =>
    stats["requests"] = stats["hits"] + stats["misses"]
                        + Cardinality({t \in Threads : pc[t] \in {"lookup", "hit", "miss"}})

\* The cache holds no more entries than insertions less counted evictions
\* (with the insertion made and not counted yet), and no entry is dropped
\* without an eviction counted or about to be.  More may be counted than are
\* dropped: the second of two threads that missed a key replaces the first
\* one's entry, and in a full cache that counts too.
OccupancyAccounted ==
  /\ Len(cache) <= stats["inserts"] - stats["evictions"]
                   + Cardinality({t \in Threads : pc[t] = "count"})
  /\ evicted <= stats["evictions"] + Cardinality({t \in Threads : pc[t] = "evict"})

\* The rate a snapshot reports stays a rate as long as no call began while
\* it was loaded: the requests of its hits and misses are in it.
SnapshotIsARate ==
  quiet => snap["hits"] + snap["misses"] <= snap["requests"]

\* What the five relaxed counters of ReconstructionCacheMetrics tell, while
\* several threads move them one by one and another loads them one by one:
\* the conjunction of the three above.
CountersAccounted ==
  /\ RequestsAccounted
  /\ OccupancyAccounted
  /\ SnapshotIsARate

\* The cache and its races are invisible: every answer is the one a codec
\* without a cache gives.
Service == INSTANCE DecodeMatrixService WITH
  active <- {t \in Threads : pc[t] # "idle"}

ImplementsService == Service!Spec

\* No thread waits for ever on the mutex: a call that begins ends.
CallsEnd == \A t \in Threads : pc[t] # "idle" ~> pc[t] = "idle"

=============================================================================
