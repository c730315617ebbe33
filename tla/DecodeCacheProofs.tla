--------------------------- MODULE DecodeCacheProofs ---------------------------
(***************************************************************************)
(* For every number of threads, every set of patterns, every capacity and   *)
(* every custom matrix: the cache never holds a wrong matrix, and no caller *)
(* can tell that it exists.                                                 *)
(***************************************************************************)
EXTENDS DecodeCache, SequenceTheorems, FiniteSetTheorems, TLAPS

----------------------------------------------------------------------------
(* What the LRU operations keep: the entries they return are entries they     *)
(* were given, keys stay distinct, and the capacity is respected.             *)

\* Every key is held once.
DistinctKeys(lru) ==
  \A i, j \in DOMAIN lru : lru[i].key = lru[j].key => i = j

\* Every entry of one sequence is an entry of another or a given one.
EntriesFrom(lru, old, entry) ==
  \A i \in DOMAIN lru : lru[i] = entry \/ \E j \in DOMAIN old : lru[i] = old[j]

\* Removing a position shifts the entries after it and changes none.
LEMMA WithoutEntries ==
  ASSUME NEW S, NEW lru \in Seq(S), NEW i \in 1 .. Len(lru)
  PROVE  /\ Without(lru, i) \in Seq(S)
         /\ Len(Without(lru, i)) = Len(lru) - 1
         /\ \A j \in 1 .. Len(lru) - 1 :
              Without(lru, i)[j] = IF j < i THEN lru[j] ELSE lru[j + 1]
<1> DEFINE front == SubSeq(lru, 1, i - 1)
           back == SubSeq(lru, i + 1, Len(lru))
<1>1. front \in Seq(S) /\ Len(front) = i - 1
  BY SubSeqProperties
<1>2. \A j \in 1 .. i - 1 : front[j] = lru[j]
  BY SubSeqProperties
<1>3. back \in Seq(S) /\ Len(back) = Len(lru) - i
  BY SubSeqProperties
<1>4. \A j \in 1 .. Len(lru) - i : back[j] = lru[j + i]
  BY SubSeqProperties
<1> HIDE DEF front, back
<1>5. front \o back \in Seq(S) /\ Len(front \o back) = Len(lru) - 1
  BY <1>1, <1>3, ConcatProperties, LenProperties
<1>6. \A j \in 1 .. Len(lru) - 1 :
        (front \o back)[j] = IF j < i THEN lru[j] ELSE lru[j + 1]
  <2> TAKE j \in 1 .. Len(lru) - 1
  <2>1. (front \o back)[j] = IF j <= Len(front) THEN front[j] ELSE back[j - Len(front)]
    BY <1>1, <1>3, ConcatProperties
  <2>2. CASE j < i
    BY <2>1, <2>2, <1>1, <1>2
  <2>3. CASE ~(j < i)
    <3>1. j - Len(front) = j - (i - 1) /\ j - (i - 1) \in 1 .. Len(lru) - i
      BY <1>1, <2>3
    <3>2. back[j - (i - 1)] = lru[(j - (i - 1)) + i]
      BY <3>1, <1>4
    <3>3. (j - (i - 1)) + i = j + 1
      BY <2>3
    <3> QED
      BY <2>1, <2>3, <3>1, <3>2, <3>3, <1>1
  <2> QED
    BY <2>2, <2>3
<1> QED
  BY <1>5, <1>6 DEF Without, front, back

\* Taking an entry out and appending one with the same key keeps keys
\* distinct and brings in no other entry.
LEMMA MoveToBack ==
  ASSUME NEW S, NEW lru \in Seq(S), NEW entry \in S,
         NEW i \in 1 .. Len(lru), lru[i].key = entry.key,
         DistinctKeys(lru)
  PROVE  LET moved == Append(Without(lru, i), entry) IN
         /\ moved \in Seq(S)
         /\ Len(moved) = Len(lru)
         /\ DistinctKeys(moved)
         /\ EntriesFrom(moved, lru, entry)
         /\ moved[Len(moved)] = entry
<1> DEFINE rest == Without(lru, i)
           moved == Append(rest, entry)
<1>1. /\ rest \in Seq(S)
      /\ Len(rest) = Len(lru) - 1
      /\ \A j \in 1 .. Len(lru) - 1 :
           rest[j] = IF j < i THEN lru[j] ELSE lru[j + 1]
  BY WithoutEntries
<1> HIDE DEF rest
<1>2. /\ moved \in Seq(S)
      /\ Len(moved) = Len(lru)
      /\ \A j \in 1 .. Len(lru) - 1 : moved[j] = rest[j]
      /\ moved[Len(lru)] = entry
  BY <1>1, AppendProperties
<1> HIDE DEF moved
<1> DEFINE from(j) == IF j < i THEN j ELSE j + 1
<1>3. \A j \in 1 .. Len(lru) - 1 :
        from(j) \in 1 .. Len(lru) /\ from(j) # i /\ moved[j] = lru[from(j)]
  BY <1>1, <1>2
<1>4. \A j, k \in 1 .. Len(lru) - 1 : from(j) = from(k) => j = k
  OBVIOUS
<1> HIDE DEF from
<1>5. DistinctKeys(moved)
  <2> SUFFICES ASSUME NEW j \in 1 .. Len(lru), NEW k \in 1 .. Len(lru),
                      moved[j].key = moved[k].key
               PROVE  j = k
    BY <1>2 DEF DistinctKeys
  <2>1. CASE j < Len(lru) /\ k < Len(lru)
    <3>1. lru[from(j)].key = lru[from(k)].key
      BY <2>1, <1>3
    <3>2. from(j) = from(k)
      BY <3>1, <2>1, <1>3 DEF DistinctKeys
    <3> QED
      BY <3>2, <2>1, <1>4
  <2>2. CASE j < Len(lru) /\ k = Len(lru)
    <3>1. lru[from(j)].key = lru[i].key
      BY <2>2, <1>2, <1>3
    <3> QED
      BY <3>1, <2>2, <1>3 DEF DistinctKeys
  <2>3. CASE j = Len(lru) /\ k < Len(lru)
    <3>1. lru[from(k)].key = lru[i].key
      BY <2>3, <1>2, <1>3
    <3> QED
      BY <3>1, <2>3, <1>3 DEF DistinctKeys
  <2> QED
    BY <2>1, <2>2, <2>3
<1>6. EntriesFrom(moved, lru, entry)
  BY <1>2, <1>3 DEF EntriesFrom
<1> QED
  BY <1>2, <1>5, <1>6 DEF moved, rest

\* A held key is found where Position says.
LEMMA PositionFound ==
  ASSUME NEW S, NEW lru \in Seq(S), NEW key, Holds(lru, key)
  PROVE  Position(lru, key) \in 1 .. Len(lru)
         /\ lru[Position(lru, key)].key = key
BY DEF Holds, Position

\* get keeps the entries and their number.
LEMMA TouchKeeps ==
  ASSUME NEW S, NEW lru \in Seq(S), NEW key, Holds(lru, key), DistinctKeys(lru)
  PROVE  /\ Touch(lru, key) \in Seq(S)
         /\ Len(Touch(lru, key)) = Len(lru)
         /\ DistinctKeys(Touch(lru, key))
         /\ EntriesFrom(Touch(lru, key), lru, lru[Position(lru, key)])
         /\ Holds(Touch(lru, key), key)
<1> DEFINE i == Position(lru, key)
           entry == lru[i]
<1>1. i \in 1 .. Len(lru) /\ entry.key = key
  BY PositionFound
<1>2. entry \in S
  BY <1>1, ElementOfSeq
<1> HIDE DEF i, entry
<1>3. Touch(lru, key) = Append(Without(lru, i), entry)
  BY DEF Touch, i, entry
<1>4. lru[i].key = entry.key
  BY DEF entry
<1> DEFINE moved == Append(Without(lru, i), entry)
<1>5. /\ moved \in Seq(S)
      /\ Len(moved) = Len(lru)
      /\ DistinctKeys(moved)
      /\ EntriesFrom(moved, lru, entry)
      /\ moved[Len(moved)] = entry
  BY <1>1, <1>2, <1>4, MoveToBack
<1>6. Holds(moved, key)
  BY <1>1, <1>5 DEF Holds
<1> QED
  BY <1>3, <1>5, <1>6 DEF i, entry

\* insert keeps the entries it does not drop, adds only the given one, and
\* never exceeds the capacity.
LEMMA InsertKeeps ==
  ASSUME NEW S, NEW lru \in Seq(S), NEW entry \in S, NEW capacity \in Nat \ {0},
         Len(lru) <= capacity, DistinctKeys(lru)
  PROVE  /\ Insert(lru, entry, capacity) \in Seq(S)
         /\ Len(Insert(lru, entry, capacity)) <= capacity
         /\ DistinctKeys(Insert(lru, entry, capacity))
         /\ EntriesFrom(Insert(lru, entry, capacity), lru, entry)
<1> DEFINE grown == Replace(lru, entry)
<1>1. /\ grown \in Seq(S)
      /\ Len(grown) <= capacity + 1
      /\ DistinctKeys(grown)
      /\ EntriesFrom(grown, lru, entry)
  <2>1. CASE Holds(lru, entry.key)
    <3> DEFINE i == Position(lru, entry.key)
    <3>1. i \in 1 .. Len(lru) /\ lru[i].key = entry.key
      BY <2>1, PositionFound
    <3> HIDE DEF i
    <3>2. grown = Append(Without(lru, i), entry)
      BY <2>1 DEF Replace, i
    <3> QED
      BY <3>1, <3>2, MoveToBack
  <2>2. CASE ~Holds(lru, entry.key)
    <3>1. grown = Append(lru, entry)
      BY <2>2 DEF Replace
    <3>2. /\ grown \in Seq(S)
          /\ Len(grown) = Len(lru) + 1
          /\ \A j \in 1 .. Len(lru) : grown[j] = lru[j]
          /\ grown[Len(lru) + 1] = entry
      BY <3>1, AppendProperties
    <3>3. \A j \in 1 .. Len(lru) : lru[j].key # entry.key
      BY <2>2 DEF Holds
    <3> HIDE DEF grown
    <3>4. DistinctKeys(grown)
      <4> SUFFICES ASSUME NEW j \in 1 .. Len(lru) + 1, NEW k \in 1 .. Len(lru) + 1,
                          grown[j].key = grown[k].key
                   PROVE  j = k
        BY <3>2 DEF DistinctKeys
      <4>1. CASE j <= Len(lru) /\ k <= Len(lru)
        BY <4>1, <3>2 DEF DistinctKeys
      <4>2. CASE j = Len(lru) + 1 \/ k = Len(lru) + 1
        BY <4>2, <3>2, <3>3
      <4> QED
        BY <4>1, <4>2
    <3>5. EntriesFrom(grown, lru, entry)
      BY <3>2 DEF EntriesFrom
    <3> QED
      BY <3>2, <3>4, <3>5
  <2> QED
    BY <2>1, <2>2
<1> HIDE DEF grown
<1>2. CASE Len(grown) > capacity
  <2>1. Insert(lru, entry, capacity) = Tail(grown)
    BY <1>2 DEF Insert, grown
  <2>2. grown # <<>>
    BY <1>1, <1>2
  <2> DEFINE rest == Tail(grown)
  <2>3. /\ rest \in Seq(S)
        /\ Len(rest) = Len(grown) - 1
        /\ \A j \in 1 .. Len(grown) - 1 : rest[j] = grown[j + 1]
    BY <1>1, <2>2, HeadTailProperties
  <2> HIDE DEF rest
  <2>4. DOMAIN rest = 1 .. Len(grown) - 1
    BY <2>3, LenProperties
  <2>5. \A j \in DOMAIN rest : j + 1 \in DOMAIN grown /\ rest[j] = grown[j + 1]
    BY <2>3, <2>4, <1>1, LenProperties
  <2>6. DistinctKeys(rest)
    <3> SUFFICES ASSUME NEW j \in DOMAIN rest, NEW k \in DOMAIN rest,
                        rest[j].key = rest[k].key
                 PROVE  j = k
      BY DEF DistinctKeys
    <3>1. j + 1 = k + 1
      BY <2>5, <1>1 DEF DistinctKeys
    <3> QED
      BY <3>1, <2>4
  <2>7. EntriesFrom(rest, lru, entry)
    BY <2>5, <1>1 DEF EntriesFrom
  <2> QED
    BY <2>1, <2>3, <2>6, <2>7, <1>1 DEF rest
<1>3. CASE ~(Len(grown) > capacity)
  <2>1. Insert(lru, entry, capacity) = grown
    BY <1>3 DEF Insert, grown
  <2> QED
    BY <2>1, <1>1, <1>3, LenProperties
<1> QED
  BY <1>2, <1>3

----------------------------------------------------------------------------
(* The cache of decode matrices.                                              *)

\* A thread is in a critical section exactly while it holds the mutex.
MutexHeld ==
  \A t \in Threads : pc[t] \in {"hit", "miss", "evict", "count"} <=> lock = t

\* What a thread in a call relies on from the steps it has taken: it decodes
\* from a pattern of its callers, what it found under its key is still there,
\* and what it is about to insert is an inverse.
CallState ==
  \A t \in Threads :
    /\ pc[t] # "idle" => present[t] \in Patterns
    /\ pc[t] = "hit" => Holds(cache, Key(present[t]))
    /\ pc[t] \in {"insert", "evict", "count"} =>
         FirstPresent(present[t]) \notin SingularRows

\* The inductive invariant.
IInv == TypeOK /\ MutexHeld /\ CallState /\ CacheCoherent

EntryType == [key : SUBSET Shards, rows : SUBSET Shards]

\* The missing shards determine the present ones.
LEMMA KeyInverts ==
  ASSUME NEW p \in SUBSET Shards
  PROVE  Key(p) \in SUBSET Shards /\ Shards \ Key(p) = p
BY DEF Key

LEMMA PatternsAreShards == Patterns \subseteq SUBSET Shards
BY CacheAssumption DEF Decodable

LEMMA FirstPresentShards ==
  ASSUME NEW p \in SUBSET Shards
  PROVE  FirstPresent(p) \in SUBSET Shards
BY DEF FirstPresent

\* What a thread inserts is a correct entry.
LEMMA EntryIsCorrect ==
  ASSUME NEW p \in SUBSET Shards, FirstPresent(p) \notin SingularRows
  PROVE  Entry(p) \in EntryType /\ EntryCorrect(Entry(p))
BY KeyInverts, FirstPresentShards DEF Entry, EntryType, EntryCorrect

\* A cache made of entries of a coherent one and one correct entry is coherent.
LEMMA CoherentFrom ==
  ASSUME NEW old, NEW new, NEW entry,
         \A i \in DOMAIN old : EntryCorrect(old[i]),
         EntryCorrect(entry), EntriesFrom(new, old, entry)
  PROVE  \A i \in DOMAIN new : EntryCorrect(new[i])
BY DEF EntriesFrom

LEMMA CoherentDistinct == CacheCoherent => DistinctKeys(cache)
BY DEF CacheCoherent, DistinctKeys

LEMMA LoadOrderProperties ==
  /\ Len(LoadOrder) = 5
  /\ \A i \in 1 .. 5 : LoadOrder[i] \in Counters
BY DEF LoadOrder, Counters

LEMMA AnswersGiven ==
  ASSUME NEW rows \in SUBSET Shards
  PROVE  Matrix(rows) \in Answers /\ Invert(rows) \in Answers
BY DEF Answers, Invert, Matrix, Failure, Errors

LEMMA InitInvariant == Init => IInv
<1> SUFFICES ASSUME Init PROVE IInv
  OBVIOUS
<1>1. TypeOK
  <2>1. cache \in Seq(EntryType) /\ Len(cache) = 0
    BY EmptySeq DEF Init
  <2>2. toLoad = SubSeq(LoadOrder, 6, 5)
    BY SubSeqEmpty DEF Init
  <2> QED
    BY <2>1, <2>2, CacheAssumption DEF Init, TypeOK, Zero, Locations, EntryType
<1>2. MutexHeld
  BY CacheAssumption DEF Init, MutexHeld
<1>3. CallState
  BY DEF Init, CallState
<1>4. CacheCoherent
  BY DEF Init, CacheCoherent
<1> QED
  BY <1>1, <1>2, <1>3, <1>4 DEF IInv

----------------------------------------------------------------------------
(* What the two writes of the cache do to a coherent cache.                  *)

LEMMA TouchedCache ==
  ASSUME TypeOK, CacheCoherent, NEW key, Holds(cache, key)
  PROVE  /\ Touch(cache, key) \in Seq(EntryType)
         /\ Len(Touch(cache, key)) <= Capacity
         /\ \A i \in DOMAIN Touch(cache, key) : EntryCorrect(Touch(cache, key)[i])
         /\ DistinctKeys(Touch(cache, key))
         /\ Holds(Touch(cache, key), key)
<1> DEFINE new == Touch(cache, key)
           entry == cache[Position(cache, key)]
<1>1. cache \in Seq(EntryType) /\ Len(cache) <= Capacity
  BY DEF TypeOK, EntryType
<1>2. DistinctKeys(cache)
  BY CoherentDistinct
<1>3. /\ new \in Seq(EntryType)
      /\ Len(new) = Len(cache)
      /\ DistinctKeys(new)
      /\ EntriesFrom(new, cache, entry)
      /\ Holds(new, key)
  BY <1>1, <1>2, TouchKeeps
<1>4. Position(cache, key) \in DOMAIN cache
  BY <1>1, PositionFound, LenProperties
<1>5. EntryCorrect(entry)
  BY <1>4 DEF CacheCoherent
<1>6. \A i \in DOMAIN cache : EntryCorrect(cache[i])
  BY DEF CacheCoherent
<1> HIDE DEF new, entry
<1>7. \A i \in DOMAIN new : EntryCorrect(new[i])
  BY <1>3, <1>5, <1>6, CoherentFrom
<1> QED
  BY <1>1, <1>3, <1>7 DEF new

LEMMA InsertedCache ==
  ASSUME TypeOK, CacheCoherent,
         NEW entry \in EntryType, EntryCorrect(entry)
  PROVE  /\ Insert(cache, entry, Capacity) \in Seq(EntryType)
         /\ Len(Insert(cache, entry, Capacity)) <= Capacity
         /\ \A i \in DOMAIN Insert(cache, entry, Capacity) :
              EntryCorrect(Insert(cache, entry, Capacity)[i])
         /\ DistinctKeys(Insert(cache, entry, Capacity))
<1> DEFINE new == Insert(cache, entry, Capacity)
<1>1. cache \in Seq(EntryType) /\ Len(cache) <= Capacity
  BY DEF TypeOK, EntryType
<1>2. DistinctKeys(cache)
  BY CoherentDistinct
<1>3. /\ new \in Seq(EntryType)
      /\ Len(new) <= Capacity
      /\ DistinctKeys(new)
      /\ EntriesFrom(new, cache, entry)
  BY <1>1, <1>2, InsertKeeps, CacheAssumption
<1>4. \A i \in DOMAIN cache : EntryCorrect(cache[i])
  BY DEF CacheCoherent
<1> HIDE DEF new
<1>5. \A i \in DOMAIN new : EntryCorrect(new[i])
  BY <1>3, <1>4, CoherentFrom
<1> QED
  BY <1>3, <1>5 DEF new

\* The entry a hit returns is the inverse the caller would have computed.
LEMMA FoundMatrix ==
  ASSUME TypeOK, CacheCoherent, NEW p \in SUBSET Shards, Holds(cache, Key(p))
  PROVE  /\ Lookup(cache, Key(p)) = FirstPresent(p)
         /\ FirstPresent(p) \notin SingularRows
<1>1. cache \in Seq(EntryType)
  BY DEF TypeOK, EntryType
<1>2. Position(cache, Key(p)) \in DOMAIN cache /\ cache[Position(cache, Key(p))].key = Key(p)
  BY <1>1, PositionFound, LenProperties
<1>3. EntryCorrect(cache[Position(cache, Key(p))])
  BY <1>2 DEF CacheCoherent
<1> QED
  BY <1>2, <1>3, KeyInverts DEF EntryCorrect, Lookup

\* The counters a snapshot has still to load are a suffix of the load order.
LEMMA LoadStep ==
  ASSUME NEW i \in 2 .. 6, SubSeq(LoadOrder, i, 5) # <<>>
  PROVE  /\ i # 6
         /\ Head(SubSeq(LoadOrder, i, 5)) \in Counters
         /\ Tail(SubSeq(LoadOrder, i, 5)) = SubSeq(LoadOrder, i + 1, 5)
<1>1. i # 6
  BY SubSeqEmpty
<1>2. LoadOrder \in Seq(Counters) /\ Len(LoadOrder) = 5
  BY DEF LoadOrder, Counters
<1>3. i \in 1 .. Len(LoadOrder) /\ 5 \in i .. Len(LoadOrder)
  BY <1>1, <1>2
<1>4. /\ Head(SubSeq(LoadOrder, i, 5)) = LoadOrder[i]
      /\ Tail(SubSeq(LoadOrder, i, 5)) = SubSeq(LoadOrder, i + 1, 5)
  BY <1>2, <1>3, HeadTailOfSubSeq
<1>5. LoadOrder[i] \in Counters
  BY <1>2, <1>3, ElementOfSeq
<1> QED
  BY <1>1, <1>4, <1>5
----------------------------------------------------------------------------
(* Every step preserves the invariant.                                       *)

\* A counter that is moved remains a number.
LEMMA CountKeepsType ==
  ASSUME stats \in [Counters -> Nat], NEW counter, Count(counter)
  PROVE  stats' \in [Counters -> Nat]
<1>1. \A c \in Counters : stats[c] + 1 \in Nat
  OBVIOUS
<1> QED
  BY <1>1 DEF Count

LEMMA TypeStep ==
  ASSUME IInv, [Next]_vars
  PROVE  TypeOK'
<1> USE DEF IInv, cacheVars, threadVars, snapVars, Goto, Acquire, Release, Finish, Locations
<1>1. ASSUME NEW t \in Threads, Request(t)
      PROVE  TypeOK'
  <2>1. stats' \in [Counters -> Nat]
    BY <1>1, CountKeepsType DEF Request, TypeOK
  <2>2. pc' \in [Threads -> Locations]
    BY <1>1 DEF Request, TypeOK
  <2>3. present' \in [Threads -> SUBSET Shards]
    BY <1>1, PatternsAreShards DEF Request, TypeOK
  <2>4. calls' \in 0 .. MaxCalls
    BY <1>1, CacheAssumption DEF Request, TypeOK
  <2> QED
    BY <1>1, <2>1, <2>2, <2>3, <2>4 DEF Request, TypeOK
<1>2. ASSUME NEW t \in Threads, RefuseWideRequest(t)
      PROVE  TypeOK'
  <2>1. Failure("TooFewShardsPresent") \in Answers
    BY DEF Answers, Failure, Errors
  <2>2. calls' \in 0 .. MaxCalls
    BY <1>2, CacheAssumption DEF RefuseWideRequest, TypeOK
  <2> QED
    BY <1>2, <2>1, <2>2 DEF RefuseWideRequest, TypeOK
<1>3. ASSUME NEW t \in Threads, LookupHit(t)
      PROVE  TypeOK'
  <2>1. cache' \in Seq(EntryType) /\ Len(cache') <= Capacity
    BY <1>3, TouchedCache DEF LookupHit
  <2> QED
    BY <1>3, <2>1 DEF LookupHit, TypeOK, EntryType
<1>4. ASSUME NEW t \in Threads, LookupMiss(t)
      PROVE  TypeOK'
  BY <1>4 DEF LookupMiss, TypeOK
<1>5. ASSUME NEW t \in Threads, ReturnHit(t)
      PROVE  TypeOK'
  <2>1. present[t] \in SUBSET Shards /\ Holds(cache, Key(present[t]))
    BY <1>5 DEF ReturnHit, TypeOK, CallState
  <2>2. Matrix(Lookup(cache, Key(present[t]))) \in Answers
    BY <2>1, FoundMatrix, FirstPresentShards, AnswersGiven
  <2>3. stats' \in [Counters -> Nat]
    BY <1>5, CountKeepsType DEF ReturnHit, TypeOK
  <2> QED
    BY <1>5, <2>2, <2>3 DEF ReturnHit, TypeOK
<1>6. ASSUME NEW t \in Threads, CountMiss(t)
      PROVE  TypeOK'
  <2>1. stats' \in [Counters -> Nat]
    BY <1>6, CountKeepsType DEF CountMiss, TypeOK
  <2> QED
    BY <1>6, <2>1 DEF CountMiss, TypeOK
<1>7. ASSUME NEW t \in Threads, InvertFails(t) \/ InvertSucceeds(t)
      PROVE  TypeOK'
  <2>1. Invert(FirstPresent(present[t])) \in Answers
    BY FirstPresentShards, AnswersGiven DEF TypeOK
  <2> QED
    BY <1>7, <2>1 DEF InvertFails, InvertSucceeds, TypeOK
<1>8. ASSUME NEW t \in Threads, InsertMatrix(t)
      PROVE  TypeOK'
  <2>1. Entry(present[t]) \in EntryType /\ EntryCorrect(Entry(present[t]))
    BY <1>8, EntryIsCorrect DEF InsertMatrix, TypeOK, CallState
  <2>2. cache' \in Seq(EntryType) /\ Len(cache') <= Capacity
    BY <1>8, <2>1, InsertedCache DEF InsertMatrix
  <2> QED
    BY <1>8, <2>2 DEF InsertMatrix, TypeOK, EntryType
<1>9. ASSUME NEW t \in Threads, CountEviction(t)
      PROVE  TypeOK'
  <2>1. stats' \in [Counters -> Nat]
    BY <1>9, CountKeepsType DEF CountEviction, TypeOK
  <2> QED
    BY <1>9, <2>1 DEF CountEviction, TypeOK
<1>10. ASSUME NEW t \in Threads, ReturnInserted(t)
       PROVE  TypeOK'
  <2>1. Matrix(FirstPresent(present[t])) \in Answers
    BY FirstPresentShards, AnswersGiven DEF TypeOK
  <2>2. stats' \in [Counters -> Nat]
    BY <1>10, CountKeepsType DEF ReturnInserted, TypeOK
  <2> QED
    BY <1>10, <2>1, <2>2 DEF ReturnInserted, TypeOK
<1>11. CASE BeginSnapshot
  <2>1. LoadOrder \in Seq(Counters) /\ LoadOrder # <<>> /\ Len(LoadOrder) = 5
    BY DEF LoadOrder, Counters
  <2>2. Head(LoadOrder) \in Counters /\ Tail(LoadOrder) = SubSeq(LoadOrder, 2, 5)
    BY <2>1, HeadTailProperties, TailIsSubSeq
  <2> HIDE DEF LoadOrder
  <2>3. snap' \in [Counters -> Nat]
    BY <1>11, <2>2 DEF BeginSnapshot, TypeOK, Zero
  <2>4. toLoad' \in {SubSeq(LoadOrder, i, 5) : i \in 2 .. 6}
    <3>1. toLoad' = SubSeq(LoadOrder, 2, 5)
      BY <1>11, <2>2 DEF BeginSnapshot
    <3>2. 2 \in 2 .. 6
      OBVIOUS
    <3> QED
      BY <3>1, <3>2
  <2>5. quiet' \in BOOLEAN
    BY <1>11 DEF BeginSnapshot
  <2>6. UNCHANGED <<inversion_cache, cacheVars, threadVars, stats, calls>>
    BY <1>11 DEF BeginSnapshot
  <2> QED
    BY <2>3, <2>4, <2>5, <2>6 DEF TypeOK
<1>12. CASE LoadCounter
  <2>1. PICK i \in 2 .. 6 : toLoad = SubSeq(LoadOrder, i, 5)
    BY DEF TypeOK
  <2>2. Head(toLoad) \in Counters /\ i + 1 \in 2 .. 6 /\ Tail(toLoad) = SubSeq(LoadOrder, i + 1, 5)
    BY <1>12, <2>1, LoadStep DEF LoadCounter
  <2>3. snap' \in [Counters -> Nat]
    BY <1>12, <2>2 DEF LoadCounter, TypeOK
  <2>4. toLoad' \in {SubSeq(LoadOrder, j, 5) : j \in 2 .. 6}
    BY <1>12, <2>2 DEF LoadCounter
  <2> QED
    BY <1>12, <2>3, <2>4 DEF LoadCounter, TypeOK
<1>13. CASE UNCHANGED vars
  BY <1>13 DEF vars, TypeOK
<1> QED
  BY <1>1, <1>2, <1>3, <1>4, <1>5, <1>6, <1>7, <1>8, <1>9, <1>10, <1>11, <1>12, <1>13
     DEF Next, Proceed

\* The mutex excludes: a step of one thread moves no other thread into or
\* out of a critical section.
LEMMA MutexStep ==
  ASSUME IInv, [Next]_vars
  PROVE  MutexHeld'
<1> USE CacheAssumption DEF IInv, TypeOK, MutexHeld, cacheVars, threadVars, Goto
<1>1. ASSUME NEW t \in Threads, Request(t) \/ RefuseWideRequest(t)
      PROVE  MutexHeld'
  BY <1>1 DEF Request, RefuseWideRequest
<1>2. ASSUME NEW t \in Threads, LookupHit(t) \/ LookupMiss(t)
      PROVE  MutexHeld'
  BY <1>2 DEF LookupHit, LookupMiss, Acquire
<1>3. ASSUME NEW t \in Threads, ReturnHit(t) \/ CountMiss(t) \/ ReturnInserted(t)
      PROVE  MutexHeld'
  BY <1>3 DEF ReturnHit, CountMiss, ReturnInserted, Release
<1>4. ASSUME NEW t \in Threads, InvertFails(t) \/ InvertSucceeds(t)
      PROVE  MutexHeld'
  BY <1>4 DEF InvertFails, InvertSucceeds
<1>5. ASSUME NEW t \in Threads, InsertMatrix(t)
      PROVE  MutexHeld'
  BY <1>5 DEF InsertMatrix, Acquire
<1>6. ASSUME NEW t \in Threads, CountEviction(t)
      PROVE  MutexHeld'
  BY <1>6 DEF CountEviction
<1>7. CASE BeginSnapshot \/ LoadCounter \/ UNCHANGED vars
  BY <1>7 DEF BeginSnapshot, LoadCounter, vars
<1> QED
  BY <1>1, <1>2, <1>3, <1>4, <1>5, <1>6, <1>7 DEF Next, Proceed

\* No step of one thread takes from another what it relies on: between a
\* hit and its return only the mutex keeps the entry in the cache.
LEMMA CallStateStep ==
  ASSUME IInv, [Next]_vars
  PROVE  CallState'
<1> USE CacheAssumption DEF IInv, TypeOK, CallState, cacheVars, threadVars, Goto
<1>1. ASSUME NEW t \in Threads, Request(t) \/ RefuseWideRequest(t)
      PROVE  CallState'
  BY <1>1 DEF Request, RefuseWideRequest
<1>2. ASSUME NEW t \in Threads, LookupHit(t)
      PROVE  CallState'
  <2>1. Holds(cache', Key(present[t]))
    BY <1>2, TouchedCache DEF LookupHit
  <2>2. \A s \in Threads : pc[s] # "hit"
    BY <1>2 DEF LookupHit, Acquire, MutexHeld
  <2> QED
    BY <1>2, <2>1, <2>2 DEF LookupHit
<1>3. ASSUME NEW t \in Threads, LookupMiss(t)
      PROVE  CallState'
  BY <1>3 DEF LookupMiss
<1>4. ASSUME NEW t \in Threads, ReturnHit(t) \/ CountMiss(t) \/ ReturnInserted(t)
      PROVE  CallState'
  BY <1>4 DEF ReturnHit, CountMiss, ReturnInserted
<1>5. ASSUME NEW t \in Threads, InvertFails(t) \/ InvertSucceeds(t)
      PROVE  CallState'
  BY <1>5 DEF InvertFails, InvertSucceeds
<1>6. ASSUME NEW t \in Threads, InsertMatrix(t)
      PROVE  CallState'
  <2>1. \A s \in Threads : pc[s] # "hit"
    BY <1>6 DEF InsertMatrix, Acquire, MutexHeld
  <2>2. \A s \in Threads : pc'[s] # "hit"
    BY <1>6, <2>1 DEF InsertMatrix
  <2>3. FirstPresent(present[t]) \notin SingularRows
    BY <1>6 DEF InsertMatrix
  <2> QED
    BY <1>6, <2>2, <2>3 DEF InsertMatrix
<1>7. ASSUME NEW t \in Threads, CountEviction(t)
      PROVE  CallState'
  BY <1>7 DEF CountEviction
<1>8. CASE BeginSnapshot \/ LoadCounter \/ UNCHANGED vars
  BY <1>8 DEF BeginSnapshot, LoadCounter, vars
<1> QED
  BY <1>1, <1>2, <1>3, <1>4, <1>5, <1>6, <1>7, <1>8 DEF Next, Proceed

LEMMA CoherentStep ==
  ASSUME IInv, [Next]_vars
  PROVE  CacheCoherent'
<1> USE DEF IInv, cacheVars
<1>1. ASSUME NEW t \in Threads, LookupHit(t)
      PROVE  CacheCoherent'
  <2>1. /\ \A i \in DOMAIN cache' : EntryCorrect(cache'[i])
        /\ DistinctKeys(cache')
    BY <1>1, TouchedCache DEF LookupHit
  <2> QED
    BY <2>1 DEF CacheCoherent, DistinctKeys
<1>2. ASSUME NEW t \in Threads, InsertMatrix(t)
      PROVE  CacheCoherent'
  <2>1. Entry(present[t]) \in EntryType /\ EntryCorrect(Entry(present[t]))
    BY <1>2, EntryIsCorrect DEF InsertMatrix, Goto, TypeOK, CallState
  <2>2. /\ \A i \in DOMAIN cache' : EntryCorrect(cache'[i])
        /\ DistinctKeys(cache')
    BY <1>2, <2>1, InsertedCache DEF InsertMatrix
  <2> QED
    BY <2>2 DEF CacheCoherent, DistinctKeys
<1>3. CASE UNCHANGED cache
  BY <1>3 DEF CacheCoherent
<1> QED
  BY <1>1, <1>2, <1>3
     DEF Next, Proceed, Request, RefuseWideRequest, LookupMiss, ReturnHit, CountMiss,
         InvertFails, InvertSucceeds, CountEviction, ReturnInserted, BeginSnapshot,
         LoadCounter, vars

----------------------------------------------------------------------------

LEMMA Invariant == Spec => []IInv
<1>1. IInv /\ [Next]_vars => IInv'
  BY TypeStep, MutexStep, CallStateStep, CoherentStep DEF IInv
<1> QED
  BY <1>1, InitInvariant, PTL DEF Spec

\* TypeOK: the cache stays within its capacity, the counters within Nat.
THEOREM TypeCorrect == Spec => []TypeOK
<1>1. IInv => TypeOK
  BY DEF IInv
<1> QED
  BY <1>1, Invariant, PTL

\* CacheCoherent: whichever thread inserted it, an entry is the inverse that
\* its key stands for, and no key is held twice.
THEOREM CacheStaysCoherent == Spec => []CacheCoherent
<1>1. IInv => CacheCoherent
  BY DEF IInv
<1> QED
  BY <1>1, Invariant, PTL

----------------------------------------------------------------------------
(* What the counters tell.                                                   *)

\* The number of threads that are at some locations, by their counters.
CountAt(p, locations) == Cardinality({s \in Threads : p[s] \in locations})

\* The number of entries held.
Held == Len(cache)

\* 1 for a location among some, 0 for another.
Among(location, locations) == IF location \in locations THEN 1 ELSE 0

\* A snapshot is of the past; while no call has begun since its first load, it
\* has the requests of now.
SnapshotIsOld ==
  /\ \A c \in Counters : snap[c] <= stats[c]
  /\ quiet => snap["requests"] = stats["requests"]

\* A codec without a cache looks nothing up and counts nothing of it.
CacheUnused ==
  ~inversion_cache => /\ \A s \in Threads : pc[s] \in {"idle", "invert"}
                      /\ stats["hits"] = 0 /\ stats["misses"] = 0

\* The counters' part of the inductive invariant.
CountInv == SnapshotIsOld /\ CacheUnused /\ RequestsAccounted /\ OccupancyAccounted

\* A count of threads is a number.
LEMMA CountAtIsNat ==
  ASSUME NEW p, NEW locations
  PROVE  /\ IsFiniteSet({s \in Threads : p[s] \in locations})
         /\ CountAt(p, locations) \in Nat
<1> DEFINE there == {s \in Threads : p[s] \in locations}
<1>1. there \in SUBSET Threads
  OBVIOUS
<1> HIDE DEF there
<1>2. IsFiniteSet(there) /\ Cardinality(there) \in Nat
  BY <1>1, CacheAssumption, FS_Subset, FS_CardinalityType
<1> QED
  BY <1>2 DEF there, CountAt

\* A thread that goes on is at one location less and at another one more.
LEMMA GotoCounts ==
  ASSUME TypeOK, NEW t \in Threads, NEW from, NEW to, Goto(t, from, to), NEW locations
  PROVE  CountAt(pc', locations)
           = CountAt(pc, locations) + Among(to, locations) - Among(from, locations)
<1>1. pc[t] = from /\ pc'[t] = to /\ \A s \in Threads \ {t} : pc'[s] = pc[s]
  BY DEF Goto, TypeOK
<1> DEFINE now == {s \in Threads : pc[s] \in locations}
           later == {s \in Threads : pc'[s] \in locations}
           n == CountAt(pc, locations)
           m == CountAt(pc', locations)
<1>2. /\ IsFiniteSet(now) /\ n \in Nat /\ n = Cardinality(now)
      /\ m = Cardinality(later)
  <2>1. IsFiniteSet(now) /\ n \in Nat
    BY CountAtIsNat
  <2> QED
    BY <2>1 DEF CountAt
<1>3. CASE to \in locations <=> from \in locations
  <2>1. now = later
    BY <1>1, <1>3
  <2>2. /\ Among(to, locations) = Among(from, locations)
        /\ Among(from, locations) \in {0, 1}
    BY <1>3 DEF Among
  <2> HIDE DEF now, later, n, m
  <2>3. m = n
    BY <1>2, <2>1
  <2>4. m = n + Among(to, locations) - Among(from, locations)
    BY <1>2, <2>2, <2>3
  <2> QED
    BY <2>4 DEF n, m
<1>4. CASE to \in locations /\ from \notin locations
  <2>1. later = now \cup {t} /\ t \notin now
    BY <1>1, <1>4
  <2>2. Among(to, locations) = 1 /\ Among(from, locations) = 0
    BY <1>4 DEF Among
  <2> HIDE DEF now, later, n, m
  <2>3. Cardinality(now \cup {t}) = Cardinality(now) + 1
    BY <1>2, <2>1, FS_AddElement
  <2>4. m = n + Among(to, locations) - Among(from, locations)
    BY <1>2, <2>1, <2>2, <2>3
  <2> QED
    BY <2>4 DEF n, m
<1>5. CASE to \notin locations /\ from \in locations
  <2>1. later = now \ {t} /\ t \in now
    BY <1>1, <1>5
  <2>2. Among(to, locations) = 0 /\ Among(from, locations) = 1
    BY <1>5 DEF Among
  <2> HIDE DEF now, later, n, m
  <2>3. Cardinality(now \ {t}) = Cardinality(now) - 1
    BY <1>2, <2>1, FS_RemoveElement
  <2>4. m = n + Among(to, locations) - Among(from, locations)
    BY <1>2, <2>1, <2>2, <2>3
  <2> QED
    BY <2>4 DEF n, m
<1> QED
  BY <1>3, <1>4, <1>5

\* The locations of a call that has not learned of a hit or a miss.
Undecided == {"lookup", "hit", "miss"}

\* The two conjuncts about threads, with the threads as above.
LEMMA AccountsByLocation ==
  /\ RequestsAccounted <=>
       (inversion_cache =>
          stats["requests"] = stats["hits"] + stats["misses"] + CountAt(pc, Undecided))
  /\ OccupancyAccounted <=>
       /\ Held <= stats["inserts"] - stats["evictions"] + CountAt(pc, {"count"})
       /\ evicted <= stats["evictions"] + CountAt(pc, {"evict"})
<1>1. /\ {t \in Threads : pc[t] \in {"count"}} = {t \in Threads : pc[t] = "count"}
      /\ {t \in Threads : pc[t] \in {"evict"}} = {t \in Threads : pc[t] = "evict"}
  OBVIOUS
<1> QED
  BY <1>1 DEF RequestsAccounted, OccupancyAccounted, CountAt, Undecided, Held

\* The same of the next state.
LEMMA AccountsByLocationNext ==
  /\ RequestsAccounted' <=>
       (inversion_cache' =>
          stats'["requests"] = stats'["hits"] + stats'["misses"] + CountAt(pc', Undecided))
  /\ OccupancyAccounted' <=>
       /\ Held' <= stats'["inserts"] - stats'["evictions"] + CountAt(pc', {"count"})
       /\ evicted' <= stats'["evictions"] + CountAt(pc', {"evict"})
<1>1. /\ {t \in Threads : pc'[t] \in {"count"}} = {t \in Threads : pc'[t] = "count"}
      /\ {t \in Threads : pc'[t] \in {"evict"}} = {t \in Threads : pc'[t] = "evict"}
  OBVIOUS
<1> QED
  BY <1>1 DEF RequestsAccounted, OccupancyAccounted, CountAt, Undecided, Held

\* At first there is nothing to account for.
LEMMA CountInit == Init => CountInv
<1> SUFFICES ASSUME Init
             PROVE  CountInv
  OBVIOUS
<1>1. \A c \in Counters : stats[c] = 0 /\ snap[c] = 0
  BY DEF Init, Zero
<1>2. SnapshotIsOld /\ CacheUnused
  BY <1>1 DEF Init, SnapshotIsOld, CacheUnused, Counters
<1>3. /\ CountAt(pc, Undecided) = 0
      /\ CountAt(pc, {"count"}) = 0 /\ CountAt(pc, {"evict"}) = 0
  <2>1. /\ {t \in Threads : pc[t] \in Undecided} = {}
        /\ {t \in Threads : pc[t] \in {"count"}} = {}
        /\ {t \in Threads : pc[t] \in {"evict"}} = {}
    BY DEF Init, Undecided
  <2> QED
    BY <2>1, FS_EmptySet DEF CountAt
<1>4. Held = 0 /\ evicted = 0
  BY EmptySeq DEF Init, Held
<1> QED
  BY <1>1, <1>2, <1>3, <1>4, AccountsByLocation DEF CountInv, Counters

\* What an insertion adds to the length.
LEMMA InsertLength ==
  ASSUME TypeOK, CacheCoherent, NEW entry \in EntryType
  PROVE  /\ Len(Replace(cache, entry)) \in {Len(cache), Len(cache) + 1}
         /\ Len(Insert(cache, entry, Capacity)) <= Len(cache) + 1
         /\ Len(cache) \in Nat
<1>1. cache \in Seq(EntryType) /\ Len(cache) \in Nat
  BY LenProperties DEF TypeOK, EntryType
<1> DEFINE grown == Replace(cache, entry)
<1>2. grown \in Seq(EntryType) /\ Len(grown) \in {Len(cache), Len(cache) + 1}
  <2>1. CASE Holds(cache, entry.key)
    <3> DEFINE i == Position(cache, entry.key)
    <3>1. i \in 1 .. Len(cache) /\ cache[i].key = entry.key
      BY <1>1, <2>1, PositionFound
    <3> HIDE DEF i
    <3>2. grown = Append(Without(cache, i), entry)
      BY <2>1 DEF Replace, i
    <3>3. DistinctKeys(cache)
      BY CoherentDistinct
    <3> QED
      BY <1>1, <3>1, <3>2, <3>3, MoveToBack
  <2>2. CASE ~Holds(cache, entry.key)
    <3>1. grown = Append(cache, entry)
      BY <2>2 DEF Replace
    <3> QED
      BY <1>1, <3>1, AppendProperties
  <2> QED
    BY <2>1, <2>2
<1>3. Insert(cache, entry, Capacity) = IF Len(grown) > Capacity THEN Tail(grown) ELSE grown
  BY DEF Insert
<1> HIDE DEF grown
<1>4. Len(Insert(cache, entry, Capacity)) <= Len(cache) + 1
  <2>1. CASE Len(grown) > Capacity
    <3>1. grown # <<>>
      BY <1>2, <2>1, CacheAssumption, EmptySeq
    <3>2. Len(Tail(grown)) = Len(grown) - 1
      BY <1>2, <3>1, HeadTailProperties
    <3> QED
      BY <1>1, <1>2, <1>3, <2>1, <3>2
  <2>2. CASE ~(Len(grown) > Capacity)
    BY <1>1, <1>2, <1>3, <2>2
  <2> QED
    BY <2>1, <2>2
<1> QED
  BY <1>1, <1>2, <1>4 DEF grown

\* What the counters and the cache have to do when a thread moves: no counter
\* goes back; without a
\* cache nothing is counted; a call that ceases to be undecided is a hit or a
\* miss; the length grows by insertions, counted or about to be, less the
\* evictions counted; an entry is dropped for an eviction, counted or about to be.
NoCounterFalls ==
  stats' \in [Counters -> Nat] /\ \A c \in Counters : stats[c] <= stats'[c]

LeavesUnused(to) ==
  ~inversion_cache => stats' = stats /\ to \in {"idle", "invert"}

KeepsRequests(from, to) ==
  inversion_cache =>
    stats'["hits"] + stats'["misses"] + Among(to, Undecided)
      = stats["hits"] + stats["misses"] + Among(from, Undecided)

KeepsLength(from, to) ==
  Held' + stats["inserts"] + stats'["evictions"] + Among(from, {"count"})
    <= Held + stats'["inserts"] + stats["evictions"] + Among(to, {"count"})

KeepsDrops(from, to) ==
  evicted' + stats["evictions"] + Among(from, {"evict"})
    <= evicted + stats'["evictions"] + Among(to, {"evict"})

\* A step of a call keeps the accounts when it moves the counters with the
\* thread; the snapshot stays behind.
LEMMA MoveKeepsCounts ==
  ASSUME IInv, CountInv, NEW t \in Threads, NEW from \in Locations, NEW to \in Locations,
         Goto(t, from, to), UNCHANGED <<inversion_cache, snapVars>>,
         NoCounterFalls, stats'["requests"] = stats["requests"],
         LeavesUnused(to), Held' \in Nat, evicted' \in Nat,
         KeepsRequests(from, to), KeepsLength(from, to), KeepsDrops(from, to)
  PROVE  CountInv'
<1>1. \A c \in Counters : stats[c] \in Nat /\ stats'[c] \in Nat /\ snap[c] \in Nat
  BY DEF IInv, TypeOK, NoCounterFalls
<1>2. /\ stats["requests"] \in Nat /\ stats["hits"] \in Nat /\ stats["misses"] \in Nat
      /\ stats["inserts"] \in Nat /\ stats["evictions"] \in Nat
      /\ stats'["requests"] \in Nat /\ stats'["hits"] \in Nat /\ stats'["misses"] \in Nat
      /\ stats'["inserts"] \in Nat /\ stats'["evictions"] \in Nat
  BY <1>1 DEF Counters
<1>3. Held \in Nat /\ evicted \in Nat
  BY LenProperties DEF IInv, TypeOK, Held
<1>4. SnapshotIsOld'
  <2>1. snap' = snap /\ quiet' = quiet
    BY DEF snapVars
  <2>2. \A c \in Counters : snap[c] <= stats[c]
    BY DEF CountInv, SnapshotIsOld
  <2>3. \A c \in Counters : snap'[c] <= stats'[c]
    BY <1>1, <2>1, <2>2 DEF NoCounterFalls
  <2> QED
    BY <2>1, <2>3 DEF CountInv, SnapshotIsOld
<1>5. CacheUnused'
  <2>1. \A s \in Threads : pc'[s] = IF s = t THEN to ELSE pc[s]
    BY DEF Goto, IInv, TypeOK
  <2> QED
    BY <2>1 DEF CountInv, CacheUnused, LeavesUnused
<1>6. \A l : /\ CountAt(pc, l) \in Nat /\ Among(to, l) \in {0, 1} /\ Among(from, l) \in {0, 1}
            /\ CountAt(pc', l) = CountAt(pc, l) + Among(to, l) - Among(from, l)
  BY CountAtIsNat, GotoCounts DEF IInv, Among
<1>7. RequestsAccounted'
  <2> DEFINE n == CountAt(pc, Undecided)
             m == CountAt(pc', Undecided)
             a == Among(to, Undecided)
             b == Among(from, Undecided)
  <2>1. n \in Nat /\ a \in {0, 1} /\ b \in {0, 1} /\ m = n + a - b
    BY <1>6
  <2>2. ASSUME inversion_cache
        PROVE  stats'["requests"] = stats'["hits"] + stats'["misses"] + m
    <3>1. stats["requests"] = stats["hits"] + stats["misses"] + n
      BY <2>2, AccountsByLocation DEF CountInv
    <3>2. stats'["hits"] + stats'["misses"] + a = stats["hits"] + stats["misses"] + b
      BY <2>2 DEF KeepsRequests
    <3> HIDE DEF n, m, a, b
    <3> QED
      BY <1>2, <2>1, <3>1, <3>2
  <2>3. inversion_cache' => inversion_cache
    OBVIOUS
  <2> QED
    BY <2>2, <2>3, AccountsByLocationNext
<1>8. OccupancyAccounted'
  <2> DEFINE n(l) == CountAt(pc, {l})
             m(l) == CountAt(pc', {l})
             a(l) == Among(to, {l})
             b(l) == Among(from, {l})
  <2>1. /\ n("count") \in Nat /\ a("count") \in {0, 1} /\ b("count") \in {0, 1}
        /\ m("count") = n("count") + a("count") - b("count")
        /\ n("evict") \in Nat /\ a("evict") \in {0, 1} /\ b("evict") \in {0, 1}
        /\ m("evict") = n("evict") + a("evict") - b("evict")
    BY <1>6
  <2>2. /\ Held <= stats["inserts"] - stats["evictions"] + n("count")
        /\ evicted <= stats["evictions"] + n("evict")
    BY AccountsByLocation DEF CountInv
  <2>3. Held' + stats["inserts"] + stats'["evictions"] + b("count")
          <= Held + stats'["inserts"] + stats["evictions"] + a("count")
    BY DEF KeepsLength
  <2>4. evicted' + stats["evictions"] + b("evict")
          <= evicted + stats'["evictions"] + a("evict")
    BY DEF KeepsDrops
  <2> HIDE DEF n, m, a, b
  <2>5. Held' <= stats'["inserts"] - stats'["evictions"] + m("count")
    BY <1>2, <1>3, <2>1, <2>2, <2>3
  <2>6. evicted' <= stats'["evictions"] + m("evict")
    BY <1>2, <1>3, <2>1, <2>2, <2>4
  <2> QED
    BY <2>5, <2>6, AccountsByLocationNext DEF m
<1> QED
  BY <1>4, <1>5, <1>7, <1>8 DEF CountInv

\* What a counted event leaves of the counters.
LEMMA CountResult ==
  ASSUME TypeOK, NEW counter \in Counters, Count(counter)
  PROVE  /\ stats' \in [Counters -> Nat] /\ stats'[counter] = stats[counter] + 1
         /\ \A c \in Counters \ {counter} : stats'[c] = stats[c]
         /\ \A c \in Counters : stats[c] <= stats'[c]
<1>1. stats \in [Counters -> Nat]
  BY DEF TypeOK
<1> QED
  BY <1>1 DEF Count

LEMMA CounterTypes ==
  ASSUME TypeOK
  PROVE  /\ stats \in [Counters -> Nat] /\ \A c \in Counters : stats[c] <= stats[c]
         /\ stats["requests"] \in Nat /\ stats["hits"] \in Nat /\ stats["misses"] \in Nat
         /\ stats["inserts"] \in Nat /\ stats["evictions"] \in Nat
         /\ Held \in Nat /\ evicted \in Nat
<1>1. stats \in [Counters -> Nat] /\ Held \in Nat /\ evicted \in Nat
  BY LenProperties DEF TypeOK, Held
<1> QED
  BY <1>1 DEF Counters

\* A call that begins is a request and a lookup on its way, at once; it makes
\* what a snapshot has loaded old.
LEMMA RequestCounts ==
  ASSUME IInv, CountInv, NEW t \in Threads, Request(t)
  PROVE  CountInv'
<1>1. TypeOK
  BY DEF IInv
<1>2. UNCHANGED <<inversion_cache, cache, evicted, snap>> /\ quiet' = FALSE
  BY DEF Request, cacheVars
<1>3. CASE inversion_cache
  <2>1. Goto(t, "idle", "lookup") /\ Count("requests") /\ "requests" \in Counters
    BY <1>3 DEF Request, Counters
  <2>2. /\ stats'["requests"] = stats["requests"] + 1
        /\ stats'["hits"] = stats["hits"] /\ stats'["misses"] = stats["misses"]
        /\ stats'["inserts"] = stats["inserts"] /\ stats'["evictions"] = stats["evictions"]
        /\ stats' \in [Counters -> Nat] /\ \A c \in Counters : stats[c] <= stats'[c]
    BY <1>1, <2>1, CountResult DEF Counters
  <2> DEFINE n(l) == CountAt(pc, l)
             m(l) == CountAt(pc', l)
  <2>3. /\ m(Undecided) = n(Undecided) + 1 /\ m({"count"}) = n({"count"})
        /\ m({"evict"}) = n({"evict"})
        /\ n(Undecided) \in Nat /\ n({"count"}) \in Nat /\ n({"evict"}) \in Nat
    <3>1. \A l : /\ n(l) \in Nat
                /\ m(l) = n(l) + Among("lookup", l) - Among("idle", l)
      BY <1>1, <2>1, CountAtIsNat, GotoCounts
    <3>2. /\ Among("lookup", Undecided) = 1 /\ Among("idle", Undecided) = 0
          /\ Among("lookup", {"count"}) = 0 /\ Among("idle", {"count"}) = 0
          /\ Among("lookup", {"evict"}) = 0 /\ Among("idle", {"evict"}) = 0
      BY DEF Among, Undecided
    <3> HIDE DEF n, m
    <3>3. /\ n(Undecided) \in Nat /\ m(Undecided) = n(Undecided) + 1 - 0
          /\ n({"count"}) \in Nat /\ m({"count"}) = n({"count"}) + 0 - 0
          /\ n({"evict"}) \in Nat /\ m({"evict"}) = n({"evict"}) + 0 - 0
      BY <3>1, <3>2
    <3> QED
      BY <3>3
  <2>4. /\ stats["requests"] = stats["hits"] + stats["misses"] + n(Undecided)
        /\ Held <= stats["inserts"] - stats["evictions"] + n({"count"})
        /\ evicted <= stats["evictions"] + n({"evict"})
    BY <1>3, AccountsByLocation DEF CountInv
  <2>5. /\ stats'["requests"] = stats'["hits"] + stats'["misses"] + m(Undecided)
        /\ Held' <= stats'["inserts"] - stats'["evictions"] + m({"count"})
        /\ evicted' <= stats'["evictions"] + m({"evict"})
    <3> HIDE DEF n, m
    <3>1. Held' = Held
      BY <1>2 DEF Held
    <3>2. /\ stats["requests"] \in Nat /\ stats["hits"] \in Nat /\ stats["misses"] \in Nat
          /\ stats["inserts"] \in Nat /\ stats["evictions"] \in Nat
          /\ Held \in Nat /\ evicted \in Nat
      BY <1>1, CounterTypes
    <3> QED
      BY <1>2, <2>2, <2>3, <2>4, <3>1, <3>2
  <2>6. RequestsAccounted' /\ OccupancyAccounted'
    BY <2>5, AccountsByLocationNext
  <2>7. SnapshotIsOld'
    <3>1. \A c \in Counters : snap[c] \in Nat /\ stats[c] \in Nat /\ stats'[c] \in Nat /\ snap[c] <= stats[c]
      BY <1>1, <2>2 DEF TypeOK, CountInv, SnapshotIsOld
    <3>2. \A c \in Counters : snap'[c] <= stats'[c]
      BY <1>2, <2>2, <3>1
    <3> QED
      BY <1>2, <3>2 DEF SnapshotIsOld
  <2>8. CacheUnused'
    BY <1>2, <1>3 DEF CacheUnused
  <2> QED
    BY <2>6, <2>7, <2>8 DEF CountInv
<1>4. CASE ~inversion_cache
  <2>1. Goto(t, "idle", "invert") /\ UNCHANGED stats
    BY <1>4 DEF Request
  <2>2. SnapshotIsOld'
    BY <1>2, <2>1 DEF CountInv, SnapshotIsOld
  <2>3. CacheUnused'
    <3>1. \A s \in Threads : pc'[s] = IF s = t THEN "invert" ELSE pc[s]
      BY <1>1, <2>1 DEF Goto, TypeOK
    <3> QED
      BY <1>2, <2>1, <3>1 DEF CountInv, CacheUnused
  <2>4. RequestsAccounted'
    BY <1>2, <1>4 DEF RequestsAccounted
  <2>5. OccupancyAccounted'
    <3>1. \A s \in Threads : pc'[s] = IF s = t THEN "invert" ELSE pc[s]
      BY <1>1, <2>1 DEF Goto, TypeOK
    <3>2. pc[t] = "idle"
      BY <2>1 DEF Goto
    <3>3. /\ {s \in Threads : pc'[s] = "count"} = {s \in Threads : pc[s] = "count"}
          /\ {s \in Threads : pc'[s] = "evict"} = {s \in Threads : pc[s] = "evict"}
      BY <3>1, <3>2
    <3> QED
      BY <1>2, <2>1, <3>3 DEF CountInv, OccupancyAccounted
  <2> QED
    BY <2>2, <2>3, <2>4, <2>5 DEF CountInv
<1> QED
  BY <1>3, <1>4

\* The locations among the ones the accounts count.
LEMMA AmongTheCounted ==
  /\ Among("lookup", Undecided) = 1 /\ Among("lookup", {"count"}) = 0 /\ Among("lookup", {"evict"}) = 0
  /\ Among("hit", Undecided) = 1 /\ Among("hit", {"count"}) = 0 /\ Among("hit", {"evict"}) = 0
  /\ Among("miss", Undecided) = 1 /\ Among("miss", {"count"}) = 0 /\ Among("miss", {"evict"}) = 0
  /\ Among("invert", Undecided) = 0 /\ Among("invert", {"count"}) = 0 /\ Among("invert", {"evict"}) = 0
  /\ Among("insert", Undecided) = 0 /\ Among("insert", {"count"}) = 0 /\ Among("insert", {"evict"}) = 0
  /\ Among("evict", Undecided) = 0 /\ Among("evict", {"count"}) = 0 /\ Among("evict", {"evict"}) = 1
  /\ Among("count", Undecided) = 0 /\ Among("count", {"count"}) = 1 /\ Among("count", {"evict"}) = 0
  /\ Among("idle", Undecided) = 0 /\ Among("idle", {"count"}) = 0 /\ Among("idle", {"evict"}) = 0
BY DEF Among, Undecided

\* A step that counts one event and leaves the cache alone.
LEMMA CountedMove ==
  ASSUME IInv, CountInv, inversion_cache, NEW t \in Threads, NEW from, NEW to, NEW counter,
         <<from, to, counter>> \in {<<"hit", "idle", "hits">>, <<"miss", "invert", "misses">>,
                                   <<"evict", "count", "evictions">>, <<"count", "idle", "inserts">>},
         Goto(t, from, to), Count(counter), UNCHANGED <<inversion_cache, snapVars, cache, evicted>>
  PROVE  CountInv'
<1>1. counter \in Counters /\ counter # "requests" /\ from \in Locations /\ to \in Locations
  BY DEF Counters, Locations
<1>2. NoCounterFalls /\ stats'["requests"] = stats["requests"]
  BY <1>1, CountResult DEF IInv, NoCounterFalls, Counters
<1>3. LeavesUnused(to)
  BY DEF LeavesUnused
<1>4. /\ stats["hits"] \in Nat /\ stats["misses"] \in Nat
      /\ stats["inserts"] \in Nat /\ stats["evictions"] \in Nat
      /\ Held \in Nat /\ evicted \in Nat
  BY CounterTypes DEF IInv
<1>5. Held' = Held /\ evicted' = evicted
  BY DEF Held
<1>6. /\ stats'["hits"] = stats["hits"] + (IF counter = "hits" THEN 1 ELSE 0)
      /\ stats'["misses"] = stats["misses"] + (IF counter = "misses" THEN 1 ELSE 0)
      /\ stats'["inserts"] = stats["inserts"] + (IF counter = "inserts" THEN 1 ELSE 0)
      /\ stats'["evictions"] = stats["evictions"] + (IF counter = "evictions" THEN 1 ELSE 0)
  BY <1>1, <1>4, CountResult DEF IInv, Counters
<1>7. KeepsRequests(from, to) /\ KeepsLength(from, to) /\ KeepsDrops(from, to)
  <2>1. CASE from = "hit" /\ to = "idle" /\ counter = "hits"
    BY <1>4, <1>5, <1>6, <2>1, AmongTheCounted DEF KeepsRequests, KeepsLength, KeepsDrops
  <2>2. CASE from = "miss" /\ to = "invert" /\ counter = "misses"
    BY <1>4, <1>5, <1>6, <2>2, AmongTheCounted DEF KeepsRequests, KeepsLength, KeepsDrops
  <2>3. CASE from = "evict" /\ to = "count" /\ counter = "evictions"
    BY <1>4, <1>5, <1>6, <2>3, AmongTheCounted DEF KeepsRequests, KeepsLength, KeepsDrops
  <2>4. CASE from = "count" /\ to = "idle" /\ counter = "inserts"
    BY <1>4, <1>5, <1>6, <2>4, AmongTheCounted DEF KeepsRequests, KeepsLength, KeepsDrops
  <2> QED
    BY <2>1, <2>2, <2>3, <2>4
<1> QED
  BY <1>1, <1>2, <1>3, <1>4, <1>5, <1>7, MoveKeepsCounts

\* A step that counts nothing: of the three accounts, the undecided calls
\* stay as many, and the cache may grow and drop what the thread will count.
LEMMA UncountedMove ==
  ASSUME IInv, CountInv, NEW t \in Threads, NEW from \in Locations, NEW to \in Locations,
         Goto(t, from, to), UNCHANGED <<inversion_cache, snapVars, stats>>,
         ~inversion_cache => to \in {"idle", "invert"},
         Among(to, Undecided) = Among(from, Undecided),
         Held' \in Nat, Held' + Among(from, {"count"}) <= Held + Among(to, {"count"}),
         evicted' \in Nat, evicted' + Among(from, {"evict"}) <= evicted + Among(to, {"evict"})
  PROVE  CountInv'
<1>1. /\ stats \in [Counters -> Nat] /\ \A c \in Counters : stats[c] <= stats[c]
      /\ stats["inserts"] \in Nat /\ stats["evictions"] \in Nat
      /\ Held \in Nat /\ evicted \in Nat
  BY CounterTypes DEF IInv
<1>2. NoCounterFalls /\ LeavesUnused(to)
  BY <1>1 DEF NoCounterFalls, LeavesUnused
<1>3. KeepsRequests(from, to)
  BY DEF KeepsRequests
<1>4. /\ Among(to, {"count"}) \in Nat /\ Among(from, {"count"}) \in Nat
      /\ Among(to, {"evict"}) \in Nat /\ Among(from, {"evict"}) \in Nat
  BY DEF Among
<1>5. stats' = stats
  OBVIOUS
<1>6. KeepsLength(from, to)
  BY <1>1, <1>4, <1>5 DEF KeepsLength
<1>7. KeepsDrops(from, to)
  BY <1>1, <1>4, <1>5 DEF KeepsDrops
<1> QED
  BY <1>2, <1>3, <1>5, <1>6, <1>7, MoveKeepsCounts

\* The steps of a call.
LEMMA ProceedCounts ==
  ASSUME IInv, TypeOK', CountInv, NEW t \in Threads, Proceed(t)
  PROVE  CountInv'
<1>1. TypeOK /\ TypeOK'
  BY DEF IInv
<1>2. Held \in Nat /\ evicted \in Nat /\ evicted' \in Nat /\ Held' \in Nat
  <2>1. cache' \in Seq([key : SUBSET Shards, rows : SUBSET Shards])
    BY <1>1 DEF TypeOK
  <2> QED
    BY <1>1, <2>1, LenProperties, CounterTypes DEF TypeOK, Held
<1>3. ~inversion_cache => pc[t] \in {"idle", "invert"}
  BY DEF CountInv, CacheUnused
<1>4. CASE LookupHit(t) \/ LookupMiss(t)
  <2>1. PICK to \in {"hit", "miss"} : Goto(t, "lookup", to)
    BY <1>4 DEF LookupHit, LookupMiss
  <2>2. Held' = Held
    <3>1. CASE LookupHit(t)
      <4>1. cache \in Seq(EntryType) /\ DistinctKeys(cache) /\ Holds(cache, Key(present[t]))
        BY <1>1, <3>1, CoherentDistinct DEF TypeOK, EntryType, IInv, LookupHit
      <4> QED
        BY <3>1, <4>1, TouchKeeps DEF LookupHit, Held
    <3>2. CASE LookupMiss(t)
      BY <3>2 DEF LookupMiss, Held
    <3> QED
      BY <1>4, <3>1, <3>2
  <2>3. /\ UNCHANGED <<inversion_cache, snapVars, stats>> /\ evicted' = evicted
        /\ inversion_cache
    BY <1>4, <1>3, <2>1 DEF LookupHit, LookupMiss, Goto
  <2>4. /\ Among("lookup", Undecided) = 1 /\ Among(to, Undecided) = 1
        /\ Among("lookup", {"count"}) = 0 /\ Among(to, {"count"}) = 0
        /\ Among("lookup", {"evict"}) = 0 /\ Among(to, {"evict"}) = 0
    BY AmongTheCounted
  <2>5. /\ Held' + Among("lookup", {"count"}) <= Held + Among(to, {"count"})
        /\ evicted' + Among("lookup", {"evict"}) <= evicted + Among(to, {"evict"})
    BY <1>2, <2>2, <2>3, <2>4
  <2>6. "lookup" \in Locations /\ to \in Locations
    BY DEF Locations
  <2> QED
    BY <1>2, <2>1, <2>3, <2>4, <2>5, <2>6, UncountedMove
<1>5. CASE ReturnHit(t)
  <2>1. Goto(t, "hit", "idle") /\ Count("hits") /\ inversion_cache
    BY <1>3, <1>5 DEF ReturnHit, Goto
  <2>2. UNCHANGED <<inversion_cache, snapVars, cache, evicted>>
    BY <1>5 DEF ReturnHit
  <2> QED
    BY <2>1, <2>2, CountedMove
<1>6. CASE CountMiss(t)
  <2>1. Goto(t, "miss", "invert") /\ Count("misses") /\ inversion_cache
    BY <1>3, <1>6 DEF CountMiss, Goto
  <2>2. UNCHANGED <<inversion_cache, snapVars, cache, evicted>>
    BY <1>6 DEF CountMiss
  <2> QED
    BY <2>1, <2>2, CountedMove
<1>7. CASE InvertFails(t) \/ InvertSucceeds(t)
  <2>1. PICK to \in {"idle", "insert"} : Goto(t, "invert", to) /\ (~inversion_cache => to = "idle")
    BY <1>7 DEF InvertFails, InvertSucceeds
  <2>2. UNCHANGED <<inversion_cache, snapVars, stats>> /\ evicted' = evicted /\ Held' = Held
    BY <1>7 DEF InvertFails, InvertSucceeds, cacheVars, Held
  <2>3. /\ Among("invert", Undecided) = 0 /\ Among(to, Undecided) = 0
        /\ Among("invert", {"count"}) = 0 /\ Among(to, {"count"}) = 0
        /\ Among("invert", {"evict"}) = 0 /\ Among(to, {"evict"}) = 0
    BY AmongTheCounted
  <2>4. /\ Held' + Among("invert", {"count"}) <= Held + Among(to, {"count"})
        /\ evicted' + Among("invert", {"evict"}) <= evicted + Among(to, {"evict"})
    BY <1>2, <2>2, <2>3
  <2>5. "invert" \in Locations /\ to \in Locations /\ (~inversion_cache => to \in {"idle", "invert"})
    BY <2>1 DEF Locations
  <2> QED
    BY <1>2, <2>1, <2>2, <2>3, <2>4, <2>5, UncountedMove
<1>8. CASE InsertMatrix(t)
  <2> DEFINE entry == Entry(present[t])
             grown == Len(Replace(cache, entry))
             to == IF Held >= Capacity THEN "evict" ELSE "count"
  <2>1. entry \in EntryType
    BY <1>1, <1>8, EntryIsCorrect DEF InsertMatrix, Goto, IInv, CallState, TypeOK
  <2>2. /\ cache' = Insert(cache, entry, Capacity)
        /\ evicted' = IF grown > Capacity THEN evicted + 1 ELSE evicted
        /\ UNCHANGED <<inversion_cache, snapVars, stats>>
        /\ Goto(t, "insert", to)
        /\ inversion_cache
    BY <1>3, <1>8 DEF InsertMatrix, Goto, Held
  <2> HIDE DEF entry
  <2>3. grown \in {Held, Held + 1} /\ Held' <= Held + 1
    BY <1>1, <2>1, <2>2, InsertLength DEF IInv, Held
  <2>4. Held' <= Capacity /\ Held <= Capacity /\ Capacity \in Nat
    BY <1>1, CacheAssumption DEF TypeOK, Held
  <2> HIDE DEF grown
  <2>5. /\ Among(to, Undecided) = Among("insert", Undecided)
        /\ Held' + Among("insert", {"count"}) <= Held + Among(to, {"count"})
        /\ evicted' + Among("insert", {"evict"}) <= evicted + Among(to, {"evict"})
    <3>1. CASE Held >= Capacity
      <4>1. Held' <= Held
        BY <1>2, <2>4, <3>1
      <4>2. evicted' = evicted + 1 \/ evicted' = evicted
        BY <2>2
      <4>3. evicted' <= evicted + 1
        BY <1>2, <4>2
      <4>4. to = "evict"
        BY <3>1
      <4> HIDE DEF to
      <4> QED
        BY <1>2, <4>1, <4>3, <4>4, AmongTheCounted
    <3>2. CASE ~(Held >= Capacity)
      <4>1. Held' <= Held + 1
        BY <1>2, <2>3
      <4>2. ~(grown > Capacity)
        BY <1>2, <2>3, <2>4, <3>2
      <4>3. evicted' = evicted
        BY <2>2, <4>2
      <4>4. evicted' <= evicted
        BY <1>2, <4>3
      <4>5. to = "count"
        BY <3>2
      <4> HIDE DEF to
      <4> QED
        BY <1>2, <4>1, <4>4, <4>5, AmongTheCounted
    <3> QED
      BY <3>1, <3>2
  <2>6. "insert" \in Locations /\ to \in Locations
    BY DEF Locations
  <2> HIDE DEF to
  <2> QED
    BY <1>2, <2>2, <2>5, <2>6, UncountedMove
<1>9. CASE CountEviction(t)
  <2>1. Goto(t, "evict", "count") /\ Count("evictions") /\ inversion_cache
    BY <1>3, <1>9 DEF CountEviction, Goto
  <2>2. UNCHANGED <<inversion_cache, snapVars, cache, evicted>>
    BY <1>9 DEF CountEviction, cacheVars
  <2> QED
    BY <2>1, <2>2, CountedMove
<1>10. CASE ReturnInserted(t)
  <2>1. Goto(t, "count", "idle") /\ Count("inserts") /\ inversion_cache
    BY <1>3, <1>10 DEF ReturnInserted, Goto
  <2>2. UNCHANGED <<inversion_cache, snapVars, cache, evicted>>
    BY <1>10 DEF ReturnInserted
  <2> QED
    BY <2>1, <2>2, CountedMove
<1> QED
  BY <1>4, <1>5, <1>6, <1>7, <1>8, <1>9, <1>10 DEF Proceed

\* The loads of a snapshot and the refusals move no counter.
LEMMA OtherCounts ==
  ASSUME IInv, CountInv,
         \/ \E t \in Threads : RefuseWideRequest(t)
         \/ BeginSnapshot \/ LoadCounter \/ UNCHANGED vars
  PROVE  CountInv'
<1>1. UNCHANGED <<inversion_cache, cache, evicted, pc, stats>>
  BY DEF RefuseWideRequest, BeginSnapshot, LoadCounter, vars, cacheVars, threadVars
<1>2. CacheUnused' /\ RequestsAccounted' /\ OccupancyAccounted'
  BY <1>1 DEF CountInv, CacheUnused, RequestsAccounted, OccupancyAccounted
<1>3. \A c \in Counters : stats[c] \in Nat /\ snap[c] <= stats[c]
  BY DEF IInv, TypeOK, CountInv, SnapshotIsOld
<1>4. SnapshotIsOld'
  <2>1. CASE BeginSnapshot
    <3>1. snap' = [Zero EXCEPT !["requests"] = stats["requests"]]
      BY <2>1 DEF BeginSnapshot, LoadOrder
    <3>2. snap'["requests"] = stats["requests"]
      BY <3>1 DEF Zero, Counters
    <3>3. \A c \in Counters : snap'[c] = stats[c] \/ snap'[c] = 0
      BY <3>1 DEF Zero
    <3>4. \A c \in Counters : snap'[c] <= stats[c]
      BY <1>3, <3>3
    <3> QED
      BY <1>1, <3>2, <3>4 DEF SnapshotIsOld
  <2>2. CASE LoadCounter
    <3>1. snap' = [snap EXCEPT ![Head(toLoad)] = stats[Head(toLoad)]] /\ quiet' = quiet
      BY <2>2 DEF LoadCounter
    <3>2. snap \in [Counters -> Nat] /\ "requests" \in Counters
      BY DEF IInv, TypeOK, Counters
    <3>3. \A c \in Counters : snap'[c] = stats[c] \/ snap'[c] = snap[c]
      BY <3>1, <3>2
    <3>4. \A c \in Counters : snap'[c] <= stats[c]
      BY <1>3, <3>3
    <3>5. quiet => snap'["requests"] = stats["requests"]
      BY <3>2, <3>3 DEF CountInv, SnapshotIsOld
    <3> QED
      BY <1>1, <3>1, <3>4, <3>5 DEF SnapshotIsOld
  <2>3. CASE snap' = snap /\ quiet' = quiet
    BY <1>1, <2>3 DEF CountInv, SnapshotIsOld
  <2> QED
    BY <2>1, <2>2, <2>3 DEF RefuseWideRequest, vars, snapVars
<1> QED
  BY <1>2, <1>4 DEF CountInv

LEMMA CountsInvariant == Spec => [](IInv /\ CountInv)
<1>1. IInv /\ [Next]_vars => IInv'
  BY TypeStep, MutexStep, CallStateStep, CoherentStep DEF IInv
<1>2. IInv /\ CountInv /\ [Next]_vars => CountInv'
  <2> SUFFICES ASSUME IInv, CountInv, [Next]_vars
               PROVE  CountInv'
    OBVIOUS
  <2>1. TypeOK'
    BY TypeStep
  <2> QED
    BY <2>1, RequestCounts, ProceedCounts, OtherCounts DEF Next
<1> QED
  BY <1>1, <1>2, InitInvariant, CountInit, PTL DEF Spec

\* CountersAccounted: no interleaving of the relaxed updates loses or doubles
\* an event, and a snapshot taken while no call began reports a rate.
THEOREM CountersTellTheTruth == Spec => []CountersAccounted
<1>1. ASSUME IInv, CountInv, quiet
      PROVE  snap["hits"] + snap["misses"] <= snap["requests"]
  <2>1. /\ stats["requests"] \in Nat /\ stats["hits"] \in Nat /\ stats["misses"] \in Nat
    BY <1>1, CounterTypes DEF IInv
  <2>2. /\ snap["hits"] \in Nat /\ snap["misses"] \in Nat
        /\ snap["hits"] <= stats["hits"] /\ snap["misses"] <= stats["misses"]
        /\ snap["requests"] = stats["requests"]
    BY <1>1 DEF IInv, TypeOK, CountInv, SnapshotIsOld, Counters
  <2>3. stats["hits"] + stats["misses"] <= stats["requests"]
    <3>1. CASE inversion_cache
      <4>1. stats["requests"] = stats["hits"] + stats["misses"] + CountAt(pc, Undecided)
        BY <1>1, <3>1, AccountsByLocation DEF CountInv
      <4>2. CountAt(pc, Undecided) \in Nat
        BY CountAtIsNat
      <4> QED
        BY <2>1, <4>1, <4>2
    <3>2. CASE ~inversion_cache
      BY <1>1, <2>1, <3>2 DEF CountInv, CacheUnused
    <3> QED
      BY <3>1, <3>2
  <2> QED
    BY <2>1, <2>2, <2>3
<1>2. IInv /\ CountInv => CountersAccounted
  BY <1>1 DEF CountInv, CountersAccounted, SnapshotIsARate
<1> QED
  BY <1>2, CountsInvariant, PTL

----------------------------------------------------------------------------
(* Refinement: a call is its Request step and its returning step, all others *)
(* stutter.                                                                  *)

Active == {t \in Threads : pc[t] # "idle"}

\* The specification of the service reads the codec's definitions as this one.
LEMMA SameCodec ==
  /\ Service!Decodable = Decodable
  /\ \A p : Service!Invert(Service!FirstPresent(p)) = Invert(FirstPresent(p))
  /\ \A e : Service!Failure(e) = Failure(e)
<1>1. Service!Decodable = Decodable
  BY DEF Service!Decodable, Decodable, Service!Shards, Shards, Service!Cardinality, Cardinality
<1>2. \A e : Service!Failure(e) = Failure(e)
  BY DEF Service!Failure, Failure
<1>3. \A p : Service!FirstPresent(p) = FirstPresent(p)
  BY DEF Service!FirstPresent, FirstPresent, Service!Cardinality, Cardinality
<1>4. \A rows : Service!Invert(rows) = Invert(rows)
  BY <1>2 DEF Service!Invert, Invert, Service!Matrix, Matrix
<1> QED
  BY <1>1, <1>2, <1>3, <1>4

LEMMA ServiceInit == Init => Service!Init
BY DEF Init, Service!Init, NoAnswer, Service!NoAnswer

\* A step that leaves who is active, the patterns and the answers alone.
LEMMA ServiceStutter ==
  ASSUME Active' = Active, UNCHANGED <<present, result>>
  PROVE  UNCHANGED Service!serviceVars
BY DEF Active, Service!serviceVars

\* A step that ends a call with the answer of a codec without a cache.
LEMMA ServiceReturn ==
  ASSUME TypeOK, NEW t \in Threads, pc[t] # "idle",
         pc' = [pc EXCEPT ![t] = "idle"],
         result' = [result EXCEPT ![t] = Invert(FirstPresent(present[t]))],
         UNCHANGED present
  PROVE  Service!Next
<1>1. Service!Return(t)
  BY SameCodec DEF Service!Return, TypeOK
<1> QED
  BY <1>1 DEF Service!Next

LEMMA ServiceStep ==
  ASSUME IInv, [Next]_vars
  PROVE  [Service!Next]_Service!serviceVars
<1> USE DEF IInv, cacheVars, threadVars, snapVars, Goto
<1>1. ASSUME NEW t \in Threads, Request(t)
      PROVE  Service!Next
  <2>1. PICK p \in Patterns : present' = [present EXCEPT ![t] = p]
    BY <1>1 DEF Request
  <2>2. p \in Decodable
    BY CacheAssumption
  <2>3. pc[t] = "idle" /\ Active' = Active \cup {t}
    BY <1>1 DEF Request, Active, TypeOK
  <2>4. Service!Call(t)
    BY <1>1, <2>1, <2>2, <2>3, SameCodec DEF Request, Service!Call, Active
  <2> QED
    BY <2>4 DEF Service!Next
<1>2. ASSUME NEW t \in Threads, RefuseWideRequest(t)
      PROVE  Service!Next
  <2>1. Service!Reject(t)
    BY <1>2, SameCodec DEF RefuseWideRequest, Service!Reject, Finish
  <2> QED
    BY <2>1 DEF Service!Next
<1>3. ASSUME NEW t \in Threads, ReturnHit(t)
      PROVE  Service!Next
  <2>1. present[t] \in SUBSET Shards /\ Holds(cache, Key(present[t]))
    BY <1>3 DEF ReturnHit, TypeOK, CallState
  <2>2. Matrix(Lookup(cache, Key(present[t]))) = Invert(FirstPresent(present[t]))
    BY <2>1, FoundMatrix DEF Invert
  <2> QED
    BY <1>3, <2>2, ServiceReturn DEF ReturnHit, Finish
<1>4. ASSUME NEW t \in Threads, InvertFails(t)
      PROVE  Service!Next
  BY <1>4, ServiceReturn DEF InvertFails, Finish
<1>5. ASSUME NEW t \in Threads, InvertSucceeds(t)
      PROVE  Service!Next \/ UNCHANGED Service!serviceVars
  <2>1. CASE inversion_cache
    <3>1. Active' = Active /\ UNCHANGED <<present, result>>
      BY <1>5, <2>1 DEF InvertSucceeds, Active, TypeOK
    <3> QED
      BY <3>1, ServiceStutter
  <2>2. CASE ~inversion_cache
    BY <1>5, <2>2, ServiceReturn DEF InvertSucceeds, Finish
  <2> QED
    BY <2>1, <2>2
<1>6. ASSUME NEW t \in Threads, ReturnInserted(t)
      PROVE  Service!Next
  <2>1. Matrix(FirstPresent(present[t])) = Invert(FirstPresent(present[t]))
    BY <1>6 DEF ReturnInserted, CallState, Invert
  <2> QED
    BY <1>6, <2>1, ServiceReturn DEF ReturnInserted, Finish
<1>7. ASSUME NEW t \in Threads,
             LookupHit(t) \/ LookupMiss(t) \/ CountMiss(t) \/ InsertMatrix(t) \/ CountEviction(t)
      PROVE  UNCHANGED Service!serviceVars
  <2>1. Active' = Active /\ UNCHANGED <<present, result>>
    BY <1>7 DEF LookupHit, LookupMiss, CountMiss, InsertMatrix, CountEviction, Active, TypeOK
  <2> QED
    BY <2>1, ServiceStutter
<1>8. CASE BeginSnapshot \/ LoadCounter \/ UNCHANGED vars
  <2>1. Active' = Active /\ UNCHANGED <<present, result>>
    BY <1>8 DEF BeginSnapshot, LoadCounter, vars, Active
  <2> QED
    BY <2>1, ServiceStutter
<1> QED
  BY <1>1, <1>2, <1>3, <1>4, <1>5, <1>6, <1>7, <1>8 DEF Next, Proceed

\* ImplementsService: no interleaving of lookups, duplicate inversions and
\* evictions makes a caller receive anything but the inverse for its own
\* pattern, or the error of that pattern.
THEOREM CacheIsInvisible == Spec => ImplementsService
<1>1. Init => Service!Init
  BY ServiceInit
<1>2. IInv /\ [Next]_vars => [Service!Next]_Service!serviceVars
  BY ServiceStep
<1> QED
  BY <1>1, <1>2, Invariant, PTL DEF Spec, Service!Spec, ImplementsService

=============================================================================
