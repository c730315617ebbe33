------------------------------- MODULE LruCache -------------------------------
(***************************************************************************)
(* hashlink::LruCache as the codec uses it (an external crate): a sequence  *)
(* of entries [key, rows] from the least to the most recently used.         *)
(***************************************************************************)
EXTENDS Integers, Sequences

\* The sequence without its i-th entry.
Without(cache, i) ==
  SubSeq(cache, 1, i - 1) \o SubSeq(cache, i + 1, Len(cache))

Holds(cache, key) == \E i \in DOMAIN cache : cache[i].key = key

Position(cache, key) == CHOOSE i \in DOMAIN cache : cache[i].key = key

Lookup(cache, key) == cache[Position(cache, key)].rows

\* get: a found entry becomes the most recently used one.
Touch(cache, key) ==
  LET i == Position(cache, key) IN Append(Without(cache, i), cache[i])

\* insert before the capacity is enforced: a present key is replaced and
\* becomes the most recently used one.
Replace(cache, entry) ==
  IF Holds(cache, entry.key)
  THEN Append(Without(cache, Position(cache, entry.key)), entry)
  ELSE Append(cache, entry)

\* insert: one entry too many drops the least recently used one.
Insert(cache, entry, capacity) ==
  LET grown == Replace(cache, entry) IN
  IF Len(grown) > capacity THEN Tail(grown) ELSE grown

=============================================================================
