----------------------------- MODULE ErasureCode -----------------------------
(* What a Leopard engine promises the caller, whatever its transforms: shards *)
(* that were encoded are a codeword; while enough of them are left, one call  *)
(* restores the whole codeword; a refused call changes no shard.              *)
EXTENDS Naturals, FiniteSets

CONSTANTS Objects,        \* what callers encode: a shape with its data
          Codeword(_),    \* the shards of an object: a function on shard numbers
          DataShards(_),  \* how many of them are enough
          Encodable(_),   \* the engine takes this shape
          Decodable(_)    \* ... and can restore it

CONSTANT Absent           \* a shard that was lost
CONSTANT None             \* no object

VARIABLES object,         \* the object whose shards these are, or None
          shards,         \* the shards, Absent where lost
          answer          \* the answer to the last call

vars == <<object, shards, answer>>

Init == object = None /\ shards = <<>> /\ answer = "none"

Present == {i \in DOMAIN shards : shards[i] # Absent}

(* The caller takes fresh buffers for another object.                        *)
Discard == object' = None /\ shards' = <<>> /\ answer' = "none"

Encode == \E o \in Objects :
  /\ object = None
  /\ Encodable(o)
  /\ object' = o
  /\ shards' = Codeword(o)
  /\ answer' = "ok"

RefuseEncode ==
  /\ \E o \in Objects : ~Encodable(o)
  /\ object' = None /\ shards' = <<>> /\ answer' = "refused"

Lose ==
  /\ object # None
  /\ DOMAIN shards' = DOMAIN shards
  /\ \A i \in DOMAIN shards : shards'[i] \in {shards[i], Absent}
  /\ answer' = "none"
  /\ UNCHANGED object

Restore ==
  /\ object # None
  /\ Present = DOMAIN shards \/ (Cardinality(Present) >= DataShards(object) /\ Decodable(object))
  /\ shards' = Codeword(object)
  /\ answer' = "ok"
  /\ UNCHANGED object

RefuseRestore ==
  /\ object # None
  /\ Cardinality(Present) < DataShards(object)
       \/ (Present # DOMAIN shards /\ ~Decodable(object))
  /\ answer' = "refused"
  /\ UNCHANGED <<object, shards>>

Next == Discard \/ Encode \/ RefuseEncode \/ Lose \/ Restore \/ RefuseRestore

Spec == Init /\ [][Next]_vars
=============================================================================
