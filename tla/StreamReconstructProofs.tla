----------------------- MODULE StreamReconstructProofs -----------------------
(***************************************************************************)
(* Proofs about reconstruct_stream and verify_stream, for every number of    *)
(* shards, every length and every block size: what a caller finds in its     *)
(* cursors after any history of losses, cuts, failed calls and retries, and  *)
(* that the answers of both calls are those of the whole shards.             *)
(***************************************************************************)
EXTENDS StreamVerify, WellFoundedInduction, SequenceTheorems, FiniteSetTheorems, TLAPS

(* ------------------------ facts about the naturals ----------------------- *)

\* A set of naturals that is not empty has a least element.
LEMMA LeastNat ==
  ASSUME NEW S, S \subseteq Nat, S # {}
  PROVE  \E m \in S : \A k \in S : m <= k
<1> DEFINE less == OpToRel(<, Nat)
<1>1. IsWellFoundedOn(less, Nat)
  BY NatLessThanWellFounded, Zenon
<1>2. \A j, k \in Nat : j < k => <<j, k>> \in less
  BY DEF OpToRel
<1> HIDE DEF less
<1>3. PICK m \in S : \A k \in S : <<k, m>> \notin less
  BY <1>1, WFMin
<1>4. m \in Nat /\ \A k \in S : k \in Nat
  OBVIOUS
<1>5. \A k \in S : ~(k < m)
  BY <1>2, <1>3, <1>4
<1> QED
  BY <1>4, <1>5

\* A set of naturals that is not empty and has a bound has a greatest element.
LEMMA GreatestNat ==
  ASSUME NEW n \in Nat, NEW S, S \subseteq 0 .. n, S # {}
  PROVE  \E m \in S : \A k \in S : k <= m
<1> DEFINE distances == {n - k : k \in S}
<1>1. distances \subseteq Nat /\ distances # {}
  <2>1. \A k \in 0 .. n : n - k \in Nat
    OBVIOUS
  <2>2. \A d \in distances : d \in Nat
    BY <2>1
  <2>3. PICK k \in S : TRUE
    OBVIOUS
  <2>4. n - k \in distances
    BY <2>3
  <2> QED
    BY <2>2, <2>4
<1>2. PICK d \in distances : \A e \in distances : d <= e
  <2> HIDE DEF distances
  <2> QED
    BY <1>1, LeastNat
<1>3. PICK m \in S : d = n - m
  BY <1>2
<1>4. \A k \in S : n - m <= n - k
  BY <1>2, <1>3
<1>5. \A k \in S : k \in Nat
  OBVIOUS
<1> QED
  BY <1>3, <1>4, <1>5

\* A cursor holds the beginning of its shard.
Contents == \A i \in Shards : \A k \in 1 .. Len(cursor[i]) : cursor[i][k] = k

\* Inside a call the present shards are those that were not empty, and stay as
\* they were found; a missing one has been recovered as far as the others have
\* been read, from rows that can be inverted.
InLoop ==
  /\ result = "none"
  /\ present # {} /\ present = {i \in Shards : before[i] # <<>>}
  /\ Cardinality(Missing) <= ParityShards
  /\ \A i \in present : cursor[i] = before[i] /\ pos <= Len(cursor[i])
  /\ \A i \in Missing : Len(cursor[i]) = pos
  /\ pos > 0 => Missing = {} \/ FirstPresent(present) \notin SingularRows

\* The inductive invariant of reconstruct_stream and its caller.
IInv ==
  /\ TypeOK
  /\ cursor \in [Shards -> Seq(Bytes)] /\ before \in [Shards -> Seq(Bytes)]
  /\ Contents
  /\ phase = "loop" => InLoop
  /\ OkIsWhole /\ BlocksDoNotMatter

----------------------------------------------------------------------------
(* Facts about the operators.                                                *)

LEMMA ConstantFacts ==
  /\ DataShards \in Nat \ {0} /\ ParityShards \in Nat \ {0} /\ Full \in Nat \ {0}
  /\ 0 \in Shards /\ \A i \in Shards : i \in Nat
  /\ \A size \in BlockSizes : size \in Nat \ {0}
  /\ IsFiniteSet(Shards) /\ Cardinality(Shards) = DataShards + ParityShards
<1>1. DataShards \in Nat \ {0} /\ ParityShards \in Nat \ {0} /\ Full \in Nat \ {0}
  BY CodecAssumption, StreamAssumption
<1>2. 0 \in Shards /\ \A i \in Shards : i \in Nat
  BY <1>1 DEF Shards
<1>3. \A size \in BlockSizes : size \in Nat \ {0}
  BY StreamAssumption
<1>4. IsFiniteSet(Shards) /\ Cardinality(Shards) = DataShards + ParityShards
  <2>1. 0 \in Int /\ DataShards + ParityShards - 1 \in Int
    BY <1>1
  <2>2. /\ IsFiniteSet(Shards)
        /\ Cardinality(Shards) = IF 0 > DataShards + ParityShards - 1 THEN 0
                                 ELSE (DataShards + ParityShards - 1) - 0 + 1
    BY <2>1, FS_Interval DEF Shards
  <2> QED
    BY <1>1, <2>2
<1> QED
  BY <1>1, <1>2, <1>3, <1>4

\* The smaller of two numbers.
LEMMA MinOfTwo ==
  ASSUME NEW a \in Nat, NEW b \in Nat
  PROVE  Min({a, b}) = IF a <= b THEN a ELSE b
<1>1. ASSUME NEW m \in {a, b}, \A y \in {a, b} : m =< y
      PROVE  m = IF a <= b THEN a ELSE b
  BY <1>1
<1>2. (IF a <= b THEN a ELSE b) \in {a, b}
  OBVIOUS
<1>3. \A y \in {a, b} : (IF a <= b THEN a ELSE b) =< y
  OBVIOUS
<1> QED
  BY <1>1, <1>2, <1>3 DEF Min

\* Max is the greatest of numbers up to n.
LEMMA MaxIsGreatest ==
  ASSUME NEW n \in Nat, NEW S, S # {}, \A x \in S : x \in 0 .. n
  PROVE  Max(S) \in S /\ \A x \in S : x <= Max(S)
<1>1. \A x \in S : x \in Nat
  OBVIOUS
<1>2. S \subseteq 0 .. n
  OBVIOUS
<1>3. \E m \in S : \A k \in S : k <= m
  BY <1>2, GreatestNat
<1>4. \E m \in S : \A k \in S : m >= k
  BY <1>1, <1>3
<1>5. Max(S) \in S /\ \A k \in S : Max(S) >= k
  BY <1>4 DEF Max
<1> QED
  BY <1>1, <1>5

\* As many shards are missing as are not present.
LEMMA MissingCount ==
  ASSUME NEW p \in SUBSET Shards
  PROVE  Cardinality(Shards \ p) > ParityShards <=> ~(Cardinality(p) >= DataShards)
<1>1. IsFiniteSet(p) /\ Cardinality(p) \in Nat
  BY ConstantFacts, FS_Subset, FS_CardinalityType
<1>2. Shards \cap p = p
  OBVIOUS
<1>3. Cardinality(Shards \ p) = Cardinality(Shards) - Cardinality(p)
  BY <1>2, ConstantFacts, FS_Difference
<1> QED
  BY <1>1, <1>3, ConstantFacts

\* There are rows to decode from.
LEMMA FirstPresentNotEmpty ==
  ASSUME NEW p \in SUBSET Shards, p # {}
  PROVE  FirstPresent(p) # {} /\ FirstPresent(p) \subseteq p
<1>1. p \subseteq Nat
  BY ConstantFacts
<1>2. PICK m \in p : \A k \in p : m <= k
  BY <1>1, LeastNat
<1>3. {j \in p : j < m} = {}
  <2>1. \A j \in p : ~(j < m)
    BY <1>2, ConstantFacts
  <2> QED
    BY <2>1
<1>4. Cardinality({j \in p : j < m}) = 0
  BY <1>3, FS_EmptySet
<1>5. m \in FirstPresent(p)
  BY <1>4, ConstantFacts DEF FirstPresent
<1> QED
  BY <1>5 DEF FirstPresent

LEMMA CursorLengths ==
  ASSUME IInv
  PROVE  \A i \in Shards : /\ Len(cursor[i]) \in 0 .. Full /\ cursor[i] \in Seq(Bytes)
                           /\ (cursor[i] = <<>>) = (Len(cursor[i]) = 0)
<1> SUFFICES ASSUME NEW i \in Shards
             PROVE  /\ Len(cursor[i]) \in 0 .. Full /\ cursor[i] \in Seq(Bytes)
                    /\ (cursor[i] = <<>>) = (Len(cursor[i]) = 0)
  OBVIOUS
<1>1. cursor[i] \in Seq(Bytes) /\ Len(cursor[i]) <= Full
  BY DEF IInv, TypeOK
<1>2. Len(cursor[i]) \in Nat
  BY <1>1, LenProperties
<1>3. cursor[i] = <<>> <=> Len(cursor[i]) = 0
  BY <1>1, EmptySeq
<1> QED
  BY <1>1, <1>2, <1>3, ConstantFacts

\* How much is read of each present shard.
LEMMA TakenFacts ==
  ASSUME IInv, phase = "loop"
  PROVE  /\ blockSize \in Nat \ {0} /\ pos \in 0 .. Full
         /\ \A i \in present :
              /\ i \in Shards /\ Len(cursor[i]) - pos \in Nat
              /\ Taken(i) = IF blockSize <= Len(cursor[i]) - pos THEN blockSize
                            ELSE Len(cursor[i]) - pos
              /\ Taken(i) \in 0 .. blockSize
<1>1. blockSize \in Nat \ {0} /\ pos \in 0 .. Full /\ InLoop
  BY ConstantFacts DEF IInv, TypeOK
<1> SUFFICES ASSUME NEW i \in present
             PROVE  /\ i \in Shards /\ Len(cursor[i]) - pos \in Nat
                    /\ Taken(i) = IF blockSize <= Len(cursor[i]) - pos THEN blockSize
                                  ELSE Len(cursor[i]) - pos
                    /\ Taken(i) \in 0 .. blockSize
  BY <1>1
<1>2. i \in Shards
  BY <1>1 DEF InLoop
<1>3. Len(cursor[i]) \in 0 .. Full /\ pos <= Len(cursor[i])
  BY <1>1, <1>2, CursorLengths DEF InLoop
<1>4. Len(cursor[i]) - pos \in Nat
  BY <1>1, <1>3, ConstantFacts
<1>5. Taken(i) = IF blockSize <= Len(cursor[i]) - pos THEN blockSize
                 ELSE Len(cursor[i]) - pos
  BY <1>1, <1>4, MinOfTwo DEF Taken
<1> QED
  BY <1>1, <1>2, <1>4, <1>5

LEMMA ActualFacts ==
  ASSUME IInv, phase = "loop"
  PROVE  /\ ActualLen \in 0 .. blockSize
         /\ \A i \in present : Taken(i) <= ActualLen
         /\ \E i \in present : Taken(i) = ActualLen
<1> DEFINE taken == {Taken(i) : i \in present}
<1>1. blockSize \in Nat /\ \A i \in present : Taken(i) \in 0 .. blockSize
  BY TakenFacts
<1>2. taken # {} /\ \A x \in taken : x \in 0 .. blockSize
  BY <1>1 DEF IInv, InLoop
<1>3. ActualLen = Max(taken)
  BY DEF ActualLen
<1> HIDE DEF taken
<1>4. Max(taken) \in taken /\ \A x \in taken : x <= Max(taken)
  BY <1>1, <1>2, MaxIsGreatest
<1> QED
  BY <1>2, <1>3, <1>4 DEF taken

----------------------------------------------------------------------------
(* The caller, and how a call begins and ends.                               *)

LEMMA CodewordFacts ==
  /\ Codeword \in Seq(Bytes) /\ Len(Codeword) = Full
  /\ \A k \in 1 .. Full : Codeword[k] = k
<1>1. \A k \in 1 .. Full : k \in Bytes
  BY ConstantFacts DEF Bytes
<1>2. Codeword = [k \in 1 .. Full |-> k] /\ Full \in Nat
  BY ConstantFacts DEF Codeword
<1> HIDE DEF Bytes
<1> QED
  BY <1>1, <1>2

\* Between calls nothing matters but what the cursors hold.
LEMMA IdleKeeps ==
  ASSUME phase' = "idle", result' = "none", present' = {}, pos' = 0,
         cursor' \in [Shards -> Seq(Bytes)], before' \in [Shards -> Seq(Bytes)],
         \A i \in Shards : Len(cursor'[i]) <= Full,
         Contents', blockSize' \in BlockSizes
  PROVE  IInv'
<1>1. TypeOK'
  BY ConstantFacts DEF TypeOK
<1>2. OkIsWhole' /\ BlocksDoNotMatter'
  BY DEF OkIsWhole, BlocksDoNotMatter
<1> QED
  BY <1>1, <1>2 DEF IInv

LEMMA InitInvariant == Init => IInv
<1> SUFFICES ASSUME Init
             PROVE  IInv
  OBVIOUS
<1>1. cursor \in [Shards -> Seq(Bytes)] /\ before \in [Shards -> Seq(Bytes)]
  BY CodewordFacts, EmptySeq DEF Init
<1>2. \A i \in Shards : cursor[i] = Codeword
  BY DEF Init
<1>3. Contents
  BY <1>2, CodewordFacts DEF Contents
<1>4. TypeOK
  <2>1. \A i \in Shards : Len(cursor[i]) <= Full
    BY <1>2, CodewordFacts, ConstantFacts
  <2> QED
    BY <1>1, <2>1, ConstantFacts DEF TypeOK, Init
<1>5. OkIsWhole /\ BlocksDoNotMatter /\ phase # "loop"
  BY DEF Init, OkIsWhole, BlocksDoNotMatter
<1> QED
  BY <1>1, <1>3, <1>4, <1>5 DEF IInv

\* The caller loses, cuts or fetches a shard.
LEMMA EditKeeps ==
  ASSUME IInv, NEW i \in Shards, NEW contents \in Seq(Bytes), Len(contents) <= Full,
         \A k \in 1 .. Len(contents) : contents[k] = k, Edit(i, contents)
  PROVE  IInv'
<1>1. /\ phase' = "idle" /\ result' = "none" /\ present' = {} /\ pos' = 0
      /\ blockSize' = blockSize /\ before' = [j \in Shards |-> <<>>]
      /\ cursor' = [cursor EXCEPT ![i] = contents]
  BY DEF Edit, Forgotten
<1>2. cursor \in [Shards -> Seq(Bytes)] /\ blockSize \in BlockSizes
  BY DEF IInv, TypeOK
<1>3. /\ cursor' \in [Shards -> Seq(Bytes)] /\ cursor'[i] = contents
      /\ \A j \in Shards \ {i} : cursor'[j] = cursor[j]
  BY <1>1, <1>2
<1>4. before' \in [Shards -> Seq(Bytes)]
  BY <1>1, EmptySeq
<1>5. \A j \in Shards : Len(cursor'[j]) <= Full
  BY <1>3 DEF IInv, TypeOK
<1>6. Contents'
  BY <1>3 DEF IInv, Contents
<1> QED
  BY <1>1, <1>2, <1>3, <1>4, <1>5, <1>6, IdleKeeps

LEMMA CallerKeeps ==
  ASSUME IInv, NEW i \in Shards, Lose(i) \/ Fetch(i) \/ \E n \in 1 .. Full : Cut(i, n)
  PROVE  IInv'
<1>1. CASE Lose(i)
  <2> DEFINE nothing == <<>>
  <2>1. nothing \in Seq(Bytes) /\ Len(nothing) = 0
    BY EmptySeq
  <2>2. Edit(i, nothing)
    BY <1>1 DEF Lose
  <2> HIDE DEF nothing
  <2>3. Len(nothing) <= Full /\ \A k \in 1 .. Len(nothing) : nothing[k] = k
    BY <2>1, ConstantFacts
  <2> QED
    BY <2>1, <2>2, <2>3, EditKeeps
<1>2. CASE Fetch(i)
  BY <1>2, CodewordFacts, ConstantFacts, EditKeeps DEF Fetch
<1>3. ASSUME NEW n \in 1 .. Full, Cut(i, n)
      PROVE  IInv'
  <2> DEFINE cut == SubSeq(cursor[i], 1, n)
  <2>1. n < Len(cursor[i]) /\ n \in Nat /\ n \in Int /\ 1 <= n
    BY <1>3, ConstantFacts DEF Cut
  <2>2. cursor[i] \in Seq(Bytes) /\ Len(cursor[i]) \in Nat /\ Len(cursor[i]) <= Full
    BY CursorLengths, ConstantFacts
  <2>3. \A k \in 1 .. n : cursor[i][k] \in Bytes /\ k \in 1 .. Len(cursor[i])
    BY <2>1, <2>2, LenProperties
  <2>4. /\ cut \in Seq(Bytes) /\ Len(cut) = IF 1 <= n THEN n - 1 + 1 ELSE 0
        /\ \A k \in 1 .. n - 1 + 1 : cut[k] = cursor[i][1 + k - 1]
    BY ONLY <2>1, <2>3, SubSeqProperties
  <2> HIDE DEF cut
  <2>5. Len(cut) = n /\ n <= Full
    BY <2>1, <2>2, <2>4, ConstantFacts
  <2>6. \A k \in 1 .. n : cut[k] = k
    <3>1. \A k \in 1 .. n : k \in 1 .. n - 1 + 1 /\ 1 + k - 1 = k
      BY <2>1
    <3>2. \A k \in 1 .. n : cursor[i][k] = k
      BY <2>3 DEF IInv, Contents
    <3> QED
      BY <2>4, <3>1, <3>2
  <2>7. Edit(i, cut)
    BY <1>3 DEF Cut, cut
  <2> QED
    BY <2>4, <2>5, <2>6, <2>7, EditKeeps
<1> QED
  BY <1>1, <1>2, <1>3

\* Some shards are empty, too many, or the loop begins.
LEMMA BeginKeeps ==
  ASSUME IInv, NEW size \in BlockSizes, Begin(size)
  PROVE  IInv'
<1> DEFINE found == {i \in Shards : cursor[i] # <<>>}
<1>1. /\ before' = cursor /\ cursor' = cursor /\ blockSize' = size /\ pos' = 0
      /\ present' = found
  BY DEF Begin
<1>2. Missing' = Shards \ found /\ found \in SUBSET Shards
  BY <1>1 DEF Missing
<1>3. Contents' /\ cursor' \in [Shards -> Seq(Bytes)] /\ before' \in [Shards -> Seq(Bytes)]
  BY <1>1 DEF IInv, Contents
<1>4. \A i \in Shards : cursor[i] \in Seq(Bytes) /\ Len(cursor[i]) <= Full
  BY DEF IInv, TypeOK
<1>5. Reconstructible(before)' =
        (\/ found = {}
         \/ /\ Cardinality(found) >= DataShards
            /\ \A i, j \in found : Len(cursor[i]) = Len(cursor[j])
            /\ found = Shards \/ FirstPresent(found) \notin SingularRows)
  BY <1>1 DEF Reconstructible
<1> DEFINE others == \/ phase' = "idle" /\ result' = "Ok" /\ found = {}
                     \/ /\ phase' = "idle" /\ result' = "TooFewShardsPresent"
                        /\ found # {} /\ Cardinality(Shards \ found) > ParityShards
                     \/ /\ phase' = "loop" /\ result' = "none"
                        /\ found # {} /\ ~(Cardinality(Shards \ found) > ParityShards)
<1>6. others
  BY <1>1 DEF Begin, Return
<1>7. TypeOK'
  <2>1. /\ phase' \in {"idle", "loop"} /\ pos' \in 0 .. Full /\ present' \in SUBSET Shards
        /\ result' \in {"none", "Ok", "TooFewShardsPresent", "IncorrectShardSize", "InvalidCustomMatrix"}
    BY <1>1, <1>2, <1>6, ConstantFacts
  <2> QED
    BY <1>1, <1>4, <2>1 DEF TypeOK
<1>8. OkIsWhole'
  <2> SUFFICES ASSUME result' = "Ok", NEW i \in Shards, NEW j \in Shards
               PROVE  Len(cursor'[i]) = Len(cursor'[j])
    BY DEF OkIsWhole
  <2>1. found = {}
    BY <1>6
  <2>2. cursor[i] = <<>> /\ cursor[j] = <<>>
    BY <2>1
  <2> QED
    BY <1>1, <2>2
<1>9. BlocksDoNotMatter'
  <2>1. CASE result' = "Ok"
    BY <1>5, <1>6, <2>1 DEF BlocksDoNotMatter
  <2>2. CASE result' = "TooFewShardsPresent"
    <3>1. found # {} /\ Cardinality(Shards \ found) > ParityShards
      BY <1>6, <2>2
    <3>2. ~(Cardinality(found) >= DataShards)
      BY <1>2, <3>1, MissingCount
    <3> HIDE DEF found
    <3> QED
      BY <1>5, <2>2, <3>1, <3>2 DEF BlocksDoNotMatter
  <2>3. CASE result' = "none"
    BY <2>3 DEF BlocksDoNotMatter
  <2> QED
    BY <1>6, <2>1, <2>2, <2>3
<1>10. (phase = "loop" => InLoop)'
  <2> SUFFICES ASSUME phase' = "loop"
               PROVE  InLoop'
    OBVIOUS
  <2>1. result' = "none" /\ found # {} /\ ~(Cardinality(Shards \ found) > ParityShards)
    BY <1>6
  <2>2. Cardinality(Missing)' <= ParityShards
    <3>1. IsFiniteSet(Shards \ found)
      BY ConstantFacts, FS_Difference
    <3>2. Cardinality(Shards \ found) \in Nat
      BY <3>1, FS_CardinalityType
    <3> QED
      BY <1>2, <2>1, <3>2, ConstantFacts
  <2>3. \A i \in Shards : 0 <= Len(cursor[i]) /\ (cursor[i] = <<>> => Len(cursor[i]) = 0)
    BY CursorLengths, ConstantFacts
  <2>4. \A i \in Shards \ found : Len(cursor[i]) = 0
    BY <2>3
  <2>5. present' = {i \in Shards : before'[i] # <<>>}
    BY <1>1
  <2>6. \A i \in found : 0 <= Len(cursor[i])
    BY <2>3
  <2> HIDE DEF found
  <2>7. ~(pos' > 0)
    BY <1>1
  <2> QED
    BY <1>1, <1>2, <2>1, <2>2, <2>4, <2>5, <2>6, <2>7 DEF InLoop
<1> QED
  BY <1>3, <1>7, <1>8, <1>9, <1>10 DEF IInv

\* A call returns from the loop.
LEMMA ReturningKeeps ==
  ASSUME IInv, phase = "loop", phase' = "idle",
         UNCHANGED <<cursor, present, pos, blockSize, before>>,
         result' \in {"Ok", "IncorrectShardSize", "InvalidCustomMatrix"},
         OkIsWhole', BlocksDoNotMatter'
  PROVE  IInv'
<1>1. TypeOK'
  BY DEF IInv, TypeOK
<1>2. Contents'
  BY DEF IInv, Contents
<1> QED
  BY <1>1, <1>2 DEF IInv

\* In the loop, whether the whole shards can be reconstructed is a question of
\* the present shards' lengths and of the rows.
LEMMA ReconstructibleInLoop ==
  ASSUME IInv, phase = "loop"
  PROVE  Reconstructible(before) <=>
           /\ \A i, j \in present : Len(cursor[i]) = Len(cursor[j])
           /\ Missing = {} \/ FirstPresent(present) \notin SingularRows
<1>1. InLoop /\ present \in SUBSET Shards
  BY DEF IInv, TypeOK
<1>2. Cardinality(present) >= DataShards
  <2>1. Cardinality(Missing) <= ParityShards /\ Cardinality(Missing) \in Nat
    <3>1. IsFiniteSet(Missing)
      BY ConstantFacts, FS_Difference DEF Missing
    <3> QED
      BY <1>1, <3>1, FS_CardinalityType DEF InLoop
  <2>2. ~(Cardinality(Shards \ present) > ParityShards)
    BY <2>1, ConstantFacts DEF Missing
  <2> QED
    BY <1>1, <2>2, MissingCount
<1>3. \A i \in present : before[i] = cursor[i]
  BY <1>1 DEF InLoop
<1>4. Missing = {} <=> present = Shards
  BY <1>1 DEF Missing
<1>5. present # {} /\ present = {i \in Shards : before[i] # <<>>}
  BY <1>1 DEF InLoop
<1> HIDE DEF InLoop
<1>6. Reconstructible(before) =
        (\/ present = {}
         \/ /\ Cardinality(present) >= DataShards
            /\ \A i, j \in present : Len(before[i]) = Len(before[j])
            /\ present = Shards \/ FirstPresent(present) \notin SingularRows)
  BY <1>5 DEF Reconstructible
<1>7. (\A i, j \in present : Len(before[i]) = Len(before[j]))
        = (\A i, j \in present : Len(cursor[i]) = Len(cursor[j]))
  BY <1>3
<1> QED
  BY <1>2, <1>4, <1>5, <1>6, <1>7

----------------------------------------------------------------------------
(* The turns of the loop.                                                    *)

\* Nothing was left to read of any present shard: all shards are as long as
\* has been read, and each missing one has been recovered that far.
LEMMA ReturnOkKeeps ==
  ASSUME IInv, ReturnOk
  PROVE  IInv'
<1>1. /\ phase = "loop" /\ ActualLen = 0 /\ phase' = "idle" /\ result' = "Ok"
      /\ UNCHANGED <<cursor, present, pos, blockSize, before>>
  BY DEF ReturnOk, Return
<1>2. InLoop /\ present \in SUBSET Shards
  BY <1>1 DEF IInv, TypeOK
<1>3. \A i \in present : Len(cursor[i]) = pos
  <2> SUFFICES ASSUME NEW i \in present
               PROVE  Len(cursor[i]) = pos
    OBVIOUS
  <2>1. Taken(i) <= ActualLen
    BY <1>1, ActualFacts
  <2>2. Taken(i) <= 0
    BY <1>1, <2>1
  <2>3. Taken(i) \in Nat
    BY <1>1, TakenFacts
  <2>4. Len(cursor[i]) - pos = 0 /\ i \in Shards /\ pos \in Nat
    BY <1>1, <2>2, <2>3, TakenFacts, ConstantFacts
  <2>5. Len(cursor[i]) \in Nat
    BY <2>4, CursorLengths, ConstantFacts
  <2> QED
    BY <2>4, <2>5
<1>4. \A i \in Shards : Len(cursor[i]) = pos
  BY <1>2, <1>3 DEF InLoop, Missing
<1>5. OkIsWhole'
  BY <1>1, <1>4 DEF OkIsWhole
<1>6. pos > 0
  <2>1. PICK i \in present : before[i] # <<>>
    BY <1>2 DEF InLoop
  <2>2. cursor[i] # <<>> /\ i \in Shards
    BY <1>2, <2>1 DEF InLoop
  <2>3. Len(cursor[i]) # 0
    BY <2>2, CursorLengths
  <2>4. Len(cursor[i]) = pos /\ pos \in 0 .. Full
    BY <1>1, <1>3, TakenFacts
  <2> QED
    BY <2>3, <2>4, ConstantFacts
<1>7. Missing = {} \/ FirstPresent(present) \notin SingularRows
  BY <1>2, <1>6 DEF InLoop
<1>8. Reconstructible(before)
  BY <1>1, <1>3, <1>7, ReconstructibleInLoop
<1>9. BlocksDoNotMatter'
  <2>1. Reconstructible(before')
    BY <1>1, <1>8
  <2> QED
    BY <1>1, <2>1 DEF BlocksDoNotMatter
<1> QED
  BY <1>1, <1>5, <1>9, ReturningKeeps

\* A shard ended where another did not: the two are not equally long.
LEMMA ReturnUnevenKeeps ==
  ASSUME IInv, ReturnUneven
  PROVE  IInv'
<1>1. /\ phase = "loop" /\ Uneven # {} /\ phase' = "idle" /\ result' = "IncorrectShardSize"
      /\ UNCHANGED <<cursor, present, pos, blockSize, before>>
  BY DEF ReturnUneven, Return
<1>2. PICK i \in present : Taken(i) # ActualLen
  BY <1>1 DEF Uneven
<1>3. PICK j \in present : Taken(j) = ActualLen
  BY <1>1, ActualFacts
<1>4. Len(cursor[i]) # Len(cursor[j])
  <2>1. Len(cursor[i]) = Len(cursor[j]) => Taken(i) = Taken(j)
    BY <1>1, TakenFacts
  <2> QED
    BY <1>2, <1>3, <2>1
<1>5. ~Reconstructible(before)
  BY <1>1, <1>4, ReconstructibleInLoop
<1>6. OkIsWhole' /\ BlocksDoNotMatter'
  <2>1. ~Reconstructible(before')
    BY <1>1, <1>5
  <2> QED
    BY <1>1, <2>1 DEF OkIsWhole, BlocksDoNotMatter
<1> QED
  BY <1>1, <1>6, ReturningKeeps

LEMMA ReturnSingularKeeps ==
  ASSUME IInv, ReturnSingular
  PROVE  IInv'
<1>1. /\ phase = "loop" /\ Missing # {} /\ FirstPresent(present) \in SingularRows
      /\ phase' = "idle" /\ result' = "InvalidCustomMatrix"
      /\ UNCHANGED <<cursor, present, pos, blockSize, before>>
  BY DEF ReturnSingular, Return
<1>2. ~Reconstructible(before)
  BY <1>1, ReconstructibleInLoop
<1>3. OkIsWhole' /\ BlocksDoNotMatter'
  <2>1. ~Reconstructible(before')
    BY <1>1, <1>2
  <2> QED
    BY <1>1, <2>1 DEF OkIsWhole, BlocksDoNotMatter
<1> QED
  BY <1>1, <1>3, ReturningKeeps

\* Of a block that every present shard has, the byte recovered is that of its
\* own offset.
LEMMA RecoveredIsCodeword ==
  ASSUME IInv, phase = "loop", Uneven = {}, NEW o \in 1 .. ActualLen
  PROVE  RecoveredByte(pos + o) = pos + o
<1>1. InLoop /\ present \in SUBSET Shards /\ pos \in Nat
  BY TakenFacts, ConstantFacts DEF IInv, TypeOK
<1>2. ActualLen \in Nat /\ o \in Nat
  BY ActualFacts, TakenFacts
<1>3. ASSUME NEW j \in FirstPresent(present)
      PROVE  (IF pos + o <= Len(cursor[j]) THEN cursor[j][pos + o] ELSE 0) = pos + o
  <2>1. j \in present /\ j \in Shards
    BY <1>1 DEF FirstPresent
  <2>2. Taken(j) = ActualLen
    BY <2>1 DEF Uneven
  <2>3. Len(cursor[j]) \in Nat /\ ActualLen <= Len(cursor[j]) - pos
    BY <1>1, <1>2, <2>1, <2>2, TakenFacts, CursorLengths, ConstantFacts
  <2>4. pos + o <= Len(cursor[j]) /\ pos + o \in 1 .. Len(cursor[j])
    BY <1>1, <1>2, <2>3
  <2> QED
    BY <2>1, <2>4 DEF IInv, Contents
<1> DEFINE column == {IF pos + o <= Len(cursor[j]) THEN cursor[j][pos + o] ELSE 0 :
                        j \in FirstPresent(present)}
<1>4. FirstPresent(present) # {}
  BY <1>1, FirstPresentNotEmpty DEF InLoop
<1>5. column = {pos + o}
  BY <1>3, <1>4
<1>6. RecoveredByte(pos + o) = IF Cardinality(column) = 1 THEN CHOOSE byte \in column : TRUE ELSE 0
  BY DEF RecoveredByte
<1> HIDE DEF column
<1>7. Cardinality(column) = 1
  BY <1>5, FS_Singleton
<1> QED
  BY <1>5, <1>6, <1>7

LEMMA RecoverBlockKeeps ==
  ASSUME IInv, RecoverBlock
  PROVE  IInv'
<1>1. /\ phase = "loop" /\ ActualLen > 0 /\ Uneven = {}
      /\ Missing = {} \/ FirstPresent(present) \notin SingularRows
      /\ cursor' = [i \in Shards |-> IF i \in Missing THEN cursor[i] \o Recovered ELSE cursor[i]]
      /\ pos' = pos + ActualLen
      /\ UNCHANGED <<phase, present, blockSize, result, before>>
  BY DEF RecoverBlock
<1>2. InLoop /\ present \in SUBSET Shards /\ pos \in Nat
  BY <1>1, TakenFacts, ConstantFacts DEF IInv, TypeOK
<1>3. ActualLen \in Nat
  BY <1>1, ActualFacts, TakenFacts
<1>4. \A i \in present : pos + ActualLen <= Len(cursor[i])
  <2> SUFFICES ASSUME NEW i \in present
               PROVE  pos + ActualLen <= Len(cursor[i])
    OBVIOUS
  <2>1. Taken(i) = ActualLen /\ i \in Shards
    BY <1>1, <1>2 DEF Uneven
  <2>2. Len(cursor[i]) \in Nat /\ ActualLen <= Len(cursor[i]) - pos
    BY <1>1, <1>2, <2>1, TakenFacts, CursorLengths, ConstantFacts
  <2> QED
    BY <1>2, <1>3, <2>2
<1>5. pos + ActualLen \in 0 .. Full
  <2>1. PICK i \in present : i \in Shards
    BY <1>2 DEF InLoop
  <2>2. Len(cursor[i]) \in Nat /\ Len(cursor[i]) <= Full
    BY <2>1, CursorLengths, ConstantFacts
  <2> QED
    BY <1>2, <1>3, <1>4, <2>2, ConstantFacts
<1>6. \A o \in 1 .. ActualLen : RecoveredByte(pos + o) = pos + o /\ pos + o \in Bytes
  <2>1. \A o \in 1 .. ActualLen : pos + o \in Bytes
    BY <1>2, <1>3, <1>5, ConstantFacts DEF Bytes
  <2> QED
    BY <1>1, <2>1, RecoveredIsCodeword
<1>7. /\ Recovered \in Seq(Bytes) /\ Len(Recovered) = ActualLen
      /\ \A o \in 1 .. ActualLen : Recovered[o] = pos + o
  <2>1. Recovered = [o \in 1 .. ActualLen |-> RecoveredByte(pos + o)]
    BY DEF Recovered
  <2>2. \A o \in 1 .. ActualLen : RecoveredByte(pos + o) \in Bytes
    BY <1>6
  <2> HIDE DEF Recovered, RecoveredByte, Bytes
  <2> QED
    BY <1>3, <1>6, <2>1, <2>2
<1>8. ASSUME NEW i \in Missing
      PROVE  /\ cursor'[i] \in Seq(Bytes) /\ Len(cursor'[i]) = pos + ActualLen
             /\ \A k \in 1 .. pos + ActualLen : cursor'[i][k] = k
  <2>1. i \in Shards /\ Len(cursor[i]) = pos /\ cursor[i] \in Seq(Bytes)
    BY <1>2, CursorLengths DEF InLoop, Missing
  <2>2. cursor'[i] = cursor[i] \o Recovered
    BY <1>1, <2>1
  <2>3. /\ cursor'[i] \in Seq(Bytes) /\ Len(cursor'[i]) = pos + ActualLen
        /\ \A k \in 1 .. pos + ActualLen :
             cursor'[i][k] = IF k <= pos THEN cursor[i][k] ELSE Recovered[k - pos]
    <3>1. Recovered \in Seq(Bytes) /\ cursor[i] \in Seq(Bytes)
      BY <1>7, <2>1
    <3>2. /\ cursor[i] \o Recovered \in Seq(Bytes)
          /\ Len(cursor[i] \o Recovered) = Len(cursor[i]) + Len(Recovered)
          /\ \A k \in 1 .. Len(cursor[i]) + Len(Recovered) : (cursor[i] \o Recovered)[k] =
               IF k <= Len(cursor[i]) THEN cursor[i][k] ELSE Recovered[k - Len(cursor[i])]
      BY ONLY <3>1, ConcatProperties
    <3> QED
      BY <1>7, <2>1, <2>2, <3>2
  <2>4. ASSUME NEW k \in 1 .. pos + ActualLen
        PROVE  cursor'[i][k] = k
    <3>1. CASE k <= pos
      <4>1. k \in 1 .. Len(cursor[i])
        BY <1>2, <2>1, <3>1
      <4>2. cursor[i][k] = k
        BY <1>2, <2>1, <4>1 DEF IInv, Contents
      <4> QED
        BY <2>3, <3>1, <4>2
    <3>2. CASE ~(k <= pos)
      <4>1. k - pos \in 1 .. ActualLen /\ pos + (k - pos) = k
        BY <1>2, <1>3, <3>2
      <4> QED
        BY <1>7, <2>3, <3>2, <4>1
    <3> QED
      BY <3>1, <3>2
  <2> QED
    BY <2>3, <2>4
<1>9. \A i \in present : i \in Shards /\ cursor'[i] = cursor[i]
  BY <1>1, <1>2 DEF Missing
<1>10. \A i \in Shards : i \in present \/ i \in Missing
  BY DEF Missing
<1>11. \A i \in Shards : cursor'[i] \in Seq(Bytes) /\ Len(cursor'[i]) <= Full
  BY <1>5, <1>8, <1>9, <1>10 DEF IInv, TypeOK
<1>12. cursor' \in [Shards -> Seq(Bytes)]
  BY <1>1, <1>11
<1>13. Contents'
  BY <1>8, <1>9, <1>10 DEF IInv, Contents
<1>14. TypeOK'
  BY <1>1, <1>5, <1>11 DEF IInv, TypeOK
<1>15. InLoop'
  <2>1. Missing' = Missing
    BY <1>1 DEF Missing
  <2>2. \A i \in Missing : Len(cursor'[i]) = pos'
    BY <1>1, <1>8
  <2>3. \A i \in present : cursor'[i] = before[i] /\ pos' <= Len(cursor'[i])
    BY <1>1, <1>2, <1>4, <1>9 DEF InLoop
  <2> QED
    BY <1>1, <1>2, <2>1, <2>2, <2>3 DEF InLoop
<1>16. OkIsWhole' /\ BlocksDoNotMatter'
  BY <1>1, <1>2 DEF InLoop, OkIsWhole, BlocksDoNotMatter
<1> QED
  BY <1>1, <1>12, <1>13, <1>14, <1>15, <1>16 DEF IInv

LEMMA StutterKeeps ==
  ASSUME IInv, UNCHANGED vars
  PROVE  IInv'
<1> USE DEF vars
<1>1. TypeOK' /\ Contents' /\ OkIsWhole'
  BY DEF IInv, TypeOK, Contents, OkIsWhole
<1>2. (phase = "loop" => InLoop)'
  BY DEF IInv, InLoop, Missing
<1>3. BlocksDoNotMatter'
  BY DEF IInv, BlocksDoNotMatter, Reconstructible
<1> QED
  BY <1>1, <1>2, <1>3 DEF IInv

LEMMA CallNextKeeps ==
  ASSUME IInv, CallNext
  PROVE  IInv'
BY ReturnOkKeeps, ReturnUnevenKeeps, ReturnSingularKeeps, RecoverBlockKeeps DEF CallNext

\* No step of the caller or of a call breaks the invariant.
LEMMA StepKeeps ==
  ASSUME IInv, [Next]_vars
  PROVE  IInv'
BY CallerKeeps, BeginKeeps, CallNextKeeps, StutterKeeps DEF Next

LEMMA Invariance == Spec => []IInv
BY InitInvariant, StepKeeps, PTL DEF Spec

\* A cursor by its bytes is a prefix of the codeword.
LEMMA ContentsArePrefixes ==
  ASSUME IInv
  PROVE  ContentsAreCodeword
<1> SUFFICES ASSUME NEW i \in Shards
             PROVE  cursor[i] = SubSeq(Codeword, 1, Len(cursor[i]))
  BY DEF ContentsAreCodeword
<1>1. cursor[i] \in Seq(Bytes) /\ Len(cursor[i]) \in Nat /\ Len(cursor[i]) <= Full
  BY CursorLengths, ConstantFacts
<1>2. \A k \in 1 .. Len(cursor[i]) : Codeword[k] = k /\ cursor[i][k] = k
  BY <1>1, CodewordFacts, ConstantFacts DEF IInv, Contents
<1>3. \A k \in 1 .. Len(cursor[i]) : Codeword[k] \in Bytes
  BY <1>1, <1>2, ConstantFacts DEF Bytes
<1> DEFINE prefix == SubSeq(Codeword, 1, Len(cursor[i]))
<1>4. /\ prefix \in Seq(Bytes)
      /\ Len(prefix) = IF 1 <= Len(cursor[i]) THEN Len(cursor[i]) - 1 + 1 ELSE 0
      /\ \A k \in 1 .. Len(cursor[i]) - 1 + 1 : prefix[k] = Codeword[1 + k - 1]
  BY ONLY <1>1, <1>3, SubSeqProperties
<1> HIDE DEF prefix
<1>5. Len(prefix) = Len(cursor[i])
  BY <1>1, <1>4
<1>6. \A k \in 1 .. Len(cursor[i]) : cursor[i][k] = prefix[k]
  <2>1. \A k \in 1 .. Len(cursor[i]) : k \in 1 .. Len(cursor[i]) - 1 + 1 /\ 1 + k - 1 = k
    BY <1>1
  <2> QED
    BY <1>2, <1>4, <2>1
<1>7. cursor[i] = prefix
  BY <1>1, <1>4, <1>5, <1>6, SeqEqual
<1> QED
  BY <1>7 DEF prefix

\* Every variable keeps its type, and no cursor outgrows its shard.
THEOREM TypeCorrect == Spec => []TypeOK
<1>1. IInv => TypeOK
  BY DEF IInv
<1> QED
  BY <1>1, Invariance, PTL

\* Whatever is lost, cut, left behind by a failed call and retried, every
\* cursor holds the beginning of its own shard.
THEOREM CursorsHoldTheirShards == Spec => []ContentsAreCodeword
BY ContentsArePrefixes, Invariance, PTL

\* Ok means that all shards are there and equally long.
THEOREM OkMeansWhole == Spec => []OkIsWhole
<1>1. IInv => OkIsWhole
  BY DEF IInv
<1> QED
  BY <1>1, Invariance, PTL

\* The answer of the call is that of the whole shards, whatever the block size.
THEOREM AnswerIsOfTheWhole == Spec => []BlocksDoNotMatter
<1>1. IInv => BlocksDoNotMatter
  BY DEF IInv
<1> QED
  BY <1>1, Invariance, PTL

----------------------------------------------------------------------------
(* verify_stream between the calls of reconstruct_stream.                    *)

\* After r columns have been verified the cursors have left what was unread
\* when the call began without its first r columns, and those were valid.
VerifiedUpTo(r) ==
  /\ \A i \in Shards :
       /\ Len(Unread(i)) = IF r <= Len(before[i]) THEN Len(before[i]) - r ELSE 0
       /\ \A k \in 1 .. Len(Unread(i)) : Unread(i)[k] = before[i][r + k]
  /\ \A k \in 1 .. r : Valid(Column(before, k))

\* The inductive invariant of both calls and their caller.
SessionInv ==
  /\ IInv
  /\ at \in [Shards -> Nat] /\ \A i \in Shards : at[i] <= Len(cursor[i])
  /\ \A i \in Shards : Len(before[i]) <= Full
  /\ verdict \in {"none", "reading", "valid", "invalid"}
  /\ phase = "loop" => verdict = "none" /\ \A i \in present : at[i] = pos
  /\ verdict = "reading" => \E r \in Nat : VerifiedUpTo(r)
  /\ VerdictIsOfTheUnread

LEMMA SessionInitInvariant == SessionInit => SessionInv
<1> SUFFICES ASSUME SessionInit
             PROVE  SessionInv
  OBVIOUS
<1>1. IInv /\ phase = "idle"
  BY InitInvariant DEF SessionInit, Init
<1>2. at = [i \in Shards |-> 0] /\ verdict = "none" /\ before = [i \in Shards |-> <<>>]
  BY DEF SessionInit, Init
<1>3. \A i \in Shards : at[i] <= Len(cursor[i])
  BY <1>1, <1>2, CursorLengths, ConstantFacts
<1>4. \A i \in Shards : Len(before[i]) <= Full
  BY <1>2, EmptySeq, ConstantFacts
<1>5. VerdictIsOfTheUnread
  BY <1>2 DEF VerdictIsOfTheUnread
<1> QED
  BY <1>1, <1>2, <1>3, <1>4, <1>5 DEF SessionInv

\* When neither call has returned a verdict, only the positions have to be right.
LEMMA NoVerdictKeeps ==
  ASSUME IInv', verdict' = "none", at' \in [Shards -> Nat],
         \A i \in Shards : at'[i] <= Len(cursor'[i]) /\ Len(before'[i]) <= Full,
         phase' = "loop" => \A i \in present' : at'[i] = pos'
  PROVE  SessionInv'
<1>1. VerdictIsOfTheUnread'
  BY DEF VerdictIsOfTheUnread
<1> QED
  BY <1>1 DEF SessionInv

LEMMA ReplaceKeeps ==
  ASSUME SessionInv, NEW i \in Shards, Replace(i)
  PROVE  SessionInv'
<1>1. IInv'
  BY CallerKeeps DEF SessionInv, Replace
<1>2. /\ at' = [at EXCEPT ![i] = 0] /\ verdict' = "none"
      /\ phase' = "idle" /\ before' = [j \in Shards |-> <<>>]
      /\ \A j \in Shards \ {i} : cursor'[j] = cursor[j]
  BY DEF Replace, Lose, Fetch, Cut, Edit, Forgotten, SessionInv, IInv
<1>3. /\ at' \in [Shards -> Nat] /\ at'[i] = 0
      /\ \A j \in Shards \ {i} : at'[j] = at[j]
  BY <1>2 DEF SessionInv
<1>4. \A j \in Shards : 0 <= Len(cursor'[j])
  <2>1. \A j \in Shards : cursor'[j] \in Seq(Bytes)
    BY <1>1 DEF IInv
  <2> QED
    BY <2>1, LenProperties
<1>5. \A j \in Shards : at'[j] <= Len(cursor'[j])
  BY <1>2, <1>3, <1>4 DEF SessionInv
<1>6. \A j \in Shards : Len(before'[j]) <= Full
  BY <1>2, EmptySeq, ConstantFacts
<1> QED
  BY <1>1, <1>2, <1>3, <1>5, <1>6, NoVerdictKeeps

LEMMA RewindKeeps ==
  ASSUME SessionInv, Rewind
  PROVE  SessionInv'
<1>1. /\ at' = [i \in Shards |-> 0] /\ verdict' = "none" /\ phase' = "idle"
      /\ before' = [i \in Shards |-> <<>>] /\ result' = "none" /\ present' = {} /\ pos' = 0
      /\ cursor' = cursor /\ blockSize' = blockSize
  BY DEF Rewind, Forgotten
<1>2. before' \in [Shards -> Seq(Bytes)] /\ \A j \in Shards : Len(before'[j]) <= Full
  BY <1>1, EmptySeq, ConstantFacts
<1>3. IInv'
  <2>1. Contents'
    BY <1>1 DEF SessionInv, IInv, Contents
  <2>2. /\ cursor' \in [Shards -> Seq(Bytes)] /\ blockSize' \in BlockSizes
        /\ \A i \in Shards : Len(cursor'[i]) <= Full
    BY <1>1 DEF SessionInv, IInv, TypeOK
  <2> QED
    BY <1>1, <1>2, <2>1, <2>2, IdleKeeps
<1>4. \A i \in Shards : at'[i] <= Len(cursor'[i])
  BY <1>1, CursorLengths, ConstantFacts DEF SessionInv
<1> QED
  BY <1>1, <1>2, <1>3, <1>4, NoVerdictKeeps

LEMMA BeginReconstructKeeps ==
  ASSUME SessionInv, NEW size \in BlockSizes, BeginReconstruct(size)
  PROVE  SessionInv'
<1>1. IInv'
  BY BeginKeeps DEF SessionInv, BeginReconstruct
<1>2. /\ at' = [i \in Shards |-> IF phase' = "loop" /\ i \in present' THEN 0 ELSE at[i]]
      /\ verdict' = "none" /\ cursor' = cursor /\ before' = cursor /\ pos' = 0
      /\ present' \subseteq Shards
  BY DEF BeginReconstruct, Begin
<1>3. \A i \in Shards : /\ at[i] \in Nat /\ at[i] <= Len(cursor[i]) /\ 0 <= Len(cursor[i])
                        /\ Len(cursor[i]) <= Full
  BY CursorLengths, ConstantFacts DEF SessionInv
<1>4. at' \in [Shards -> Nat]
  BY <1>2, <1>3
<1>5. \A i \in Shards : at'[i] <= Len(cursor'[i])
  BY <1>2, <1>3
<1>6. phase' = "loop" => \A i \in present' : at'[i] = pos'
  BY <1>2
<1> QED
  BY <1>1, <1>2, <1>3, <1>4, <1>5, <1>6, NoVerdictKeeps

LEMMA ReconstructStepKeeps ==
  ASSUME SessionInv, ReconstructStep
  PROVE  SessionInv'
<1>1. IInv /\ IInv'
  BY CallNextKeeps DEF SessionInv, ReconstructStep
<1>2. /\ phase = "loop" /\ verdict' = "none" /\ before' = before /\ present' = present
      /\ at' = [i \in Shards |-> IF i \in present THEN at[i] + Taken(i) ELSE at[i]]
  <2>1. phase = "loop" /\ before' = before /\ present' = present
    BY DEF ReconstructStep, CallNext, ReturnOk, ReturnUneven, ReturnSingular, RecoverBlock
  <2> QED
    BY <2>1 DEF ReconstructStep, SessionInv
<1>3. \A i \in present : at[i] = pos /\ i \in Shards
  BY <1>2, TakenFacts DEF SessionInv
<1>4. /\ blockSize \in Nat /\ pos \in Nat
      /\ \A i \in present : Taken(i) \in Nat /\ Taken(i) <= Len(cursor[i]) - pos
  BY <1>1, <1>2, TakenFacts, ConstantFacts
<1>5. \A i \in Shards : /\ at[i] \in Nat /\ at[i] <= Len(cursor[i]) /\ Len(cursor[i]) \in Nat
                        /\ Len(before[i]) <= Full
  BY <1>1, CursorLengths, ConstantFacts DEF SessionInv
<1>6. \A i \in present : at'[i] = pos + Taken(i) /\ pos + Taken(i) <= Len(cursor[i])
  BY <1>2, <1>3, <1>4, <1>5
<1>7. \A i \in Shards \ present : at'[i] = at[i]
  BY <1>2
<1>8. at' \in [Shards -> Nat]
  BY <1>2, <1>3, <1>4, <1>5
<1>9. CASE cursor' = cursor /\ phase' = "idle"
  <2>1. \A i \in Shards : at'[i] <= Len(cursor'[i])
    BY <1>5, <1>6, <1>7, <1>9
  <2> QED
    BY <1>1, <1>2, <1>5, <1>8, <1>9, <2>1, NoVerdictKeeps
<1>10. CASE RecoverBlock
  <2>1. /\ Uneven = {} /\ phase' = "loop" /\ pos' = pos + ActualLen
    BY <1>2, <1>10 DEF RecoverBlock
  <2>2. \A i \in present : Taken(i) = ActualLen
    BY <2>1 DEF Uneven
  <2>3. \A i \in present : at'[i] = pos'
    BY <1>6, <2>1, <2>2
  <2>4. InLoop /\ InLoop'
    BY <1>1, <1>2, <2>1 DEF IInv
  <2>5. ASSUME NEW i \in Shards
        PROVE  at'[i] <= Len(cursor'[i])
    <3>1. CASE i \in present
      BY <1>2, <2>3, <2>4, <3>1 DEF InLoop
    <3>2. CASE i \notin present
      <4>1. Len(cursor[i]) = pos /\ Len(cursor'[i]) = pos' /\ at'[i] = at[i]
        BY <1>2, <1>7, <2>4, <3>2 DEF InLoop, Missing
      <4>2. ActualLen \in Nat
        BY <1>1, <1>2, ActualFacts, TakenFacts
      <4> QED
        BY <1>4, <1>5, <2>1, <4>1, <4>2
    <3> QED
      BY <3>1, <3>2
  <2> QED
    BY <1>1, <1>2, <1>5, <1>8, <2>3, <2>5, NoVerdictKeeps
<1> QED
  BY <1>9, <1>10 DEF ReconstructStep, CallNext, ReturnOk, ReturnUneven, ReturnSingular, Return

\* What a cursor has left to read.
LEMMA UnreadFacts ==
  ASSUME SessionInv, NEW i \in Shards
  PROVE  /\ Unread(i) \in Seq(Bytes)
         /\ Len(Unread(i)) = Len(cursor[i]) - at[i]
         /\ Len(Unread(i)) \in 0 .. Full
         /\ \A k \in 1 .. Len(Unread(i)) : Unread(i)[k] = cursor[i][at[i] + k]
<1>1. /\ at[i] \in Nat /\ Len(cursor[i]) \in Nat /\ at[i] <= Len(cursor[i])
      /\ Len(cursor[i]) <= Full /\ cursor[i] \in Seq(Bytes)
  BY CursorLengths, ConstantFacts DEF SessionInv
<1>2. at[i] + 1 \in Int /\ Len(cursor[i]) \in Int
  BY <1>1
<1>3. \A k \in at[i] + 1 .. Len(cursor[i]) : cursor[i][k] \in Bytes
  <2>1. \A k \in at[i] + 1 .. Len(cursor[i]) : k \in 1 .. Len(cursor[i])
    BY <1>1
  <2> QED
    BY <1>1, <2>1, LenProperties
<1>4. /\ Unread(i) \in Seq(Bytes)
      /\ Len(Unread(i)) = IF at[i] + 1 <= Len(cursor[i]) THEN Len(cursor[i]) - (at[i] + 1) + 1 ELSE 0
      /\ \A k \in 1 .. Len(cursor[i]) - (at[i] + 1) + 1 : Unread(i)[k] = cursor[i][(at[i] + 1) + k - 1]
  <2> HIDE DEF Bytes
  <2> QED
    BY ONLY <1>2, <1>3, SubSeqProperties DEF Unread
<1>5. Len(Unread(i)) = Len(cursor[i]) - at[i] /\ Len(Unread(i)) \in 0 .. Full
  BY <1>1, <1>4, ConstantFacts
<1>6. ASSUME NEW k \in 1 .. Len(Unread(i))
      PROVE  Unread(i)[k] = cursor[i][at[i] + k]
  <2>1. k \in 1 .. Len(cursor[i]) - (at[i] + 1) + 1 /\ (at[i] + 1) + k - 1 = at[i] + k
    BY <1>1, <1>5
  <2> QED
    BY <1>4, <2>1
<1> QED
  BY <1>4, <1>5, <1>6

LEMMA BeginVerifyKeeps ==
  ASSUME SessionInv, NEW size \in BlockSizes, BeginVerify(size)
  PROVE  SessionInv'
<1>1. /\ verdict' = "reading" /\ phase' = "idle" /\ blockSize' = size
      /\ before' = [i \in Shards |-> Unread(i)]
      /\ result' = "none" /\ present' = {} /\ pos' = 0
      /\ cursor' = cursor /\ at' = at
  BY DEF BeginVerify
<1>2. \A i \in Shards : /\ before'[i] = Unread(i) /\ Unread(i) \in Seq(Bytes)
                        /\ Len(Unread(i)) \in 0 .. Full
  BY <1>1, UnreadFacts
<1>3. before' \in [Shards -> Seq(Bytes)] /\ \A i \in Shards : Len(before'[i]) <= Full
  BY <1>1, <1>2, ConstantFacts
<1>4. IInv'
  <2>1. Contents'
    BY <1>1 DEF SessionInv, IInv, Contents
  <2>2. /\ cursor' \in [Shards -> Seq(Bytes)] /\ \A i \in Shards : Len(cursor'[i]) <= Full
    BY <1>1 DEF SessionInv, IInv, TypeOK
  <2> QED
    BY <1>1, <1>3, <2>1, <2>2, IdleKeeps
<1>5. VerifiedUpTo(0)'
  <2>1. \A i \in Shards : Unread(i)' = Unread(i)
    BY <1>1 DEF Unread
  <2>2. \A i \in Shards : Len(Unread(i)) \in Nat /\ \A k \in 1 .. Len(Unread(i)) : 0 + k = k
    BY <1>2, ConstantFacts
  <2>3. \A i \in Shards :
          /\ Len(Unread(i)') = IF 0 <= Len(before'[i]) THEN Len(before'[i]) - 0 ELSE 0
          /\ \A k \in 1 .. Len(Unread(i)') : Unread(i)'[k] = before'[i][0 + k]
    BY <1>2, <2>1, <2>2
  <2> QED
    BY <2>3 DEF VerifiedUpTo
<1>6. VerdictIsOfTheUnread'
  BY <1>1 DEF VerdictIsOfTheUnread
<1>7. at' \in [Shards -> Nat] /\ \A i \in Shards : at'[i] <= Len(cursor'[i])
  BY <1>1 DEF SessionInv
<1> QED
  BY <1>1, <1>3, <1>4, <1>5, <1>6, <1>7 DEF SessionInv

\* How much of a block each cursor gives.
LEMMA BlockFacts ==
  ASSUME SessionInv
  PROVE  /\ blockSize \in Nat \ {0}
         /\ \A i \in Shards : Read(i) = IF blockSize <= Len(Unread(i)) THEN blockSize
                                        ELSE Len(Unread(i))
         /\ BlockLen \in 0 .. blockSize
         /\ \A i \in Shards : Read(i) \in 0 .. blockSize /\ Read(i) <= BlockLen
         /\ \E i \in Shards : Read(i) = BlockLen
<1>1. blockSize \in Nat \ {0}
  BY ConstantFacts DEF SessionInv, IInv, TypeOK
<1>2. \A i \in Shards : Len(Unread(i)) \in Nat
  BY UnreadFacts, ConstantFacts
<1>3. \A i \in Shards : Read(i) = IF blockSize <= Len(Unread(i)) THEN blockSize
                                 ELSE Len(Unread(i))
  BY <1>1, <1>2, MinOfTwo DEF Read
<1>4. \A i \in Shards : Read(i) \in 0 .. blockSize
  BY <1>1, <1>2, <1>3
<1> DEFINE reads == {Read(i) : i \in Shards}
<1>5. reads # {} /\ \A x \in reads : x \in 0 .. blockSize
  BY <1>4, ConstantFacts
<1>6. BlockLen = Max(reads)
  BY DEF BlockLen
<1> HIDE DEF reads
<1>7. Max(reads) \in reads /\ \A x \in reads : x <= Max(reads)
  BY <1>1, <1>5, MaxIsGreatest
<1>8. \A i \in Shards : Read(i) <= BlockLen
  BY <1>6, <1>7 DEF reads
<1>9. BlockLen \in 0 .. blockSize /\ \E i \in Shards : Read(i) = BlockLen
  BY <1>5, <1>6, <1>7 DEF reads
<1> QED
  BY <1>1, <1>3, <1>4, <1>8, <1>9

\* The columns of a block are the next ones of what was unread at the start.
LEMMA NextColumns ==
  ASSUME SessionInv, NEW r \in Nat, VerifiedUpTo(r), NEW k \in Nat \ {0}
  PROVE  Column([i \in Shards |-> Unread(i)], k) = Column(before, r + k)
<1> DEFINE rest == [i \in Shards |-> Unread(i)]
<1>1. ASSUME NEW i \in Shards
      PROVE  (IF k <= Len(rest[i]) THEN rest[i][k] ELSE 0)
               = (IF r + k <= Len(before[i]) THEN before[i][r + k] ELSE 0)
  <2>1. rest[i] = Unread(i) /\ Len(Unread(i)) \in Nat
    BY UnreadFacts, ConstantFacts
  <2>2. before[i] \in Seq(Bytes)
    BY DEF SessionInv, IInv
  <2>3. Len(before[i]) \in Nat
    BY <2>2, LenProperties
  <2>4. Len(Unread(i)) = IF r <= Len(before[i]) THEN Len(before[i]) - r ELSE 0
    BY DEF VerifiedUpTo
  <2>5. k <= Len(Unread(i)) <=> r + k <= Len(before[i])
    BY <2>3, <2>4
  <2>6. k <= Len(Unread(i)) => Unread(i)[k] = before[i][r + k]
    BY <2>1 DEF VerifiedUpTo
  <2> QED
    BY <2>1, <2>5, <2>6
<1> HIDE DEF rest
<1>2. Column(rest, k) = Column(before, r + k)
  BY <1>1 DEF Column
<1> QED
  BY <1>2 DEF rest

\* A column of padding only is valid.
LEMMA PaddingIsValid ==
  ASSUME NEW k \in Nat, \A i \in Shards : ~(k <= Len(before[i]))
  PROVE  Valid(Column(before, k))
BY DEF Valid, Column

LEMMA VerifyBlockKeeps ==
  ASSUME SessionInv, VerifyBlock
  PROVE  SessionInv'
<1> DEFINE rest == [i \in Shards |-> Unread(i)]
<1>1. /\ verdict = "reading" /\ UNCHANGED vars
      /\ at' = [i \in Shards |-> at[i] + Read(i)]
  BY DEF VerifyBlock
<1>2. /\ verdict' = "valid" /\ BlockLen = 0
      \/ /\ verdict' = "invalid" /\ BlockLen # 0
         /\ \E k \in 1 .. BlockLen : ~Valid(Column(rest, k))
      \/ /\ verdict' = "reading" /\ BlockLen # 0
         /\ \A k \in 1 .. BlockLen : Valid(Column(rest, k))
  BY DEF VerifyBlock
<1>3. PICK r \in Nat : VerifiedUpTo(r)
  BY <1>1 DEF SessionInv
<1>4. IInv'
  BY <1>1, StutterKeeps DEF SessionInv
<1>5. /\ blockSize \in Nat \ {0} /\ BlockLen \in 0 .. blockSize /\ BlockLen \in Nat
      /\ \A i \in Shards :
           /\ Read(i) = IF blockSize <= Len(Unread(i)) THEN blockSize ELSE Len(Unread(i))
           /\ Read(i) \in Nat /\ Read(i) <= BlockLen
  BY BlockFacts
<1>6. \A i \in Shards :
        /\ Len(Unread(i)) = Len(cursor[i]) - at[i] /\ Len(Unread(i)) \in Nat
        /\ at[i] \in Nat /\ Len(cursor[i]) \in Nat
        /\ Len(before[i]) \in Nat /\ Len(before[i]) <= Full
        /\ Len(Unread(i)) = IF r <= Len(before[i]) THEN Len(before[i]) - r ELSE 0
  <2> SUFFICES ASSUME NEW i \in Shards
               PROVE  /\ Len(Unread(i)) = Len(cursor[i]) - at[i] /\ Len(Unread(i)) \in Nat
                      /\ at[i] \in Nat /\ Len(cursor[i]) \in Nat
                      /\ Len(before[i]) \in Nat /\ Len(before[i]) <= Full
                      /\ Len(Unread(i)) = IF r <= Len(before[i]) THEN Len(before[i]) - r ELSE 0
    OBVIOUS
  <2>1. Len(Unread(i)) = Len(cursor[i]) - at[i] /\ Len(Unread(i)) \in Nat
    BY UnreadFacts, ConstantFacts
  <2>2. at[i] \in Nat /\ Len(cursor[i]) \in Nat
    BY CursorLengths, ConstantFacts DEF SessionInv
  <2>3. Len(before[i]) \in Nat /\ Len(before[i]) <= Full
    BY LenProperties DEF SessionInv, IInv
  <2> QED
    BY <1>3, <2>1, <2>2, <2>3 DEF VerifiedUpTo
<1>7. at' \in [Shards -> Nat] /\ \A i \in Shards : at'[i] <= Len(cursor'[i])
  <2>1. \A i \in Shards : at[i] + Read(i) \in Nat /\ at[i] + Read(i) <= Len(cursor[i])
    BY <1>5, <1>6
  <2> QED
    BY <1>1, <2>1 DEF vars
<1>8. \A k \in 1 .. BlockLen : k \in Nat \ {0} /\ Column(rest, k) = Column(before, r + k)
  <2>1. \A k \in 1 .. BlockLen : k \in Nat \ {0}
    BY <1>5
  <2> QED
    BY <1>3, <2>1, NextColumns
<1>9. \A k \in 1 .. r : Valid(Column(before, k))
  BY <1>3 DEF VerifiedUpTo
<1> HIDE DEF rest
<1>10. CASE verdict' = "valid" /\ BlockLen = 0
  <2>1. \A i \in Shards : Len(before[i]) <= r
    BY <1>5, <1>6, <1>10
  <2>2. ASSUME NEW k \in 1 .. Full
        PROVE  Valid(Column(before, k))
    <3>1. CASE k <= r
      BY <1>9, <3>1
    <3>2. CASE ~(k <= r)
      <4>1. \A i \in Shards : ~(k <= Len(before[i]))
        BY <1>6, <2>1, <3>2
      <4> QED
        BY <4>1, PaddingIsValid
    <3> QED
      BY <3>1, <3>2
  <2>3. VerdictIsOfTheUnread'
    <3>1. \A k \in 1 .. Full : Valid(Column(before', k))
      BY <1>1, <2>2 DEF vars
    <3> QED
      BY <1>10, <3>1 DEF VerdictIsOfTheUnread, Valid
  <2> QED
    BY <1>1, <1>4, <1>6, <1>7, <1>10, <2>3 DEF SessionInv, vars
<1>11. CASE /\ verdict' = "invalid" /\ BlockLen # 0
            /\ \E k \in 1 .. BlockLen : ~Valid(Column(rest, k))
  <2>1. PICK k \in 1 .. BlockLen : ~Valid(Column(before, r + k))
    BY <1>8, <1>11
  <2>2. r + k \in 1 .. Full
    <3>1. PICK i \in Shards : Read(i) = BlockLen
      BY BlockFacts
    <3>2. BlockLen <= Len(Unread(i)) /\ Len(Unread(i)) # 0
      BY <1>5, <1>6, <1>11, <3>1
    <3>3. r + BlockLen <= Full
      BY <1>5, <1>6, <3>2, ConstantFacts
    <3> QED
      BY <1>5, <3>3, ConstantFacts
  <2>3. VerdictIsOfTheUnread'
    <3>1. ~Valid(Column(before', r + k))
      BY <1>1, <2>1 DEF vars
    <3>2. ~(\A c \in 1 .. Full : Valid(Column(before', c)))
      BY <2>2, <3>1
    <3> QED
      BY <1>11, <3>2 DEF VerdictIsOfTheUnread, Valid
  <2> QED
    BY <1>1, <1>4, <1>6, <1>7, <1>11, <2>3 DEF SessionInv, vars
<1>12. CASE /\ verdict' = "reading" /\ BlockLen # 0
            /\ \A k \in 1 .. BlockLen : Valid(Column(rest, k))
  <2>1. ASSUME NEW c \in 1 .. r + BlockLen
        PROVE  Valid(Column(before, c))
    <3>1. CASE c <= r
      BY <1>9, <3>1
    <3>2. CASE ~(c <= r)
      <4>1. c - r \in 1 .. BlockLen /\ r + (c - r) = c
        BY <1>5, <3>2
      <4> QED
        BY <1>8, <1>12, <4>1
    <3> QED
      BY <3>1, <3>2
  <2>2. ASSUME NEW i \in Shards
        PROVE  /\ Len(Unread(i)') = IF r + BlockLen <= Len(before[i])
                                    THEN Len(before[i]) - (r + BlockLen) ELSE 0
               /\ \A k \in 1 .. Len(Unread(i)') : Unread(i)'[k] = before[i][r + BlockLen + k]
    <3>1. cursor[i] \in Seq(Bytes)
      BY DEF SessionInv, IInv
    <3> DEFINE later == SubSeq(cursor[i], at[i] + Read(i) + 1, Len(cursor[i]))
    <3>2. Unread(i)' = later
      BY <1>1 DEF Unread, vars
    <3>3. /\ at[i] + Read(i) + 1 \in Int /\ Len(cursor[i]) \in Int
          /\ \A k \in at[i] + Read(i) + 1 .. Len(cursor[i]) : cursor[i][k] \in Bytes
      <4>1. \A k \in at[i] + Read(i) + 1 .. Len(cursor[i]) : k \in 1 .. Len(cursor[i])
        BY <1>5, <1>6
      <4> QED
        BY <1>5, <1>6, <3>1, <4>1, LenProperties
    <3>4. /\ Len(later) = IF at[i] + Read(i) + 1 <= Len(cursor[i])
                          THEN Len(cursor[i]) - (at[i] + Read(i) + 1) + 1 ELSE 0
          /\ \A k \in 1 .. Len(cursor[i]) - (at[i] + Read(i) + 1) + 1 :
               later[k] = cursor[i][(at[i] + Read(i) + 1) + k - 1]
      <4> HIDE DEF Bytes
      <4> QED
        BY ONLY <3>3, SubSeqProperties
    <3> HIDE DEF later
    <3>5. Len(later) = Len(Unread(i)) - Read(i) /\ Len(later) \in Nat
      BY <1>5, <1>6, <3>4
    <3>6. Len(later) = IF r + BlockLen <= Len(before[i])
                       THEN Len(before[i]) - (r + BlockLen) ELSE 0
      BY <1>5, <1>6, <3>5
    <3>7. ASSUME NEW k \in 1 .. Len(later)
          PROVE  later[k] = before[i][r + BlockLen + k]
      <4>1. Read(i) = BlockLen
        BY <1>5, <1>6, <3>5
      <4>2. /\ k \in 1 .. Len(cursor[i]) - (at[i] + Read(i) + 1) + 1
            /\ (at[i] + Read(i) + 1) + k - 1 = at[i] + (BlockLen + k)
            /\ BlockLen + k \in 1 .. Len(Unread(i))
            /\ r + (BlockLen + k) = r + BlockLen + k
        <5>1. /\ r \in Nat /\ BlockLen \in Nat /\ at[i] \in Nat /\ Read(i) \in Nat
              /\ Len(cursor[i]) \in Nat /\ Len(Unread(i)) = Len(cursor[i]) - at[i]
          BY <1>5, <1>6
        <5>2. k \in Nat /\ 1 <= k /\ k <= Len(later)
          BY <3>5
        <5>3. Len(later) = Len(cursor[i]) - at[i] - BlockLen
          BY ONLY <5>1, <3>5, <4>1
        <5>4. k \in 1 .. Len(cursor[i]) - (at[i] + Read(i) + 1) + 1
          BY ONLY <5>1, <5>2, <5>3, <4>1
        <5>5. BlockLen + k \in 1 .. Len(Unread(i))
          BY ONLY <5>1, <5>2, <5>3
        <5>6. (at[i] + Read(i) + 1) + k - 1 = at[i] + (BlockLen + k)
          BY ONLY <5>1, <5>2, <4>1
        <5> QED
          BY ONLY <5>1, <5>2, <5>4, <5>5, <5>6
      <4>3. Unread(i)[BlockLen + k] = cursor[i][at[i] + (BlockLen + k)]
        BY <4>2, UnreadFacts
      <4>4. Unread(i)[BlockLen + k] = before[i][r + (BlockLen + k)]
        BY <1>3, <4>2 DEF VerifiedUpTo
      <4> QED
        BY <3>4, <4>2, <4>3, <4>4
    <3> QED
      BY <3>2, <3>6, <3>7
  <2>3. PICK s \in Nat : s = r + BlockLen
    BY <1>5
  <2>4. VerifiedUpTo(s)'
    <3>1. before' = before
      BY <1>1 DEF vars
    <3>2. \A c \in 1 .. s : Valid(Column(before', c))
      BY <2>1, <2>3, <3>1
    <3>3. \A i \in Shards :
            /\ Len(Unread(i)') = IF s <= Len(before'[i]) THEN Len(before'[i]) - s ELSE 0
            /\ \A k \in 1 .. Len(Unread(i)') : Unread(i)'[k] = before'[i][s + k]
      BY <2>2, <2>3, <3>1
    <3>4. \A c : Valid(Column(before, c))' = Valid(Column(before', c))
      BY DEF Valid
    <3> QED
      BY <3>2, <3>3, <3>4 DEF VerifiedUpTo
  <2>5. VerdictIsOfTheUnread'
    BY <1>12 DEF VerdictIsOfTheUnread
  <2>6. (phase = "loop" => verdict = "none" /\ \A i \in present : at[i] = pos)'
    BY <1>1 DEF SessionInv, vars
  <2>7. (\A i \in Shards : Len(before[i]) <= Full)'
    BY <1>1 DEF SessionInv, vars
  <2> QED
    BY <1>4, <1>7, <1>12, <2>4, <2>5, <2>6, <2>7 DEF SessionInv
<1> QED
  BY <1>2, <1>10, <1>11, <1>12

LEMMA SessionStutterKeeps ==
  ASSUME SessionInv, UNCHANGED sessionVars
  PROVE  SessionInv'
<1>1. UNCHANGED vars /\ at' = at /\ verdict' = verdict
  BY DEF sessionVars
<1>2. cursor' = cursor /\ before' = before /\ phase' = phase /\ present' = present /\ pos' = pos
  BY <1>1 DEF vars
<1>3. IInv'
  BY <1>1, StutterKeeps DEF SessionInv
<1>4. VerdictIsOfTheUnread'
  BY <1>1, <1>2 DEF SessionInv, VerdictIsOfTheUnread, Valid, Column
<1>5. (verdict = "reading" => \E r \in Nat : VerifiedUpTo(r))'
  <2> SUFFICES ASSUME verdict = "reading"
               PROVE  (\E r \in Nat : VerifiedUpTo(r))'
    BY <1>1
  <2>1. PICK r \in Nat : VerifiedUpTo(r)
    BY DEF SessionInv
  <2>2. \A i \in Shards : Unread(i)' = Unread(i)
    BY <1>1, <1>2 DEF Unread
  <2>3. \A k : Valid(Column(before, k))' = Valid(Column(before, k))
    BY <1>2 DEF Valid, Column
  <2>4. VerifiedUpTo(r)'
    BY <1>2, <2>1, <2>2, <2>3 DEF VerifiedUpTo
  <2> QED
    BY <2>4
<1> QED
  BY <1>1, <1>2, <1>3, <1>4, <1>5 DEF SessionInv

\* Neither call nor their caller breaks the invariant.
LEMMA SessionStepKeeps ==
  ASSUME SessionInv, [SessionNext]_sessionVars
  PROVE  SessionInv'
BY ReplaceKeeps, RewindKeeps, BeginReconstructKeeps, BeginVerifyKeeps, ReconstructStepKeeps,
   VerifyBlockKeeps, SessionStutterKeeps DEF SessionNext, SessionStep

LEMMA SessionInvariance == SessionSpec => []SessionInv
BY SessionInitInvariant, SessionStepKeeps, PTL DEF SessionSpec

\* The verdict of verify_stream is that of all that the cursors had left to
\* read, short ones padded, whatever the block size and wherever they stood.
THEOREM VerdictIsOfAllUnread == SessionSpec => []VerdictIsOfTheUnread
<1>1. SessionInv => VerdictIsOfTheUnread
  BY DEF SessionInv
<1> QED
  BY <1>1, SessionInvariance, PTL

\* What holds of reconstruct_stream alone holds when verify_stream is called
\* between its calls and the cursors stand anywhere.
THEOREM SessionsKeepTheStripe ==
  SessionSpec => [](TypeOK /\ ContentsAreCodeword /\ OkIsWhole /\ BlocksDoNotMatter)
<1>1. SessionInv => TypeOK /\ ContentsAreCodeword /\ OkIsWhole /\ BlocksDoNotMatter
  BY ContentsArePrefixes DEF SessionInv, IInv
<1> QED
  BY <1>1, SessionInvariance, PTL

=============================================================================
