-------------------------- MODULE ParityUpkeepProofs --------------------------
(***************************************************************************)
(* Proofs about the parity of a stripe, for every number of data shards and  *)
(* every choice of codecs: no order of encodings, batches, updates and       *)
(* verifications leaves parity that the caller would wrongly rely on.        *)
(***************************************************************************)
EXTENDS ParityUpkeep, WellFoundedInduction, TLAPS

(* ------------------------ facts about the naturals ----------------------- *)

\* A set of naturals that is not empty has a least element.
LEMMA LeastNat ==
  ASSUME NEW S, S \subseteq Nat, S # {}
  PROVE  \E m \in S : \A k \in S : m <= k
<1> DEFINE less == OpToRel(<, Nat)
<1>1. IsWellFoundedOn(less, Nat)
  BY NatLessThanWellFounded, Zenon
<1>2. \A j, k \in Nat : j < k => <<j, k>> \in less
  BY DEF OpToRel
<1> HIDE DEF less
<1>3. PICK m \in S : \A k \in S : <<k, m>> \notin less
  BY <1>1, WFMin
<1>4. m \in Nat /\ \A k \in S : k \in Nat
  OBVIOUS
<1>5. \A k \in S : ~(k < m)
  BY <1>2, <1>3, <1>4
<1> QED
  BY <1>4, <1>5

\* What holds of 0, and of k + 1 when it holds of k, holds up to n.
LEMMA UpTo ==
  ASSUME NEW n \in Nat, NEW S, 0 \in S,
         \A k \in 0 .. n - 1 : k \in S => k + 1 \in S
  PROVE  \A k \in 0 .. n : k \in S
<1> SUFFICES ASSUME (0 .. n) \ S # {}
             PROVE  FALSE
  OBVIOUS
<1>1. PICK m \in (0 .. n) \ S : \A k \in (0 .. n) \ S : m <= k
  <2>1. (0 .. n) \ S \subseteq Nat
    OBVIOUS
  <2> QED
    BY <2>1, LeastNat
<1>2. m \in 1 .. n
  BY <1>1
<1>3. m - 1 \in 0 .. n - 1 /\ (m - 1) + 1 = m
  BY <1>2
<1>4. m - 1 \in S
  BY <1>1, <1>3
<1> QED
  BY <1>1, <1>3, <1>4

\* The sum of the first n shards of a stripe.
PartialParity(stripe, coefficient, n) ==
  {<<i, coefficient>> : i \in {j \in 0 .. n - 1 : stripe[j] = 1}}

\* A batch under way has overwritten parity with the sum of the shards it has
\* been fed; at cur = 0 the next shard will.
BatchIsPartial ==
  batch /\ cur > 0 => parity = PartialParity(fed, "row", cur)

\* The inductive invariant.
IInv == TypeOK /\ BatchIsPartial /\ InSyncIsConsistent /\ VerifyTellsTheTruth

----------------------------------------------------------------------------
(* The loops of the encoders compute the sums that they are said to.         *)

LEMMA DataIndicesProperties ==
  /\ DataShards \in Nat /\ DataShards > 0
  /\ DataIndices = 0 .. DataShards - 1
  /\ 0 \in DataIndices
BY UpkeepAssumption DEF DataIndices

\* Shard 0 replaces what a buffer holds, each later shard is added to the sum
\* of those before it.
LEMMA CodeSinglePartial ==
  ASSUME NEW stripe \in Stripes, NEW coefficient, NEW output, NEW k \in DataIndices,
         k > 0 => output = PartialParity(stripe, coefficient, k)
  PROVE  CodeSingle(k, coefficient, stripe[k], output)
           = PartialParity(stripe, coefficient, k + 1)
<1>1. stripe[k] \in Bits
  BY DEF Stripes
<1>2. k \in Nat
  BY DEF DataIndices
<1> DEFINE ones(n) == {j \in 0 .. n - 1 : stripe[j] = 1}
<1>3. ones(k + 1) = IF stripe[k] = 1 THEN ones(k) \cup {k} ELSE ones(k)
  BY <1>1, <1>2
<1>4. PartialParity(stripe, coefficient, k + 1)
        = PartialParity(stripe, coefficient, k) \cup Times(k, coefficient, stripe[k])
  <2> HIDE DEF ones
  <2>1. \A n : PartialParity(stripe, coefficient, n) = {<<i, coefficient>> : i \in ones(n)}
    BY DEF PartialParity, ones
  <2> QED
    BY <1>1, <1>3, <2>1 DEF Times, Bits
<1>5. CASE k = 0
  <2>1. PartialParity(stripe, coefficient, 0) = {}
    BY DEF PartialParity
  <2> QED
    BY <1>4, <1>5, <2>1 DEF CodeSingle
<1>6. CASE k > 0
  <2>1. PartialParity(stripe, coefficient, k) \cap Times(k, coefficient, stripe[k]) = {}
    BY <1>2 DEF PartialParity, Times
  <2> QED
    BY <1>2, <1>4, <1>6, <2>1 DEF CodeSingle, Plus
<1> QED
  BY <1>2, <1>5, <1>6

\* After all the shards, whatever the buffer held before is gone.
LEMMA CodeAllIsParity ==
  ASSUME NEW stripe \in Stripes, NEW coefficient, NEW output
  PROVE  CodeAll(coefficient, stripe, output) = ParityOf(stripe, coefficient)
<1> DEFINE Loop(f) ==
             [n \in 0 .. DataShards |->
                IF n = 0 THEN output
                ELSE CodeSingle(n - 1, coefficient, stripe[n - 1], f[n - 1])]
           after == CHOOSE f : f = Loop(f)
           sum == [n \in 0 .. DataShards |->
                     IF n = 0 THEN output ELSE PartialParity(stripe, coefficient, n)]
<1>1. CodeAll(coefficient, stripe, output) = after[DataShards]
  BY DEF CodeAll
<1>2. \A n \in 0 .. DataShards :
        n > 0 => CodeSingle(n - 1, coefficient, stripe[n - 1], sum[n - 1])
                   = PartialParity(stripe, coefficient, n)
  <2> SUFFICES ASSUME NEW n \in 0 .. DataShards, n > 0
               PROVE  CodeSingle(n - 1, coefficient, stripe[n - 1], sum[n - 1])
                        = PartialParity(stripe, coefficient, n)
    OBVIOUS
  <2>1. n - 1 \in DataIndices /\ (n - 1) + 1 = n /\ n - 1 \in 0 .. DataShards
    BY DataIndicesProperties
  <2>2. n - 1 > 0 => sum[n - 1] = PartialParity(stripe, coefficient, n - 1)
    BY <2>1
  <2> HIDE DEF sum
  <2> QED
    BY <2>1, <2>2, CodeSinglePartial
<1>3. sum = Loop(sum)
  <2>1. \A n \in 0 .. DataShards :
          sum[n] = IF n = 0 THEN output
                   ELSE CodeSingle(n - 1, coefficient, stripe[n - 1], sum[n - 1])
    <3>1. \A n \in 0 .. DataShards :
            sum[n] = IF n = 0 THEN output ELSE PartialParity(stripe, coefficient, n)
      OBVIOUS
    <3>2. \A n \in 0 .. DataShards : n = 0 \/ n > 0
      BY DataIndicesProperties
    <3> HIDE DEF sum
    <3> QED
      BY <1>2, <3>1, <3>2
  <2>2. sum = [n \in 0 .. DataShards |-> sum[n]]
    OBVIOUS
  <2> HIDE DEF sum
  <2> QED
    BY <2>1, <2>2
<1>4. after = Loop(after)
  <2> HIDE DEF sum, Loop
  <2> QED
    BY <1>3
<1>5. \A n \in 0 .. DataShards : after[n] = sum[n]
  <2> DEFINE good == {n \in 0 .. DataShards : after[n] = sum[n]}
  <2> HIDE DEF after
  <2>1. 0 \in good
    BY <1>4, DataIndicesProperties
  <2>2. ASSUME NEW k \in 0 .. DataShards - 1, k \in good
        PROVE  k + 1 \in good
    <3>1. k + 1 \in 0 .. DataShards /\ k + 1 # 0 /\ (k + 1) - 1 = k
      BY DataIndicesProperties
    <3>2. after[k] = sum[k]
      BY <2>2
    <3> HIDE DEF sum
    <3>3. after[k + 1] = CodeSingle(k, coefficient, stripe[k], after[k])
      BY <1>4, <3>1
    <3>4. sum[k + 1] = CodeSingle(k, coefficient, stripe[k], sum[k])
      BY <1>3, <3>1
    <3> QED
      BY <3>1, <3>2, <3>3, <3>4
  <2> HIDE DEF good
  <2>3. \A n \in 0 .. DataShards : n \in good
    BY <2>1, <2>2, DataIndicesProperties, UpTo
  <2> QED
    BY <2>3 DEF good
<1>6. sum[DataShards] = ParityOf(stripe, coefficient)
  <2>1. sum[DataShards] = PartialParity(stripe, coefficient, DataShards)
    BY DataIndicesProperties
  <2> QED
    BY <2>1, DataIndicesProperties DEF PartialParity, ParityOf
<1> HIDE DEF after, sum
<1> QED
  BY <1>1, <1>5, <1>6, DataIndicesProperties

\* The delta of an update is the sum of the shards that change.
LEMMA DeltaSumIsChange ==
  ASSUME NEW changed \in SUBSET DataIndices, NEW coefficient
  PROVE  DeltaSum(changed, coefficient) = {<<i, coefficient>> : i \in changed}
<1> DEFINE Loop(f) ==
             [n \in 0 .. DataShards |->
                IF n = 0 THEN {}
                ELSE IF n - 1 \in changed
                THEN Plus(f[n - 1], Times(n - 1, coefficient, 1))
                ELSE f[n - 1]]
           after == CHOOSE f : f = Loop(f)
           below(n) == {i \in changed : i < n}
           sum == [n \in 0 .. DataShards |-> {<<i, coefficient>> : i \in below(n)}]
<1>0. \A i \in changed : i \in Nat /\ i < DataShards
  BY DataIndicesProperties
<1>1. DeltaSum(changed, coefficient) = after[DataShards]
  BY DEF DeltaSum
<1>2. \A n \in 0 .. DataShards : sum[n] = {<<i, coefficient>> : i \in below(n)}
  OBVIOUS
<1>3. ASSUME NEW n \in 0 .. DataShards
      PROVE  sum[n] = IF n = 0 THEN {}
                      ELSE IF n - 1 \in changed
                      THEN Plus(sum[n - 1], Times(n - 1, coefficient, 1))
                      ELSE sum[n - 1]
  <2>1. CASE n = 0
    <3>1. below(0) = {}
      BY <1>0
    <3> QED
      BY <1>2, <2>1, <3>1
  <2>2. CASE n # 0
    <3>1. n - 1 \in 0 .. DataShards /\ n - 1 \in Nat
      BY <2>2, DataIndicesProperties
    <3>2. below(n) = IF n - 1 \in changed THEN below(n - 1) \cup {n - 1} ELSE below(n - 1)
      BY <1>0, <2>2, <3>1
    <3>3. n - 1 \notin below(n - 1)
      BY <3>1
    <3> HIDE DEF sum, below
    <3>4. Plus({<<i, coefficient>> : i \in below(n - 1)}, {<<n - 1, coefficient>>})
            = {<<i, coefficient>> : i \in below(n - 1) \cup {n - 1}}
      BY <3>3 DEF Plus
    <3> QED
      BY <1>2, <2>2, <3>1, <3>2, <3>4 DEF Times
  <2> QED
    BY <2>1, <2>2
<1>4. sum = Loop(sum)
  <2>1. sum = [n \in 0 .. DataShards |-> sum[n]]
    OBVIOUS
  <2> HIDE DEF sum
  <2> QED
    BY <1>3, <2>1
<1>5. after = Loop(after)
  <2> HIDE DEF sum, Loop
  <2> QED
    BY <1>4
<1>6. \A n \in 0 .. DataShards : after[n] = sum[n]
  <2> DEFINE good == {n \in 0 .. DataShards : after[n] = sum[n]}
  <2> HIDE DEF after, sum
  <2>1. 0 \in good
    BY <1>4, <1>5, DataIndicesProperties
  <2>2. ASSUME NEW k \in 0 .. DataShards - 1, k \in good
        PROVE  k + 1 \in good
    <3>1. k + 1 \in 0 .. DataShards /\ k + 1 # 0 /\ (k + 1) - 1 = k
      BY DataIndicesProperties
    <3>2. after[k] = sum[k]
      BY <2>2
    <3>3. after[k + 1] = IF k \in changed THEN Plus(after[k], Times(k, coefficient, 1))
                         ELSE after[k]
      BY <1>5, <3>1
    <3>4. sum[k + 1] = IF k \in changed THEN Plus(sum[k], Times(k, coefficient, 1))
                       ELSE sum[k]
      BY <1>4, <3>1
    <3> QED
      BY <3>1, <3>2, <3>3, <3>4
  <2> HIDE DEF good
  <2>3. \A n \in 0 .. DataShards : n \in good
    BY <2>1, <2>2, DataIndicesProperties, UpTo
  <2> QED
    BY <2>3 DEF good
<1>7. below(DataShards) = changed
  BY <1>0
<1> HIDE DEF after, sum, below
<1>8. after[DataShards] = {<<i, coefficient>> : i \in below(DataShards)}
  BY <1>2, <1>6, DataIndicesProperties
<1> QED
  BY <1>1, <1>7, <1>8

\* Adding the delta to the parity of the old shards gives that of the new.
LEMMA UpdateFollows ==
  ASSUME NEW old \in Stripes, NEW new \in Stripes, NEW coefficient
  PROVE  Plus(ParityOf(old, coefficient),
              DeltaSum({i \in DataIndices : new[i] # old[i]}, coefficient))
           = ParityOf(new, coefficient)
<1> DEFINE ones(stripe) == {j \in DataIndices : stripe[j] = 1}
           changed == {i \in DataIndices : new[i] # old[i]}
<1>1. \A i \in DataIndices : old[i] \in {0, 1} /\ new[i] \in {0, 1}
  BY DEF Stripes, Bits
<1>2. ones(new) = (ones(old) \ changed) \cup (changed \ ones(old))
  BY <1>1
<1>3. DeltaSum(changed, coefficient) = {<<i, coefficient>> : i \in changed}
  BY DeltaSumIsChange
<1>4. \A stripe : ParityOf(stripe, coefficient) = {<<i, coefficient>> : i \in ones(stripe)}
  BY DEF ParityOf
<1> HIDE DEF ones, changed
<1>5. Plus({<<i, coefficient>> : i \in ones(old)}, {<<i, coefficient>> : i \in changed})
        = {<<i, coefficient>> : i \in (ones(old) \ changed) \cup (changed \ ones(old))}
  BY DEF Plus
<1> QED
  BY <1>2, <1>3, <1>4, <1>5 DEF changed

----------------------------------------------------------------------------
(* The invariant.                                                            *)

\* encode leaves the parity of the data in any buffer.
LEMMA EncodeIntoIsParity ==
  ASSUME NEW stripe \in Stripes, NEW output
  PROVE  EncodeInto(stripe, output) = ParityOf(stripe, EncodeCoefficient)
BY CodeAllIsParity DEF EncodeInto

\* Every sum that the code computes is a sum.
LEMMA SumsClosed ==
  ASSUME NEW i \in DataIndices, NEW bit,
         NEW c \in {"row", "one", "fft"}, NEW x \in Sums, NEW y \in Sums
  PROVE  /\ Plus(x, y) \in Sums
         /\ CodeSingle(i, c, bit, x) \in Sums
         /\ {Junk} \in Sums /\ {} \in Sums
<1>1. Times(i, c, bit) \in Sums
  BY DEF Times, Sums, Terms
<1> QED
  BY <1>1 DEF Sums, Plus, CodeSingle, Terms

LEMMA ParitiesAreSums ==
  ASSUME NEW stripe, NEW c \in {"row", "one", "fft"}
  PROVE  ParityOf(stripe, c) \in Sums
BY DEF ParityOf, Sums, Terms

LEMMA CoefficientType == EncodeCoefficient \in {"row", "one", "fft"}
BY DEF EncodeCoefficient

LEMMA InitInvariant == Init => IInv
<1> SUFFICES ASSUME Init
             PROVE  IInv
  OBVIOUS
<1>1. TypeOK
  <2>1. data \in Stripes /\ fed \in Stripes
    BY DEF Init, Stripes, Bits
  <2>2. parity \in Sums /\ workspace \in [fits : BOOLEAN, sum : Sums]
    BY DEF Init, Sums, Terms
  <2>3. last \in Replies
    BY DEF Init, Replies
  <2>4. codec \in Codecs /\ cur \in 0 .. DataShards
    BY DataIndicesProperties DEF Init
  <2>5. batch \in BOOLEAN /\ inSync \in BOOLEAN
    BY DEF Init
  <2> QED
    BY <2>1, <2>2, <2>3, <2>4, <2>5 DEF TypeOK
<1>2. BatchIsPartial /\ InSyncIsConsistent /\ VerifyTellsTheTruth
  BY DEF Init, BatchIsPartial, InSyncIsConsistent, VerifyTellsTheTruth
<1> QED
  BY <1>1, <1>2 DEF IInv

\* A call that answers and changes nothing else, with an error or the truth.
LEMMA AnswerKeeps ==
  ASSUME IInv, NEW op, NEW result, Answer(op, result), [op |-> op, result |-> result] \in Replies,
         op = "verify" => result \in {"IncorrectShardSize", Truth(ParityOf(data, EncodeCoefficient))}
  PROVE  IInv'
<1> USE DEF IInv, Answer, Reply, ghosts
<1>1. TypeOK'
  BY DEF TypeOK
<1>2. BatchIsPartial'
  BY DEF BatchIsPartial
<1>3. EncodeCoefficient' = EncodeCoefficient
  BY DEF EncodeCoefficient, IsLeopard
<1>4. Consistent' = Consistent
  BY <1>3 DEF Consistent
<1>5. InSyncIsConsistent'
  BY <1>4 DEF InSyncIsConsistent
<1>6. VerifyTellsTheTruth'
  BY <1>4 DEF VerifyTellsTheTruth, Truth, Consistent
<1> QED
  BY <1>1, <1>2, <1>5, <1>6

\* A refusal.
LEMMA RefusalKeeps ==
  ASSUME IInv, NEW op, NEW result, Answer(op, result), [op |-> op, result |-> result] \in Replies,
         op # "verify" \/ result = "IncorrectShardSize"
  PROVE  IInv'
BY AnswerKeeps

\* A step that writes the stripe and is no verification keeps the invariant
\* when it keeps its parts.
LEMMA WriteKeeps ==
  ASSUME IInv, UNCHANGED <<codec, workspace>>,
         data' \in Stripes, fed' \in Stripes, parity' \in Sums, cur' \in 0 .. DataShards,
         last' \in Replies, last'.op # "verify", batch' \in BOOLEAN, inSync' \in BOOLEAN,
         BatchIsPartial', inSync' => parity' = ParityOf(data', EncodeCoefficient)
  PROVE  IInv'
<1>1. TypeOK'
  BY DEF IInv, TypeOK
<1>2. EncodeCoefficient' = EncodeCoefficient
  BY DEF EncodeCoefficient, IsLeopard
<1>3. InSyncIsConsistent'
  BY <1>2 DEF InSyncIsConsistent, Consistent
<1>4. VerifyTellsTheTruth'
  BY DEF VerifyTellsTheTruth
<1> QED
  BY <1>1, <1>3, <1>4 DEF IInv

LEMMA EncodeKeeps ==
  ASSUME IInv, NEW shaped \in BOOLEAN, Encode(shaped)
  PROVE  IInv'
<1>1. CASE ~shaped
  BY <1>1, RefusalKeeps DEF Encode, Replies
<1>2. CASE shaped
  <2>1. parity' = ParityOf(data, EncodeCoefficient)
    BY <1>2, EncodeIntoIsParity DEF Encode, IInv, TypeOK
  <2>2. parity' \in Sums
    BY <2>1, ParitiesAreSums, CoefficientType
  <2>3. BatchIsPartial'
    BY <1>2 DEF Encode, BatchIsPartial
  <2>4. last' \in Replies /\ last'.op # "verify"
    BY <1>2 DEF Encode, Reply, Replies
  <2> QED
    BY <1>2, <2>1, <2>2, <2>3, <2>4, WriteKeeps DEF Encode, IInv, TypeOK
<1> QED
  BY <1>1, <1>2

LEMMA EncodeSingleKeeps ==
  ASSUME IInv, NEW i \in DataIndices, NEW shaped \in BOOLEAN,
         EncodeSingle(i, shaped) \/ EncodeSingleOpt(i, shaped)
  PROVE  IInv'
<1>1. CASE Answer("encode_single", "UnsupportedCodecFamily")
           \/ Answer("encode_single", "IncorrectShardSize")
           \/ Answer("encode_single_opt", "IncorrectShardSize")
  BY <1>1, RefusalKeeps DEF Replies
<1>2. ASSUME NEW op \in {"encode_single", "encode_single_opt"}, AddShard(op, i),
             inSync' = FALSE, batch' = FALSE, UNCHANGED <<codec, data, cur, workspace, fed>>
      PROVE  IInv'
  <2>1. parity' \in Sums
    BY <1>2, SumsClosed DEF AddShard, IInv, TypeOK
  <2>2. last' \in Replies /\ last'.op # "verify"
    BY <1>2 DEF AddShard, Reply, Replies
  <2>3. BatchIsPartial'
    BY <1>2 DEF BatchIsPartial
  <2> QED
    BY <1>2, <2>1, <2>2, <2>3, WriteKeeps DEF IInv, TypeOK
<1> QED
  BY <1>1, <1>2 DEF EncodeSingle, EncodeSingleOpt

LEMMA UpdateKeeps ==
  ASSUME IInv, NEW new \in Stripes, NEW shaped \in BOOLEAN, Update(new, shaped)
  PROVE  IInv'
<1>1. CASE IsLeopard \/ ~shaped
  BY <1>1, RefusalKeeps DEF Update, Replies
<1>2. CASE ~IsLeopard /\ shaped
  <2> DEFINE delta == DeltaSum({i \in DataIndices : new[i] # data[i]}, EncodeCoefficient)
  <2>1. parity' = Plus(parity, delta) /\ data' = new
    BY <1>2 DEF Update
  <2>2. delta \in Sums
    BY DeltaSumIsChange, CoefficientType DEF Sums, Terms
  <2>3. parity' \in Sums
    <3> HIDE DEF delta
    <3> QED
      BY <2>1, <2>2, SumsClosed, DataIndicesProperties DEF IInv, TypeOK
  <2>4. parity = ParityOf(data, EncodeCoefficient) => parity' = ParityOf(new, EncodeCoefficient)
    BY <2>1, UpdateFollows DEF IInv, TypeOK
  <2>5. last' \in Replies /\ last'.op # "verify"
    BY <1>2 DEF Update, Reply, Replies
  <2>6. BatchIsPartial'
    BY <1>2 DEF Update, BatchIsPartial
  <2>7. /\ UNCHANGED <<codec, cur, workspace, fed, inSync>>
        /\ batch' = FALSE
    BY <1>2 DEF Update
  <2>8. inSync' => parity' = ParityOf(data', EncodeCoefficient)
    BY <2>1, <2>4, <2>7 DEF IInv, InSyncIsConsistent, Consistent
  <2> HIDE DEF delta
  <2> QED
    BY <2>1, <2>3, <2>5, <2>6, <2>7, <2>8, WriteKeeps DEF IInv, TypeOK
<1> QED
  BY <1>1, <1>2

\* Each call of the bookkeeper adds one shard to a batch that is partial, or
\* starts one; the last of them leaves the parity of the shards as fed.
LEMMA SbsEncodeKeeps ==
  ASSUME IInv, NEW shaped \in BOOLEAN, SbsEncode(shaped)
  PROVE  IInv'
<1>1. CASE ParityReady \/ ~shaped \/ IsLeopard
  BY <1>1, RefusalKeeps DEF SbsEncode, Replies
<1>2. CASE ~ParityReady /\ shaped /\ ~IsLeopard
  <2>1. cur \in DataIndices /\ cur + 1 \in 0 .. DataShards
    BY <1>2, DataIndicesProperties DEF ParityReady, IInv, TypeOK
  <2>2. parity' = CodeSingle(cur, "row", data[cur], parity)
    BY <1>2 DEF SbsEncode, AddShard
  <2>3. parity' \in Sums
    BY <2>1, <2>2, SumsClosed DEF IInv, TypeOK
  <2>4. fed' \in Stripes /\ fed'[cur] = data[cur]
    BY <1>2, <2>1 DEF SbsEncode, IInv, TypeOK, Stripes
  <2>5. batch' => parity' = PartialParity(fed', "row", cur + 1)
    <3> SUFFICES ASSUME batch'
                 PROVE  parity' = PartialParity(fed', "row", cur + 1)
      OBVIOUS
    <3>1. cur > 0 => parity = PartialParity(fed, "row", cur)
      <4>1. cur = 0 \/ batch
        BY <1>2, Zenon DEF SbsEncode
      <4>2. cur \in Nat
        BY <2>1, DataIndicesProperties
      <4> QED
        BY <4>1, <4>2 DEF IInv, BatchIsPartial
    <3>2. PartialParity(fed', "row", cur) = PartialParity(fed, "row", cur)
      <4>1. \A j \in 0 .. cur - 1 : fed'[j] = fed[j]
        <5>1. fed' = [fed EXCEPT ![cur] = data[cur]] /\ fed \in [DataIndices -> Bits]
          BY <1>2 DEF SbsEncode, IInv, TypeOK, Stripes
        <5>2. \A j \in 0 .. cur - 1 : j \in DataIndices /\ j # cur
          BY <2>1, DataIndicesProperties
        <5> QED
          BY <5>1, <5>2
      <4>2. {j \in 0 .. cur - 1 : fed'[j] = 1} = {j \in 0 .. cur - 1 : fed[j] = 1}
        BY <4>1
      <4> QED
        BY <4>2 DEF PartialParity
    <3> QED
      BY <2>1, <2>2, <2>4, <3>1, <3>2, CodeSinglePartial
  <2>6. BatchIsPartial'
    BY <1>2, <2>5 DEF SbsEncode, BatchIsPartial
  <2>7. /\ UNCHANGED <<codec, data, workspace>>
        /\ cur' = cur + 1
        /\ batch' = (cur = 0 \/ batch)
        /\ inSync' = (cur + 1 = DataShards /\ batch' /\ fed' = data /\ ~codec.xor)
    BY <1>2 DEF SbsEncode
  <2>8. inSync' => parity' = ParityOf(data', EncodeCoefficient)
    <3> SUFFICES ASSUME inSync'
                 PROVE  parity' = ParityOf(data, EncodeCoefficient)
      BY <2>7
    <3>1. EncodeCoefficient = "row"
      BY <1>2, <2>7 DEF EncodeCoefficient
    <3>2. PartialParity(data, "row", DataShards) = ParityOf(data, "row")
      BY DataIndicesProperties DEF PartialParity, ParityOf
    <3> QED
      BY <2>5, <2>7, <3>1, <3>2
  <2>9. last' \in Replies /\ last'.op # "verify"
    BY <1>2 DEF SbsEncode, AddShard, Reply, Replies
  <2>10. batch' \in BOOLEAN /\ inSync' \in BOOLEAN
    BY <2>7
  <2> QED
    BY <2>1, <2>3, <2>4, <2>6, <2>7, <2>8, <2>9, <2>10, WriteKeeps DEF IInv, TypeOK
<1> QED
  BY <1>1, <1>2

LEMMA ResetKeeps ==
  ASSUME IInv, SbsReset \/ SbsResetForce
  PROVE  IInv'
<1>1. CASE Answer("reset", "LeftoverShards")
  BY <1>1, RefusalKeeps DEF Replies
<1>2. CASE /\ cur' = 0 /\ Reply("reset", "Ok")
           /\ UNCHANGED <<codec, data, parity, workspace, ghosts>>
  <2>1. BatchIsPartial'
    BY <1>2 DEF BatchIsPartial
  <2>2. last' \in Replies /\ last'.op # "verify"
    BY <1>2 DEF Reply, Replies
  <2>3. UNCHANGED <<fed, batch, inSync>>
    BY <1>2 DEF ghosts
  <2>4. inSync' => parity' = ParityOf(data', EncodeCoefficient)
    BY <1>2, <2>3 DEF IInv, InSyncIsConsistent, Consistent
  <2>5. cur' \in 0 .. DataShards
    BY <1>2, DataIndicesProperties
  <2> QED
    BY <1>2, <2>1, <2>2, <2>3, <2>4, <2>5, WriteKeeps DEF IInv, TypeOK
<1> QED
  BY <1>1, <1>2 DEF SbsReset, SbsResetForce

\* The verdict is the truth whatever sum the workspace held.
LEMMA VerifyKeeps ==
  ASSUME IInv, NEW shaped \in BOOLEAN,
         Verify(shaped) \/ VerifyWithWorkspace(shaped) \/ VerifyWithWorkspaceOpt(shaped)
  PROVE  IInv'
<1>1. \A output : EncodeInto(data, output) = ParityOf(data, EncodeCoefficient)
  BY EncodeIntoIsParity DEF IInv, TypeOK
<1>2. Truth(ParityOf(data, EncodeCoefficient)) \in {"true", "false"}
  BY DEF Truth
<1>3. CASE Answer("verify", "IncorrectShardSize")
  BY <1>3, RefusalKeeps DEF Replies
<1>4. CASE Answer("verify", Truth(EncodeInto(data, {})))
  BY <1>1, <1>2, <1>4, AnswerKeeps DEF Replies
<1>5. ASSUME UNCHANGED <<codec, data, parity, cur, ghosts>>,
             workspace' \in [fits : BOOLEAN, sum : Sums], last' \in Replies,
             last'.op = "verify",
             last'.result \in {"IncorrectShardSize", Truth(ParityOf(data, EncodeCoefficient))}
      PROVE  IInv'
  <2>1. UNCHANGED <<fed, batch, inSync>>
    BY <1>5 DEF ghosts
  <2>2. TypeOK'
    BY <1>5, <2>1 DEF IInv, TypeOK
  <2>3. BatchIsPartial'
    BY <1>5, <2>1 DEF IInv, BatchIsPartial
  <2>4. EncodeCoefficient' = EncodeCoefficient
    BY <1>5 DEF EncodeCoefficient, IsLeopard
  <2>5. Consistent' = Consistent
    BY <1>5, <2>4 DEF Consistent
  <2>6. InSyncIsConsistent'
    BY <2>1, <2>5 DEF IInv, InSyncIsConsistent
  <2>7. VerifyTellsTheTruth'
    BY <1>5, <2>5 DEF VerifyTellsTheTruth, Truth, Consistent
  <2> QED
    BY <2>2, <2>3, <2>6, <2>7 DEF IInv
<1>6. CASE shaped /\ VerifyWithWorkspace(shaped)
  <2>1. workspace' = [fits |-> TRUE, sum |-> ParityOf(data, EncodeCoefficient)]
    BY <1>1, <1>6 DEF VerifyWithWorkspace
  <2>2. last' = [op |-> "verify", result |-> Truth(ParityOf(data, EncodeCoefficient))]
    BY <1>1, <1>6 DEF VerifyWithWorkspace, Reply
  <2>3. workspace' \in [fits : BOOLEAN, sum : Sums]
    BY <2>1, ParitiesAreSums, CoefficientType
  <2>4. last' \in Replies
    BY <1>2, <2>2 DEF Replies
  <2> QED
    BY <1>5, <1>6, <2>2, <2>3, <2>4 DEF VerifyWithWorkspace
<1>7. CASE ~shaped /\ VerifyWithWorkspaceOpt(shaped)
  <2>1. workspace' \in [fits : BOOLEAN, sum : Sums]
    <3>1. workspace' \in {workspace, [fits |-> FALSE, sum |-> {Junk}]}
      BY <1>7 DEF VerifyWithWorkspaceOpt
    <3>2. [fits |-> FALSE, sum |-> {Junk}] \in [fits : BOOLEAN, sum : Sums]
      BY DEF Sums, Terms
    <3> QED
      BY <3>1, <3>2 DEF IInv, TypeOK
  <2>2. last' = [op |-> "verify", result |-> "IncorrectShardSize"]
    BY <1>7 DEF VerifyWithWorkspaceOpt, Reply
  <2> QED
    BY <1>5, <1>7, <2>1, <2>2 DEF VerifyWithWorkspaceOpt, Replies
<1> QED
  BY <1>3, <1>4, <1>6, <1>7 DEF Verify, VerifyWithWorkspace, VerifyWithWorkspaceOpt

\* The caller, or another codec, writes on its own.
LEMMA CallerKeeps ==
  ASSUME IInv, WorkspaceUsedElsewhere \/ ScratchParity \/ \E i \in DataIndices : WriteData(i)
  PROVE  IInv'
<1>1. [op |-> "none", result |-> "none"] \in Replies
  BY DEF Replies
<1>2. CASE WorkspaceUsedElsewhere
  <2>1. UNCHANGED <<codec, data, parity, cur, fed, batch, inSync>>
    BY <1>2 DEF WorkspaceUsedElsewhere, ghosts
  <2>2. TypeOK'
    BY <1>1, <1>2, <2>1 DEF WorkspaceUsedElsewhere, IInv, TypeOK, Sums, Terms
  <2>3. EncodeCoefficient' = EncodeCoefficient
    BY <2>1 DEF EncodeCoefficient, IsLeopard
  <2>4. BatchIsPartial' /\ InSyncIsConsistent'
    BY <2>1, <2>3 DEF IInv, BatchIsPartial, InSyncIsConsistent, Consistent
  <2>5. VerifyTellsTheTruth'
    BY <1>2 DEF WorkspaceUsedElsewhere, VerifyTellsTheTruth
  <2> QED
    BY <2>2, <2>4, <2>5 DEF IInv
<1>3. CASE ScratchParity
  <2>1. {Junk} \in Sums
    BY DEF Sums, Terms
  <2>2. BatchIsPartial'
    BY <1>3 DEF ScratchParity, BatchIsPartial
  <2> QED
    BY <1>1, <1>3, <2>1, <2>2, WriteKeeps DEF ScratchParity, IInv, TypeOK
<1>4. ASSUME NEW i \in DataIndices, WriteData(i)
      PROVE  IInv'
  <2>1. data' \in Stripes
    BY <1>4 DEF WriteData, IInv, TypeOK, Stripes, Bits
  <2>2. BatchIsPartial'
    BY <1>4 DEF WriteData, IInv, BatchIsPartial
  <2> QED
    BY <1>1, <1>4, <2>1, <2>2, WriteKeeps DEF WriteData, IInv, TypeOK
<1> QED
  BY <1>2, <1>3, <1>4

LEMMA StutterKeeps == IInv /\ UNCHANGED vars => IInv'
BY DEF IInv, vars, TypeOK, BatchIsPartial, InSyncIsConsistent, VerifyTellsTheTruth,
       Consistent, EncodeCoefficient, IsLeopard

LEMMA Invariant == Spec => []IInv
<1>1. IInv /\ [Next]_vars => IInv'
  BY EncodeKeeps, EncodeSingleKeeps, UpdateKeeps, SbsEncodeKeeps, ResetKeeps, VerifyKeeps,
     CallerKeeps, StutterKeeps DEF Next
<1> QED
  BY <1>1, InitInvariant, PTL DEF Spec

----------------------------------------------------------------------------

\* TypeOK: every variable keeps its type, and cur_input never passes the last
\* data shard.
THEOREM TypeCorrect == Spec => []TypeOK
<1>1. IInv => TypeOK
  BY DEF IInv
<1> QED
  BY <1>1, Invariant, PTL

\* InSyncIsConsistent: parity that an encode, or a whole batch of the data as
\* it is, has left follows the data through every update.
THEOREM ParityStaysInSync == Spec => []InSyncIsConsistent
<1>1. IInv => InSyncIsConsistent
  BY DEF IInv
<1> QED
  BY <1>1, Invariant, PTL

\* SbsParityIsOfBatch: a complete batch that nothing else disturbed leaves the
\* parity of the shards as they were fed.
THEOREM BatchLeavesItsParity == Spec => []SbsParityIsOfBatch
<1>1. IInv => SbsParityIsOfBatch
  BY DataIndicesProperties
     DEF IInv, BatchIsPartial, SbsParityIsOfBatch, ParityReady, PartialParity, ParityOf
<1> QED
  BY <1>1, Invariant, PTL

\* VerifyTellsTheTruth: no workspace, whatever it served before, changes what
\* verify says.
THEOREM VerdictsAreTrue == Spec => []VerifyTellsTheTruth
<1>1. IInv => VerifyTellsTheTruth
  BY DEF IInv
<1> QED
  BY <1>1, Invariant, PTL

=============================================================================
