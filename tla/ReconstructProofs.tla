-------------------------- MODULE ReconstructProofs --------------------------
(***************************************************************************)
(* Proofs about the reconstruct calls, for every number of shards, every    *)
(* custom matrix and every pair of lengths.                                 *)
(*                                                                          *)
(* Each call path is shown Sound on its own, from any container whose       *)
(* present shards hold the codeword; the invariant then follows from the    *)
(* caller's steps and from Call, which is the same for every path.          *)
(***************************************************************************)
EXTENDS Reconstruct, FiniteSetTheorems, TLAPS

\* A container.
IsContainer(s) == s \in [Shards -> Slot]

\* All present shards hold the codeword.
Trusted(s) == \A i \in Present(s) : s[i].good

\* What every call path owes its caller: present shards and shards outside the
\* targets are left alone, what is touched is present, and Ok means the targets are recovered and nothing
\* else was spoilt.
Sound(s, o, target) ==
  /\ IsContainer(o.slots)
  /\ o.result \in Results \ {"none"}
  /\ \A i \in Shards : o.slots[i] # s[i] =>
       i \in Missing(s) \cap target /\ o.slots[i].present
  /\ o.result = "Ok" => /\ Trusted(o.slots)
                        /\ target \subseteq Present(o.slots)

\* Some shard is present when the scan finds work to do, so the present shards
\* share a length.
LEMMA GoHasLength ==
  ASSUME NEW s, IsContainer(s), Scan(s) = "Go"
  PROVE  SharedLen(s) \in Lengths
<1>1. Cardinality(Present(s)) >= DataShards
  <2>1. Cardinality(Present(s)) < DataShards => FALSE
    BY DEF Scan
  <2>2. IsFiniteSet(Present(s))
    <3>1. Present(s) \subseteq Shards
      BY DEF Present
    <3>2. IsFiniteSet(Shards)
      BY FS_Interval, CodecAssumption DEF Shards
    <3>3. QED
      BY <3>1, <3>2, FS_Subset
  <2>3. Cardinality(Present(s)) \in Nat
    BY <2>2, FS_CardinalityType
  <2>4. QED
    BY <2>1, <2>3, CodecAssumption
<1>2. PICK i \in Present(s) : TRUE
  <2>1. Present(s) # {}
    BY <1>1, FS_EmptySet, CodecAssumption
  <2>2. QED
    BY <2>1
<1>3. s[i].len \in Lengths
  BY <1>2 DEF Present, IsContainer, Slot
<1>4. QED
  BY <1>2, <1>3 DEF SharedLen

\* The scan gives "Go", a reason to succeed at once, or an error.
LEMMA ScanAnswers ==
  ASSUME NEW s, IsContainer(s)
  PROVE  /\ Scan(s) \in {"Go", "AllPresent", "EmptyShard", "IncorrectShardSize",
                         "TooFewShardsPresent"}
         /\ Scan(s) = "AllPresent" => Present(s) = Shards
BY DEF Scan

\* Returning early is sound for a trusted container.
LEMMA EarlySound ==
  ASSUME NEW s, IsContainer(s), Trusted(s), Scan(s) # "Go",
         NEW target \in SUBSET Shards
  PROVE  Sound(s, Early(s), target)
BY ScanAnswers DEF Early, Outcome, Sound, Results

\* Returning an error and the container as it was is sound.
LEMMA ErrorSound ==
  ASSUME NEW s, IsContainer(s), NEW error \in Results \ {"none", "Ok"},
         NEW target \in SUBSET Shards
  PROVE  Sound(s, Outcome(s, error), target)
BY DEF Outcome, Sound

\* The rows a decode matrix is made from are present shards.
LEMMA RowsPresent ==
  ASSUME NEW s
  PROVE  Rows(s) \subseteq Present(s)
BY DEF Rows, FirstPresent

\* Decoding the missing part of a target from present shards recovers it.
LEMMA DecodeSound ==
  ASSUME NEW s, IsContainer(s), Trusted(s),
         NEW rows \in SUBSET Present(s), NEW len \in Lengths,
         NEW target \in SUBSET Shards,
         NEW written, written = Missing(s) \cap target
  PROVE  Sound(s, Outcome(Decode(s, rows, len, written), "Ok"), target)
<1> DEFINE o == Decode(s, rows, len, written)
<1>1. (\A j \in rows : s[j].present /\ s[j].good) = TRUE
  BY DEF Trusted, Present
<1>2. \A i \in Shards :
        o[i] = IF i \in written THEN [present |-> TRUE, len |-> len, good |-> TRUE]
               ELSE s[i]
  BY <1>1 DEF Decode
<1>b. o = [i \in Shards |-> o[i]]
  BY DEF Decode
<1> HIDE DEF o
<1>3. IsContainer(o)
  <2>a. [present |-> TRUE, len |-> len, good |-> TRUE] \in Slot
    BY DEF Slot
  <2>b. \A i \in Shards : s[i] \in Slot
    BY DEF IsContainer
  <2>1. \A i \in Shards : o[i] \in Slot
    BY <1>2, <2>a, <2>b
  <2>2. QED
    BY <2>1, <1>b DEF IsContainer
<1>4. Trusted(o)
  BY <1>2 DEF Trusted, Present
<1>5. target \subseteq Present(o)
  BY <1>2 DEF Present, Missing
<1>6. \A i \in Shards : o[i] # s[i] => i \in Missing(s) \cap target /\ o[i].present
  BY <1>2
<1>7. Sound(s, Outcome(o, "Ok"), target)
  BY <1>3, <1>4, <1>5, <1>6 DEF Outcome, Sound, Results
<1>8. QED
  BY <1>7 DEF o

\* Marking shards of the target present, then failing, is sound.
LEMMA MarkSound ==
  ASSUME NEW s, IsContainer(s), Scan(s) = "Go",
         NEW target \in SUBSET Shards,
         NEW marked \in SUBSET (Missing(s) \cap target),
         NEW error \in Results \ {"none", "Ok"}
  PROVE  Sound(s, Outcome(MarkPresent(s, marked), error), target)
<1>1. \A i \in Shards : MarkPresent(s, marked)[i] \in Slot
  BY GoHasLength DEF MarkPresent, Initialised, IsContainer, Slot
<1>2. IsContainer(MarkPresent(s, marked))
  BY <1>1 DEF IsContainer, MarkPresent
<1>3. \A i \in marked : MarkPresent(s, marked)[i].present
  <2>1. \A i \in marked : Initialised(s, i).present
    BY DEF Initialised, IsContainer, Slot, Missing
  <2>2. QED
    BY <2>1 DEF MarkPresent, Missing
<1>4. \A i \in Shards : MarkPresent(s, marked)[i] # s[i] => i \in marked
  BY DEF MarkPresent
<1>5. QED
  BY <1>2, <1>3, <1>4 DEF Sound, Outcome

\* Writing part of the target, then failing, is sound.
LEMMA PartialWriteSound ==
  ASSUME NEW s, IsContainer(s), Scan(s) = "Go",
         NEW target \in SUBSET Shards,
         NEW written \in SUBSET (Missing(s) \cap target),
         NEW error \in Results \ {"none", "Ok"}
  PROVE  Sound(s, Outcome(Write(s, written), error), target)
<1>1. \A i \in Shards : Write(s, written)[i] \in Slot
  BY GoHasLength DEF Write, Decode, IsContainer, Slot
<1>2. IsContainer(Write(s, written))
  BY <1>1 DEF IsContainer, Write, Decode
<1>3. QED
  BY <1>2 DEF Sound, Outcome, Write, Decode

LEMMA WriteSound ==
  ASSUME NEW s, IsContainer(s), Trusted(s), Scan(s) = "Go",
         NEW target \in SUBSET Shards,
         NEW written, written = Missing(s) \cap target
  PROVE  Sound(s, Outcome(Write(s, written), "Ok"), target)
BY DecodeSound, GoHasLength, RowsPresent DEF Write

----------------------------------------------------------------------------

\* The generic path is sound: its error paths mark only targets present.
LEMMA GenericSound ==
  ASSUME NEW s, IsContainer(s), Trusted(s),
         NEW target \in SUBSET Shards,
         NEW targets, targets = Missing(s) \cap target
  PROVE  Sound(s, Generic(s, targets), target)
<1>1. CASE Scan(s) # "Go"
  BY <1>1, EarlySound DEF Generic
<1>2. CASE Scan(s) = "Go" /\ Refused(s, targets) # {}
  <2>1. Reached(s, targets) \in SUBSET (Missing(s) \cap target)
    BY DEF Reached
  <2>2. Sound(s, Outcome(MarkPresent(s, Reached(s, targets)), "IncorrectShardSize"), target)
    BY <1>2, <2>1, MarkSound DEF Results
  <2>3. QED
    BY <1>2, <2>2 DEF Generic
<1>3. CASE Scan(s) = "Go" /\ Refused(s, targets) = {} /\ ~Invertible(s)
  <2>1. Sound(s, Outcome(MarkPresent(s, targets), "InvalidCustomMatrix"), target)
    BY <1>3, MarkSound DEF Results
  <2>2. QED
    BY <1>3, <2>1 DEF Generic
<1>4. CASE Scan(s) = "Go" /\ Refused(s, targets) = {} /\ Invertible(s)
  BY <1>4, WriteSound DEF Generic
<1>5. QED
  BY <1>1, <1>2, <1>3, <1>4

\* The parallel path is sound.
LEMMA OptionVecParSound ==
  ASSUME NEW s, IsContainer(s), Trusted(s),
         NEW target \in SUBSET Shards,
         NEW targets, targets = Missing(s) \cap target
  PROVE  Sound(s, OptionVecPar(s, targets), target)
<1>1. CASE Scan(s) # "Go"
  BY <1>1, EarlySound DEF OptionVecPar
<1>2. CASE Scan(s) = "Go" /\ ~Invertible(s)
  <2>1. Sound(s, Outcome(s, "InvalidCustomMatrix"), target)
    BY ErrorSound DEF Results
  <2>2. QED
    BY <1>2, <2>1 DEF OptionVecPar
<1>3. CASE Scan(s) = "Go" /\ Invertible(s)
  BY <1>3, WriteSound DEF OptionVecPar
<1>4. QED
  BY <1>1, <1>2, <1>3

\* reconstruct_some is sound: both of its error paths stay inside the mask.
LEMMA SomeSound ==
  ASSUME NEW s, IsContainer(s), Trusted(s), NEW required \in SUBSET Shards
  PROVE  Sound(s, Some(s, required), required)
<1> DEFINE targets == required \cap Missing(s)
<1>a. targets = Missing(s) \cap required
  OBVIOUS
<1>b. Reached(s, targets) \in SUBSET (Missing(s) \cap required)
  BY DEF Reached
<1>1. CASE Scan(s) # "Go"
  BY <1>1, EarlySound DEF Some
<1>2. CASE Scan(s) = "Go" /\ required \subseteq DataIndices /\ targets = {}
  <2>1. required \subseteq Present(s)
    BY <1>2 DEF Missing
  <2>2. Sound(s, Outcome(s, "Ok"), required)
    BY <2>1 DEF Sound, Outcome, Results
  <2>3. QED
    BY <1>2, <2>2 DEF Some
<1>3. CASE /\ Scan(s) = "Go" /\ ~(required \subseteq DataIndices /\ targets = {})
           /\ ~Invertible(s)
  <2>1. Sound(s, Outcome(s, "InvalidCustomMatrix"), required)
    BY ErrorSound DEF Results
  <2>2. QED
    BY <1>3, <2>1 DEF Some
<1>4. CASE /\ Scan(s) = "Go" /\ ~(required \subseteq DataIndices /\ targets = {})
           /\ Invertible(s) /\ Refused(s, targets) = {}
  <2>1. Sound(s, Outcome(Write(s, targets), "Ok"), required)
    BY <1>4, <1>a, WriteSound
  <2>2. QED
    BY <1>4, <2>1 DEF Some
<1>5. CASE /\ Scan(s) = "Go" /\ ~(required \subseteq DataIndices /\ targets = {})
           /\ Invertible(s) /\ Refused(s, targets) # {}
  <2>1. Sound(s, Outcome(MarkPresent(s, Reached(s, targets)), "IncorrectShardSize"), required)
    BY <1>5, <1>b, MarkSound DEF Results
  <2>2. Sound(s, Outcome(Write(s, Reached(s, targets)), "IncorrectShardSize"), required)
    BY <1>5, <1>b, PartialWriteSound DEF Results
  <2>3. QED
    BY <1>5, <2>1, <2>2 DEF Some
<1>6. QED
  BY <1>1, <1>2, <1>3, <1>4, <1>5

\* A workspace: what plan_option_vec_reconstruct may have left in it.
IsPlan(p) ==
  /\ p \in [len : Lengths \cup {-1}, valid : SUBSET Shards, invalid : SUBSET Shards]
  /\ p.valid \subseteq Shards \ p.invalid
  /\ p.len = -1 => p = NoPlan

\* A workspace used on any container is sound for what it was planned for: the
\* pattern check makes the rows it decodes from present ones.
LEMMA ExecuteSound ==
  ASSUME NEW s, IsContainer(s), Trusted(s),
         NEW p, IsPlan(p), p # NoPlan
  PROVE  Sound(s, Execute(s, p), IF p.len = 0 THEN {} ELSE p.invalid)
<1> DEFINE target == IF p.len = 0 THEN {} ELSE p.invalid
<1>a. target \in SUBSET Shards /\ p.len \in Lengths
  BY DEF IsPlan
<1>1. CASE p.len = 0
  BY <1>1 DEF Execute, Sound, Outcome, Results
<1>2. CASE p.len # 0 /\ Misshapen(s) # {}
  <2>1. Scan(s) # "Go"
    BY <1>2 DEF Scan
  <2>2. QED
    BY <1>2, <1>a, <2>1, EarlySound DEF Execute
<1>3. CASE p.len # 0 /\ Misshapen(s) = {} /\ Missing(s) # p.invalid
  <2>1. Sound(s, Outcome(s, "InvalidShardFlags"), target)
    BY <1>a, ErrorSound DEF Results
  <2>2. QED
    BY <1>3, <2>1 DEF Execute
<1>4. CASE /\ p.len # 0 /\ Misshapen(s) = {} /\ Missing(s) = p.invalid
           /\ SharedLen(s) # p.len
  <2>1. Sound(s, Outcome(s, "IncorrectShardSize"), target)
    BY <1>a, ErrorSound DEF Results
  <2>2. QED
    BY <1>4, <2>1 DEF Execute
<1>5. CASE /\ p.len # 0 /\ Misshapen(s) = {} /\ Missing(s) = p.invalid
           /\ SharedLen(s) = p.len
  <2>1. p.valid \in SUBSET Present(s)
    BY <1>5 DEF IsPlan, Missing
  <2>2. p.invalid = Missing(s) \cap target
    BY <1>5
  <2>3. Sound(s, Outcome(Decode(s, p.valid, p.len, p.invalid), "Ok"), target)
    BY <1>a, <2>1, <2>2, DecodeSound
  <2>4. QED
    BY <1>5, <2>3 DEF Execute
<1>6. QED
  BY <1>1, <1>2, <1>3, <1>4, <1>5

----------------------------------------------------------------------------
(* The invariant.                                                            *)

IInv ==
  /\ TypeOK
  /\ IsPlan(plan)
  /\ PresentAreCodeword
  /\ OkMeansRecovered

\* One call of a sound path, by a careful caller, keeps the invariant and
\* touches only its targets.
LEMMA CallKeeps ==
  ASSUME Careful, IInv, NEW o, NEW target \in SUBSET Shards,
         Sound(slots, o, target), Call(o, target)
  PROVE  /\ IInv'
         /\ \A i \in Shards : slots'[i] # slots[i] => i \in Missing(slots) \cap last'.target
<1>a. /\ slots' = o.slots /\ last' = [target |-> target, result |-> o.result]
      /\ missing' = IF o.result # "Ok" THEN Missing(slots) ELSE {}
      /\ kind' = kind /\ plan' = plan /\ missing = {}
  BY DEF Call, Settled
<1>1. TypeOK'
  <2>1. \A i \in Missing(slots)' : kind' = "option" => slots'[i].len = 0
    BY <1>a DEF IInv, TypeOK, Sound, Missing, Present
  <2>2. Missing(slots) \in SUBSET Shards
    BY DEF Missing
  <2>3. slots' \in [Shards -> Slot] /\ missing' \in SUBSET Shards
    BY <1>a, <2>2 DEF Sound, IsContainer
  <2>4. last' \in [target : SUBSET Shards, result : Results]
    BY <1>a DEF Sound
  <2>5. QED
    BY <1>a, <2>1, <2>3, <2>4 DEF IInv, TypeOK
<1>2. IsPlan(plan)'
  BY <1>a DEF IInv, IsPlan
<1>3. PresentAreCodeword'
  <2>1. CASE o.result = "Ok"
    BY <1>a, <2>1 DEF PresentAreCodeword, Sound, Trusted
  <2>2. CASE o.result # "Ok"
    <3>1. \A i \in Shards \ Missing(slots) : slots'[i] = slots[i] /\ slots[i].present
      BY <1>a DEF Sound, Missing, Present
    <3>2. QED
      BY <1>a, <2>2, <3>1 DEF PresentAreCodeword, IInv, Present
  <2>3. QED
    BY <2>1, <2>2
<1>4. OkMeansRecovered'
  BY <1>a DEF OkMeansRecovered, Sound, Trusted, Present
<1>5. \A i \in Shards : slots'[i] # slots[i] => i \in Missing(slots) \cap last'.target
  BY <1>a DEF Sound
<1>6. QED
  BY <1>1, <1>2, <1>3, <1>4, <1>5 DEF IInv


\* Every variable starts well typed, with nothing lost and nothing promised.
LEMMA InitInvariant == Init => IInv
<1> SUFFICES ASSUME Init PROVE IInv
  OBVIOUS
<1>1. [present |-> TRUE, len |-> Full, good |-> TRUE] \in Slot
  BY DEF Slot, Lengths
<1>2. slots \in [Shards -> Slot]
  BY <1>1 DEF Init
<1>3. Present(slots) = Shards /\ \A i \in Shards : slots[i].good
  BY DEF Init, Present
<1>4. TypeOK
  BY <1>2, <1>3 DEF Init, TypeOK, Missing, NoPlan, NoCall, Results
<1>5. IsPlan(plan)
  BY DEF Init, IsPlan, NoPlan
<1>6. PresentAreCodeword /\ OkMeansRecovered
  BY <1>3 DEF Init, PresentAreCodeword, OkMeansRecovered, NoCall
<1>7. QED
  BY <1>4, <1>5, <1>6 DEF IInv

\* A change the caller makes to a shard keeps the invariant.
LEMMA EditKeeps ==
  ASSUME IInv, NEW i \in Shards, NEW slot \in Slot,
         slot.present => slot.good,
         kind = "option" /\ ~slot.present => slot.len = 0,
         Edit(i, slot)
  PROVE  IInv'
<1>a. /\ slots' = [slots EXCEPT ![i] = slot] /\ last' = NoCall
      /\ kind' = kind /\ plan' = plan /\ missing' = missing /\ missing = {}
  BY DEF Edit, Settled
<1>b. slots \in [Shards -> Slot]
  BY DEF IInv, TypeOK
<1>c. \A j \in Shards : slots'[j] = IF j = i THEN slot ELSE slots[j]
  BY <1>a, <1>b
<1>1. TypeOK'
  <2>1. slots' \in [Shards -> Slot]
    BY <1>a, <1>b
  <2>2. \A j \in Missing(slots)' : kind' = "option" => slots'[j].len = 0
    BY <1>a, <1>c DEF IInv, TypeOK, Missing, Present
  <2>3. last' \in [target : SUBSET Shards, result : Results]
    BY <1>a DEF NoCall, Results
  <2>4. QED
    BY <1>a, <2>1, <2>2, <2>3 DEF IInv, TypeOK
<1>2. IsPlan(plan)'
  BY <1>a DEF IInv, IsPlan
<1>3. PresentAreCodeword'
  BY <1>a, <1>c DEF IInv, PresentAreCodeword, Present
<1>4. OkMeansRecovered'
  BY <1>a DEF OkMeansRecovered, NoCall
<1>5. QED
  BY <1>1, <1>2, <1>3, <1>4 DEF IInv

\* The caller's steps keep the invariant.
LEMMA CallerKeeps == IInv /\ CallerNext => IInv' /\ last'.result = "none"
<1> SUFFICES ASSUME IInv, CallerNext PROVE IInv' /\ last'.result = "none"
  OBVIOUS
<1>a. slots \in [Shards -> Slot]
  BY DEF IInv, TypeOK
<1>1. CASE \E i \in Shards, len \in Lengths : Lose(i, len)
  <2>1. PICK i \in Shards, len \in Lengths : Lose(i, len)
    BY <1>1
  <2> DEFINE slot == [present |-> FALSE, len |-> len, good |-> FALSE]
  <2>2. slot \in Slot
    BY DEF Slot
  <2>3. IInv'
    BY <2>1, <2>2, EditKeeps DEF Lose
  <2>4. QED
    BY <2>1, <2>3 DEF Lose, Edit, NoCall
<1>2. CASE \E i \in Shards, len \in Lengths : Truncate(i, len)
  <2>1. PICK i \in Shards, len \in Lengths : Truncate(i, len)
    BY <1>2
  <2> DEFINE slot == [slots[i] EXCEPT !.len = len]
  <2>2. slot \in Slot /\ slot.present /\ slot.good
    BY <1>a, <2>1 DEF Slot, Truncate, Edit, Settled, IInv, PresentAreCodeword, Present
  <2>3. IInv'
    <3>1. Edit(i, slot)
      BY <2>1 DEF Truncate
    <3> HIDE DEF slot
    <3>2. QED
      BY <3>1, <2>2, EditKeeps
  <2>4. QED
    BY <2>1, <2>3 DEF Truncate, Edit, NoCall
<1>3. CASE \E i \in Shards : Provide(i)
  <2>1. PICK i \in Shards : Provide(i)
    BY <1>3
  <2>2. [present |-> TRUE, len |-> Full, good |-> TRUE] \in Slot
    BY DEF Slot, Lengths
  <2>3. IInv'
    BY <2>1, <2>2, EditKeeps DEF Provide
  <2>4. QED
    BY <2>1, <2>3 DEF Provide, Edit, NoCall
<1>4. CASE Rollback
  <2>a. /\ missing' = {} /\ last' = NoCall /\ kind' = kind /\ plan' = plan
    BY <1>4 DEF Rollback
  <2>b. \A i \in Shards : slots'[i] =
          IF i \in missing
          THEN [present |-> FALSE, good |-> FALSE,
                len |-> IF kind = "option" THEN 0 ELSE slots[i].len]
          ELSE slots[i]
    BY <1>4 DEF Rollback
  <2>1. slots' \in [Shards -> Slot]
    <3>1. \A i \in Shards : slots[i] \in Slot /\ slots[i].len \in Lengths
      BY <1>a DEF Slot
    <3>2. \A i \in Shards : (IF kind = "option" THEN 0 ELSE slots[i].len) \in Lengths
      BY <3>1 DEF Lengths
    <3>3. \A len \in Lengths : [present |-> FALSE, good |-> FALSE, len |-> len] \in Slot
      BY DEF Slot
    <3>4. \A i \in Shards : slots'[i] \in Slot
      BY <2>b, <3>1, <3>2, <3>3
    <3>5. QED
      BY <3>4, <1>4 DEF Rollback
  <2>2. \A i \in Missing(slots)' : kind' = "option" => slots'[i].len = 0
    BY <2>a, <2>b DEF IInv, TypeOK, Missing, Present
  <2>3. last' \in [target : SUBSET Shards, result : Results]
    BY <2>a DEF NoCall, Results
  <2>4. TypeOK'
    BY <2>a, <2>1, <2>2, <2>3 DEF IInv, TypeOK
  <2>5. PresentAreCodeword'
    <3>a. ASSUME NEW i \in Shards, i \in missing
          PROVE  slots'[i].present = FALSE
      <4> DEFINE len == IF kind = "option" THEN 0 ELSE slots[i].len
      <4>1. slots'[i] = [present |-> FALSE, good |-> FALSE, len |-> len]
        BY <2>b, <3>a
      <4> HIDE DEF len
      <4>2. QED
        BY <4>1
    <3>b. \A i \in Shards : i \notin missing => slots'[i] = slots[i]
      BY <2>b
    <3>1. \A i \in Present(slots)' : i \in Shards \ missing /\ slots'[i] = slots[i]
      BY <3>a, <3>b DEF Present
    <3>2. QED
      BY <3>1 DEF IInv, PresentAreCodeword, Present
  <2>6. OkMeansRecovered' /\ last'.result = "none" /\ IsPlan(plan)'
    BY <2>a DEF OkMeansRecovered, NoCall, IInv, IsPlan
  <2>7. QED
    BY <2>4, <2>5, <2>6 DEF IInv
<1>5. QED
  BY <1>1, <1>2, <1>3, <1>4 DEF CallerNext

\* What planning leaves is a plan.
LEMMA PlannedIsPlan ==
  ASSUME NEW s, IsContainer(s), PlanError(s) = "Ok"
  PROVE  IsPlan(Planned(s))
<1>1. CASE Scan(s) = "AllPresent"
  BY <1>1 DEF Planned, IsPlan, Lengths
<1>2. CASE Scan(s) # "AllPresent"
  <2>1. Scan(s) = "Go"
    BY <1>2, ScanAnswers DEF PlanError
  <2>2. SharedLen(s) \in Lengths /\ SharedLen(s) # -1
    BY <2>1, GoHasLength, ReconstructAssumption DEF Lengths
  <2>3. /\ Rows(s) \subseteq Shards \ Missing(s)
        /\ Missing(s) \subseteq Shards /\ Rows(s) \subseteq Shards
    BY RowsPresent DEF Missing, Present
  <2>4. Planned(s) = [len |-> SharedLen(s), valid |-> Rows(s), invalid |-> Missing(s)]
    BY <1>2 DEF Planned
  <2> QED
    BY <2>2, <2>3, <2>4 DEF IsPlan
<1> QED
  BY <1>1, <1>2

\* Planning keeps the invariant: what it plans decodes from present shards.
LEMMA PrepareKeeps == IInv /\ Prepare => IInv' /\ slots' = slots
<1> SUFFICES ASSUME IInv, Prepare PROVE IInv' /\ slots' = slots
  OBVIOUS
<1>a. /\ plan' = IF PlanError(slots) = "Ok" THEN Planned(slots) ELSE plan
      /\ last' = [target |-> {}, result |-> PlanError(slots)]
      /\ kind' = kind /\ slots' = slots /\ missing' = missing
  BY DEF Prepare
<1>b. IsContainer(slots)
  BY DEF IInv, TypeOK, IsContainer
<1>1. IsPlan(plan')
  <2>1. CASE PlanError(slots) = "Ok"
    BY <1>a, <1>b, <2>1, PlannedIsPlan
  <2>2. CASE PlanError(slots) # "Ok"
    BY <1>a, <2>2 DEF IInv
  <2>3. QED
    BY <2>1, <2>2
<1>2. PlanError(slots) \in Results
  BY <1>b, ScanAnswers DEF PlanError, Results
<1>3. TypeOK'
  BY <1>a, <1>1, <1>2 DEF IInv, TypeOK, IsPlan, Missing, Present
<1>4. PresentAreCodeword' /\ OkMeansRecovered'
  BY <1>a DEF IInv, PresentAreCodeword, OkMeansRecovered, Present
<1>5. QED
  BY <1>a, <1>1, <1>3, <1>4 DEF IInv, IsPlan

----------------------------------------------------------------------------

\* What a call step may change.
Touches == \A i \in Shards : slots'[i] # slots[i] => i \in Missing(slots) \cap last'.target

\* Every call, by a careful caller, keeps the invariant and touches only its
\* targets: each path is Sound on the container the invariant describes.
LEMMA CallsKeep == Careful /\ IInv /\ CallNext => IInv' /\ Touches
<1> SUFFICES ASSUME Careful, IInv, CallNext PROVE IInv' /\ Touches
  OBVIOUS
<1>a. IsContainer(slots)
  BY DEF IInv, TypeOK, IsContainer
<1>b. Settled => Trusted(slots)
  BY DEF IInv, PresentAreCodeword, Settled, Trusted
<1>c. Shards \in SUBSET Shards /\ DataIndices \in SUBSET Shards
  BY CodecAssumption DEF Shards, DataIndices
<1>d. /\ Missing(slots) = Missing(slots) \cap Shards
  BY DEF Missing
<1>e. ASSUME NEW o, NEW target \in SUBSET Shards, Call(o, target),
             Settled => Sound(slots, o, target)
      PROVE  IInv' /\ Touches
  BY <1>e, CallKeeps DEF Call, Touches
<1>1. CASE ReconstructAll
  BY <1>1, <1>a, <1>b, <1>c, <1>d, <1>e, GenericSound DEF ReconstructAll
<1>2. CASE ReconstructData
  BY <1>2, <1>a, <1>b, <1>c, <1>e, GenericSound DEF ReconstructData
<1>3. CASE \E required \in SUBSET Shards : ReconstructSome(required)
  BY <1>3, <1>a, <1>b, <1>e, SomeSound DEF ReconstructSome
<1>4. CASE ReconstructOpt
  BY <1>4, <1>a, <1>b, <1>c, <1>d, <1>e, GenericSound, OptionVecParSound
     DEF ReconstructOpt
<1>5. CASE \E required \in SUBSET Shards : ReconstructSomeOpt(required)
  <2>1. PICK required \in SUBSET Shards : ReconstructSomeOpt(required)
    BY <1>5
  <2>2. CASE required \subseteq DataIndices
    <3>1. Call(SomeOptData(slots, required), required)
      BY <2>1, <2>2 DEF ReconstructSomeOpt
    <3>2. required \cap Missing(slots) = Missing(slots) \cap required
      OBVIOUS
    <3>3. Settled => Sound(slots, SomeOptData(slots, required), required)
      BY <1>a, <1>b, <3>2, OptionVecParSound DEF SomeOptData
    <3>4. QED
      BY <3>1, <3>3, <1>e
  <2>3. CASE ~(required \subseteq DataIndices)
    BY <2>1, <2>3, <1>4 DEF ReconstructSomeOpt
  <2>4. QED
    BY <2>2, <2>3
<1>6. CASE ReconstructDataOpt
  BY <1>6, <1>a, <1>b, <1>c, <1>e, GenericSound, OptionVecParSound
     DEF ReconstructDataOpt
<1>7. CASE Prepare
  BY <1>7, PrepareKeeps DEF Touches
<1>8. CASE ReconstructWithWorkspace
  <2> DEFINE target == IF plan.len = 0 THEN {} ELSE plan.invalid
  <2>1. Call(Execute(slots, plan), target) /\ plan # NoPlan
    BY <1>8 DEF ReconstructWithWorkspace
  <2>2. IsPlan(plan) /\ target \in SUBSET Shards
    BY DEF IInv, IsPlan
  <2>3. Settled => Sound(slots, Execute(slots, plan), target)
    BY <1>a, <1>b, <2>1, <2>2, ExecuteSound
  <2>4. QED
    BY <2>1, <2>2, <2>3, <1>e
<1>9. QED
  BY <1>1, <1>2, <1>3, <1>4, <1>5, <1>6, <1>7, <1>8 DEF CallNext

LEMMA StutterKeeps == IInv /\ UNCHANGED vars => IInv'
BY DEF IInv, TypeOK, IsPlan, PresentAreCodeword, OkMeansRecovered, vars, Missing, Present

\* IInv is an invariant of a careful caller's behaviours.
LEMMA Invariant ==
  ASSUME Careful
  PROVE  Spec => []IInv
<1>1. IInv /\ [Next]_vars => IInv'
  <2>1. IInv /\ CallNext => IInv'
    BY CallsKeep
  <2>2. IInv /\ CallerNext => IInv'
    BY CallerKeeps
  <2>3. QED
    BY <2>1, <2>2, StutterKeeps DEF Next
<1>2. QED
  BY <1>1, InitInvariant, PTL DEF Spec

\* Whatever a careful caller does, a present shard holds the codeword: no call
\* path of reconstruct.rs or policy.rs leaves anything else in one.
THEOREM PresentStayCodeword ==
  ASSUME Careful
  PROVE  Spec => []PresentAreCodeword
<1>1. IInv => PresentAreCodeword
  BY DEF IInv
<1>2. QED
  BY <1>1, Invariant, PTL

\* Whatever a careful caller does, a reconstruct call that returns Ok has
\* recovered what it promised.
THEOREM OkIsTrue ==
  ASSUME Careful
  PROVE  Spec => []OkMeansRecovered
<1>1. IInv => OkMeansRecovered
  BY DEF IInv
<1>2. QED
  BY <1>1, Invariant, PTL

\* No reconstruct call of a careful caller writes a present shard, nor one
\* outside what the call promises.
THEOREM CallsKeepToTargets ==
  ASSUME Careful
  PROVE  Spec => OnlyTargetsTouched
<1>1. IInv /\ [Next]_vars => [last'.result # "none" => Touches]_vars
  <2>1. IInv /\ CallNext => Touches
    BY CallsKeep
  <2>2. IInv /\ CallerNext => last'.result = "none"
    BY CallerKeeps
  <2>3. QED
    BY <2>1, <2>2 DEF Next
<1>2. Spec => [][last'.result # "none" => Touches]_vars
  BY <1>1, Invariant, PTL DEF Spec
<1>3. QED
  BY <1>2 DEF OnlyTargetsTouched, Touches

\* The variables of the reconstruct calls keep their types.
THEOREM TypeCorrect ==
  ASSUME Careful
  PROVE  Spec => []TypeOK
<1>1. IInv => TypeOK
  BY DEF IInv
<1>2. QED
  BY <1>1, Invariant, PTL

----------------------------------------------------------------------------
(* The paths agree, for a careful caller and for one who is not.             *)

\* What any caller holds: a container, and a workspace planned from one.
Held ==
  /\ kind \in {"option", "slot"}
  /\ IsContainer(slots)
  /\ IsPlan(plan)

\* A container that a scan finds work in has a present shard, and the length
\* the present shards share is its length and not 0.
LEMMA GoLength ==
  ASSUME NEW s, IsContainer(s), Scan(s) = "Go"
  PROVE  SharedLen(s) \in Lengths \ {0}
<1>1. Misshapen(s) = {} /\ ~(Cardinality(Present(s)) < DataShards)
  BY DEF Scan
<1>2. Present(s) # {}
  <2>1. CASE Present(s) = {}
    BY <1>1, <2>1, FS_EmptySet, CodecAssumption
  <2> QED
    BY <2>1
<1>3. \E len \in Lengths : \E i \in Present(s) : s[i].len = len
  BY <1>2 DEF Present, IsContainer, Slot
<1>4. PICK i \in Present(s) : s[i].len = SharedLen(s)
  BY <1>3 DEF SharedLen
<1>5. s[i].len # 0
  BY <1>1 DEF Misshapen
<1> QED
  BY <1>4, <1>5, GoHasLength

\* Writing any shards with a length of the codec leaves a container.
LEMMA DecodeContainer ==
  ASSUME NEW s, IsContainer(s), NEW rows \in SUBSET Shards, NEW len \in Lengths, NEW targets
  PROVE  IsContainer(Decode(s, rows, len, targets))
<1>1. \A good \in BOOLEAN : [present |-> TRUE, len |-> len, good |-> good] \in Slot
  BY DEF Slot
<1>2. (\A j \in rows : s[j].present /\ s[j].good) \in BOOLEAN
  OBVIOUS
<1>3. \A i \in Shards : s[i] \in Slot
  BY DEF IsContainer
<1>4. \A i \in Shards : Decode(s, rows, len, targets)[i] \in Slot
  BY <1>1, <1>2, <1>3 DEF Decode
<1> QED
  BY <1>4 DEF IsContainer, Decode

\* So does marking any shards present.
LEMMA MarkContainer ==
  ASSUME NEW s, IsContainer(s), Scan(s) = "Go", NEW targets
  PROVE  IsContainer(MarkPresent(s, targets))
<1>1. \A i \in Shards : MarkPresent(s, targets)[i] \in Slot
  BY GoHasLength DEF MarkPresent, Initialised, IsContainer, Slot
<1> QED
  BY <1>1 DEF IsContainer, MarkPresent

\* Every path leaves a container, whatever the present shards hold.
LEMMA PathsLeaveContainers ==
  ASSUME NEW s, IsContainer(s), NEW targets
  PROVE  /\ IsContainer(Generic(s, targets).slots)
         /\ IsContainer(OptionVecPar(s, targets).slots)
         /\ IsContainer(Some(s, targets).slots)
<1>1. CASE Scan(s) # "Go"
  BY <1>1 DEF Generic, OptionVecPar, Some, Early, Outcome
<1>2. CASE Scan(s) = "Go"
  <2>1. \A t : IsContainer(MarkPresent(s, t))
    BY <1>2, MarkContainer
  <2>2. \A t : IsContainer(Write(s, t))
    <3>1. Rows(s) \in SUBSET Shards
      BY RowsPresent DEF Present
    <3> QED
      BY <1>2, <3>1, GoHasLength, DecodeContainer DEF Write
  <2>3. IsContainer(Generic(s, targets).slots)
    BY <1>2, <2>1, <2>2 DEF Generic, Outcome
  <2>4. IsContainer(OptionVecPar(s, targets).slots)
    BY <1>2, <2>2 DEF OptionVecPar, Outcome
  <2>5. IsContainer(Some(s, targets).slots)
    BY <1>2, <2>1, <2>2 DEF Some, Outcome
  <2> QED
    BY <2>3, <2>4, <2>5
<1> QED
  BY <1>1, <1>2

\* So does a workspace.
LEMMA ExecuteLeavesContainer ==
  ASSUME NEW s, IsContainer(s), NEW p, IsPlan(p), p # NoPlan
  PROVE  IsContainer(Execute(s, p).slots)
<1>1. p.len \in Lengths /\ p.valid \in SUBSET Shards
  BY DEF IsPlan
<1>2. IsContainer(Decode(s, p.valid, p.len, p.invalid))
  BY <1>1, DecodeContainer
<1> QED
  BY <1>2 DEF Execute, Early, Outcome

\* Any step of any caller keeps the container and the workspace.
LEMMA HeldKept == Held /\ [Next]_vars => Held'
<1> SUFFICES ASSUME Held, [Next]_vars
             PROVE  Held'
  OBVIOUS
<1>1. /\ kind \in {"option", "slot"} /\ slots \in [Shards -> Slot] /\ IsPlan(plan)
      /\ IsContainer(slots)
  BY DEF Held, IsContainer
<1>2. \A i \in Shards : slots[i] \in Slot /\ slots[i].len \in Lengths /\ slots[i].good \in BOOLEAN
  BY <1>1 DEF Slot
<1>3. ASSUME NEW o, NEW target, Call(o, target), IsContainer(o.slots)
      PROVE  Held'
  BY <1>1, <1>3 DEF Call, Held, IsContainer
<1>4. ASSUME NEW i \in Shards, NEW slot \in Slot, Edit(i, slot)
      PROVE  Held'
  BY <1>1, <1>4 DEF Edit, Held, IsContainer
<1>5. CASE CallerNext
  <2>1. ASSUME NEW i \in Shards, NEW len \in Lengths, Lose(i, len)
        PROVE  Held'
    <3>1. [present |-> FALSE, len |-> len, good |-> FALSE] \in Slot
      BY DEF Slot
    <3> QED
      BY <1>4, <2>1, <3>1 DEF Lose
  <2>2. ASSUME NEW i \in Shards, NEW len \in Lengths, Truncate(i, len)
        PROVE  Held'
    <3>1. [slots[i] EXCEPT !.len = len] \in Slot
      BY <1>2 DEF Slot
    <3> QED
      BY <1>4, <2>2, <3>1 DEF Truncate
  <2>3. ASSUME NEW i \in Shards, Provide(i)
        PROVE  Held'
    <3>1. [present |-> TRUE, len |-> Full, good |-> TRUE] \in Slot
      BY DEF Slot, Lengths
    <3> QED
      BY <1>4, <2>3, <3>1 DEF Provide
  <2>4. CASE Rollback
    <3>1. \A i \in Shards : (IF kind = "option" THEN 0 ELSE slots[i].len) \in Lengths
      BY <1>2 DEF Lengths
    <3>2. \A len \in Lengths : [present |-> FALSE, good |-> FALSE, len |-> len] \in Slot
      BY DEF Slot
    <3>3. \A i \in Shards : slots'[i] \in Slot
      BY <1>2, <2>4, <3>1, <3>2 DEF Rollback
    <3> QED
      BY <1>1, <2>4, <3>3 DEF Rollback, Held, IsContainer
  <2> QED
    BY <1>5, <2>1, <2>2, <2>3, <2>4 DEF CallerNext
<1>6. CASE CallNext
  <2>1. CASE ReconstructAll \/ ReconstructData \/ ReconstructOpt \/ ReconstructDataOpt
    BY <1>1, <1>3, <2>1, PathsLeaveContainers
       DEF ReconstructAll, ReconstructData, ReconstructOpt, ReconstructDataOpt
  <2>2. ASSUME NEW required \in SUBSET Shards, ReconstructSome(required)
        PROVE  Held'
    BY <1>1, <1>3, <2>2, PathsLeaveContainers DEF ReconstructSome
  <2>3. ASSUME NEW required \in SUBSET Shards, ReconstructSomeOpt(required)
        PROVE  Held'
    BY <1>1, <1>3, <2>1, <2>3, PathsLeaveContainers DEF ReconstructSomeOpt, SomeOptData
  <2>4. CASE Prepare
    <3>1. plan' = (IF PlanError(slots) = "Ok" THEN Planned(slots) ELSE plan)
          /\ kind' = kind /\ slots' = slots
      BY <2>4 DEF Prepare
    <3>2. IsPlan(plan')
      BY <1>1, <3>1, PlannedIsPlan
    <3> QED
      BY <1>1, <3>1, <3>2 DEF Held, IsPlan
  <2>5. CASE ReconstructWithWorkspace
    BY <1>1, <1>3, <2>5, ExecuteLeavesContainer DEF ReconstructWithWorkspace
  <2> QED
    BY <1>6, <2>1, <2>2, <2>3, <2>4, <2>5 DEF CallNext
<1>7. CASE UNCHANGED vars
  BY <1>1, <1>7 DEF vars, Held
<1> QED
  BY <1>5, <1>6, <1>7 DEF Next

\* A path's outcome has the answer of the serial path and, when that is Ok,
\* leaves the same container.
Agrees(s, o) ==
  /\ o.result = Generic(s, Missing(s)).result
  /\ o.result = "Ok" => o = Generic(s, Missing(s))

\* On any container of options every path agrees with the serial one.
LEMMA PathsAgreeOnContainers ==
  ASSUME kind = "option", NEW s, IsContainer(s)
  PROVE  /\ Agrees(s, OptionVecPar(s, Missing(s))) /\ Agrees(s, Some(s, Shards))
         /\ PlanError(s) = "Ok" => Agrees(s, Execute(s, Planned(s)))
<1> DEFINE serial == Generic(s, Missing(s))
<1>1. /\ Refused(s, Missing(s)) = {} /\ Shards \cap Missing(s) = Missing(s)
      /\ ~(Shards \subseteq DataIndices)
  <2>1. DataShards \in Shards /\ DataShards \notin DataIndices
    BY CodecAssumption DEF Shards, DataIndices
  <2>2. "option" # "slot"
    OBVIOUS
  <2> QED
    BY <2>1, <2>2 DEF Refused, Missing
<1>2. CASE Scan(s) # "Go"
  <2>1. /\ serial = Early(s) /\ OptionVecPar(s, Missing(s)) = Early(s)
        /\ Some(s, Shards) = Early(s)
    BY <1>2 DEF Generic, OptionVecPar, Some
  <2>2. PlanError(s) = "Ok" => Execute(s, Planned(s)) = Early(s)
    <3> SUFFICES ASSUME PlanError(s) = "Ok"
                 PROVE  Execute(s, Planned(s)) = Early(s)
      OBVIOUS
    <3>1. Scan(s) = "AllPresent"
      BY <1>2, ScanAnswers DEF PlanError
    <3>2. Planned(s).len = 0
      BY <3>1 DEF Planned
    <3> QED
      BY <3>1, <3>2 DEF Execute, Early
  <2> QED
    BY <2>1, <2>2 DEF Agrees
<1>3. CASE Scan(s) = "Go" /\ ~Invertible(s)
  <2>1. /\ serial.result = "InvalidCustomMatrix"
        /\ OptionVecPar(s, Missing(s)).result = "InvalidCustomMatrix"
        /\ Some(s, Shards).result = "InvalidCustomMatrix"
    BY <1>1, <1>3 DEF Generic, OptionVecPar, Some, Outcome
  <2>2. PlanError(s) # "Ok"
    BY <1>3 DEF PlanError
  <2> QED
    BY <2>1, <2>2 DEF Agrees
<1>4. CASE Scan(s) = "Go" /\ Invertible(s)
  <2> DEFINE answer == Outcome(Write(s, Missing(s)), "Ok")
  <2>1. /\ serial = answer /\ OptionVecPar(s, Missing(s)) = answer
        /\ Some(s, Shards) = answer
    BY <1>1, <1>4 DEF Generic, OptionVecPar, Some
  <2>2. Execute(s, Planned(s)) = answer
    <3>1. Planned(s) = [len |-> SharedLen(s), valid |-> Rows(s), invalid |-> Missing(s)]
      BY <1>4 DEF Planned
    <3>2. SharedLen(s) # 0 /\ Misshapen(s) = {}
      BY <1>4, GoLength DEF Scan
    <3> QED
      BY <3>1, <3>2 DEF Execute, Write
  <2> HIDE DEF answer
  <2> QED
    BY <2>1, <2>2 DEF Agrees
<1> QED
  BY <1>2, <1>3, <1>4

\* Under a mask, an outcome has the answer of the serial path, or is Ok because
\* nothing was required of a matrix that does not exist; when it is Ok, it has
\* the serial path's shards where they were required and the old ones elsewhere.
AgreesOn(s, required, o) ==
  /\ \/ o.result = Generic(s, Missing(s)).result
     \/ /\ required \cap Missing(s) = {}
        /\ o.result = "Ok" /\ Generic(s, Missing(s)).result = "InvalidCustomMatrix"
  /\ o.result = "Ok" => \A i \in Shards :
       o.slots[i] = IF i \in required THEN Generic(s, Missing(s)).slots[i] ELSE s[i]

\* On any container of options every path agrees with the serial one under
\* every mask.
LEMMA PartialPathsAgree ==
  ASSUME kind = "option", NEW s, IsContainer(s), NEW required \in SUBSET Shards
  PROVE  \A o \in PartialPaths(s, required) : AgreesOn(s, required, o)
<1> DEFINE targets == required \cap Missing(s)
           serial == Generic(s, Missing(s))
<1> SUFFICES ASSUME NEW o, \/ o = Some(s, required)
                           \/ o = OptionVecPar(s, targets)
                           \/ o = Generic(s, targets)
             PROVE  AgreesOn(s, required, o)
  BY DEF PartialPaths, SomeOptData
<1>1. Refused(s, Missing(s)) = {} /\ Refused(s, targets) = {}
  <2>1. "option" # "slot"
    OBVIOUS
  <2> QED
    BY <2>1 DEF Refused
<1>2. CASE Scan(s) # "Go"
  <2>1. serial = Early(s) /\ o = Early(s)
    BY <1>2 DEF Generic, OptionVecPar, Some
  <2>2. Early(s).slots = s
    BY DEF Early, Outcome
  <2> QED
    BY <2>1, <2>2 DEF AgreesOn
<1>3. CASE Scan(s) = "Go" /\ ~Invertible(s)
  <2>1. serial = Outcome(MarkPresent(s, Missing(s)), "InvalidCustomMatrix")
    BY <1>1, <1>3 DEF Generic
  <2>2. serial.result = "InvalidCustomMatrix" /\ serial.slots = MarkPresent(s, Missing(s))
    BY <2>1 DEF Outcome
  <2>3. o.result = "InvalidCustomMatrix" \/ (targets = {} /\ o = Outcome(s, "Ok"))
    BY <1>1, <1>3 DEF Generic, OptionVecPar, Some, Outcome
  <2>4. CASE o.result = "InvalidCustomMatrix"
    <3>1. "InvalidCustomMatrix" # "Ok"
      OBVIOUS
    <3> QED
      BY <2>2, <2>4, <3>1 DEF AgreesOn
  <2>5. CASE targets = {} /\ o = Outcome(s, "Ok")
    <3>1. o.result = "Ok" /\ o.slots = s
      BY <2>5 DEF Outcome
    <3>2. \A i \in required : i \notin Missing(s) /\ serial.slots[i] = s[i]
      BY <2>2, <2>5 DEF MarkPresent
    <3> QED
      BY <2>2, <2>5, <3>1, <3>2 DEF AgreesOn
  <2> QED
    BY <2>3, <2>4, <2>5
<1>4. CASE Scan(s) = "Go" /\ Invertible(s)
  <2>1. serial = Outcome(Write(s, Missing(s)), "Ok")
    BY <1>1, <1>4 DEF Generic
  <2>2. serial.result = "Ok" /\ serial.slots = Write(s, Missing(s))
    BY <2>1 DEF Outcome
  <2>3. o = Outcome(Write(s, targets), "Ok") \/ (targets = {} /\ o = Outcome(s, "Ok"))
    BY <1>1, <1>4 DEF Generic, OptionVecPar, Some
  <2>4. o.result = "Ok" /\ (o.slots = Write(s, targets) \/ (targets = {} /\ o.slots = s))
    BY <2>3 DEF Outcome
  <2>5. ASSUME NEW i \in Shards
        PROVE  o.slots[i] = IF i \in required THEN serial.slots[i] ELSE s[i]
    BY <2>2, <2>4 DEF Write, Decode
  <2> QED
    BY <2>2, <2>4, <2>5 DEF AgreesOn
<1> QED
  BY <1>2, <1>3, <1>4

\* PathsAgree: whatever came before, parallel or serial, all at once or as
\* reconstruct_some of everything, or through a workspace planned now, the
\* reconstruct calls of an option container answer the same, and those of a mask
\* answer so for the shards that it names.
THEOREM PathsGiveOneAnswer == Spec => []PathsAgree
<1>1. Init => Held
  <2>1. [present |-> TRUE, len |-> Full, good |-> TRUE] \in Slot
    BY DEF Slot, Lengths
  <2> QED
    BY <2>1 DEF Init, Held, IsContainer, IsPlan, NoPlan
<1>2. Held => PathsAgree
  <2> SUFFICES ASSUME Held, kind = "option", Settled
               PROVE  PathsAgree
    BY DEF PathsAgree
  <2>1. IsContainer(slots)
    BY DEF Held
  <2>2. /\ Agrees(slots, OptionVecPar(slots, Missing(slots)))
        /\ Agrees(slots, Some(slots, Shards))
        /\ PlanError(slots) = "Ok" => Agrees(slots, Execute(slots, Planned(slots)))
    BY <2>1, PathsAgreeOnContainers
  <2>3. \A required \in SUBSET Shards : \A o \in PartialPaths(slots, required) :
          AgreesOn(slots, required, o)
    BY <2>1, PartialPathsAgree
  <2> QED
    BY <2>2, <2>3 DEF PathsAgree, Agrees, AgreesOn
<1> QED
  BY <1>1, <1>2, HeldKept, PTL DEF Spec

=============================================================================
