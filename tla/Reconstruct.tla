----------------------------- MODULE Reconstruct -----------------------------
(***************************************************************************)
(* The Classic reconstruct calls on one container of shards, and the caller *)
(* who loses shards, supplies buffers and calls again after an error.       *)
(*                                                                          *)
(* A container holds Option<Vec> shards ("option": a missing shard has no   *)
(* buffer) or ShardSlot / (T, bool) shards ("slot": a missing shard keeps a *)
(* buffer of its caller's length and contents). Its size is always          *)
(* total_shard_count and a mask has one flag per shard: check_piece_count   *)
(* and the mask's length check pass. Contents are abstracted to whether     *)
(* they are the codeword's: a prefix of a codeword is one, and what is      *)
(* computed from the codeword's shards is the codeword's.                   *)
(***************************************************************************)
EXTENDS Codec, FiniteSetsExt

CONSTANTS
  Full,     \* the length of the codeword's shards
  Short,    \* another length, smaller and not 0
  Careful   \* does the caller undo the presence marks of a failed call?

ASSUME ReconstructAssumption ==
  /\ Full \in Nat \ {0} /\ Short \in 1 .. Full - 1
  /\ Careful \in BOOLEAN

VARIABLES
  kind,     \* the container's kind of shard
  slots,    \* shard -> [present, len, good]
  plan,     \* OptionVecReconstructWorkspace, or NoPlan
  last,     \* the last call: what it promised to recover and its result
  missing   \* shards missing when the last call began; {} once it is settled

vars == <<kind, slots, plan, last, missing>>

Lengths == {0, Short, Full}
Slot == [present : BOOLEAN, len : Lengths, good : BOOLEAN]

Present(s) == {i \in Shards : s[i].present}
Missing(s) == Shards \ Present(s)

Outcome(s, result) == [slots |-> s, result |-> result]

NoCall == [target |-> {}, result |-> "none"]
NoPlan == [len |-> -1, valid |-> {}, invalid |-> {}]

----------------------------------------------------------------------------
(* What every call checks first.                                            *)

\* The present shards that are empty or disagree with an earlier one.
Misshapen(s) ==
  {i \in Present(s) :
     s[i].len = 0 \/ \E j \in Present(s) : j < i /\ s[j].len # s[i].len}

\* The scan stops at the first misshapen shard. "Go": there is work to do.
Scan(s) ==
  IF Misshapen(s) # {}
  THEN IF s[Min(Misshapen(s))].len = 0 THEN "EmptyShard" ELSE "IncorrectShardSize"
  ELSE IF Present(s) = Shards THEN "AllPresent"
  ELSE IF Cardinality(Present(s)) < DataShards THEN "TooFewShardsPresent"
  ELSE "Go"

\* shard_len: the length the present shards share.
SharedLen(s) == CHOOSE len \in Lengths : \E i \in Present(s) : s[i].len = len

\* What a call returns when the scan leaves it nothing to do.
Early(s) == Outcome(s, IF Scan(s) = "AllPresent" THEN "Ok" ELSE Scan(s))

\* The rows the decode matrix inverts, and whether it exists.
Rows(s) == FirstPresent(Present(s))
Invertible(s) == Rows(s) \notin SingularRows

----------------------------------------------------------------------------
(* Writing the missing shards.                                               *)

\* Bug: an option's buffer is rounded up to an alignment.
AlignedInitialised(s, i) ==
  IF kind = "slot" THEN [s[i] EXCEPT !.present = TRUE]
  ELSE [present |-> TRUE, len |-> SharedLen(s) + Full, good |-> FALSE]

\* get_or_initialize on a missing shard, when it succeeds: a slot becomes
\* present with the contents of its buffer, an option a vector of zeros.
Initialised(s, i) ==
  IF kind = "slot" THEN [s[i] EXCEPT !.present = TRUE]
  ELSE [present |-> TRUE, len |-> SharedLen(s), good |-> FALSE]

\* The missing shards whose buffer get_or_initialize refuses.
Refused(s, targets) ==
  {i \in targets : kind = "slot" /\ s[i].len # SharedLen(s)}

\* The targets reached before the first refused one.
Reached(s, targets) ==
  {i \in targets : \A j \in Refused(s, targets) : i < j}

MarkPresent(s, targets) ==
  [i \in Shards |-> IF i \in targets THEN Initialised(s, i) ELSE s[i]]

\* The targets written with len elements of what the decode matrix of these
\* rows, and for parity the parity rows, yield from the shards in the rows.
Decode(s, rows, len, targets) ==
  [i \in Shards |->
     IF i \in targets
     THEN [present |-> TRUE, len |-> len,
           good |-> \A j \in rows : s[j].present /\ s[j].good]
     ELSE s[i]]

Write(s, targets) == Decode(s, Rows(s), SharedLen(s), targets)

----------------------------------------------------------------------------
(* The call paths, each from the container to the container and a result.    *)

\* Bug: a refused shard is skipped, not reported.
GenericSkipsRefused(s, targets) ==
  IF Scan(s) # "Go" THEN Early(s)
  ELSE IF ~Invertible(s)
  THEN Outcome(MarkPresent(s, targets \ Refused(s, targets)), "InvalidCustomMatrix")
  ELSE Outcome(Write(s, targets \ Refused(s, targets)), "Ok")

\* reconstruct_internal: the targets are initialised in index order before the
\* decode matrix is asked for and before anything is computed.
Generic(s, targets) ==
  IF Scan(s) # "Go" THEN Early(s)
  ELSE IF Refused(s, targets) # {}
  THEN Outcome(MarkPresent(s, Reached(s, targets)), "IncorrectShardSize")
  ELSE IF ~Invertible(s)
  THEN Outcome(MarkPresent(s, targets), "InvalidCustomMatrix")
  ELSE Outcome(Write(s, targets), "Ok")

\* reconstruct_internal_option_vec_par: the shards are replaced after their
\* recovery.
OptionVecPar(s, targets) ==
  IF Scan(s) # "Go" THEN Early(s)
  ELSE IF ~Invertible(s) THEN Outcome(s, "InvalidCustomMatrix")
  ELSE Outcome(Write(s, targets), "Ok")

\* Bug: the copy is written back whole once a parity shard is required.
SomeCopiesAll(s, required) ==
  LET targets == IF required \subseteq DataIndices
                 THEN required \cap Missing(s) ELSE Missing(s) IN
  IF Scan(s) # "Go" THEN Early(s)
  ELSE IF targets = {} THEN Outcome(s, "Ok")
  ELSE IF ~Invertible(s) THEN Outcome(s, "InvalidCustomMatrix")
  ELSE IF Refused(s, targets) # {}
  THEN Outcome(Write(s, Reached(s, targets)), "IncorrectShardSize")
  ELSE Outcome(Write(s, targets), "Ok")

\* reconstruct_some. Only data shards required: the matrix is found first,
\* then the required shards are initialised in place and computed. Otherwise
\* the container is copied, all of the copy is recovered, and the required
\* shards are initialised and copied back one by one.
Some(s, required) ==
  LET targets == required \cap Missing(s) IN
  IF Scan(s) # "Go" THEN Early(s)
  ELSE IF required \subseteq DataIndices /\ targets = {} THEN Outcome(s, "Ok")
  ELSE IF ~Invertible(s) THEN Outcome(s, "InvalidCustomMatrix")
  ELSE IF Refused(s, targets) = {} THEN Outcome(Write(s, targets), "Ok")
  ELSE IF required \subseteq DataIndices
  THEN Outcome(MarkPresent(s, Reached(s, targets)), "IncorrectShardSize")
  ELSE Outcome(Write(s, Reached(s, targets)), "IncorrectShardSize")

\* Bug: with nothing required missing it returns before the container is scanned.
SomeOptDataUnscanned(s, required) ==
  IF required \cap Missing(s) = {} THEN Outcome(s, "Ok")
  ELSE OptionVecPar(s, required \cap Missing(s))

\* reconstruct_some_opt with only data shards required: plan, then execute. The
\* matrix is found even when no required shard is missing.
SomeOptData(s, required) == OptionVecPar(s, required \cap Missing(s))

\* plan_option_vec_reconstruct.
Planned(s) ==
  IF Scan(s) = "AllPresent" THEN [len |-> 0, valid |-> {}, invalid |-> {}]
  ELSE [len |-> SharedLen(s), valid |-> Rows(s), invalid |-> Missing(s)]

PlanError(s) ==
  IF Scan(s) \notin {"Go", "AllPresent"} THEN Scan(s)
  ELSE IF Scan(s) = "Go" /\ ~Invertible(s) THEN "InvalidCustomMatrix"
  ELSE "Ok"

\* Bug: the workspace's pattern is not compared with the container's.
UncheckedExecute(s, p) ==
  IF p.len = 0 THEN Outcome(s, "Ok")
  ELSE IF Misshapen(s) # {} THEN Early(s)
  ELSE Outcome(Decode(s, p.valid, p.len, p.invalid), "Ok")

\* reconstruct_opt_with_workspace. The number of present shards cannot differ
\* once the missing ones agree. A workspace planned from a complete container
\* has length 0 and recovers nothing, whatever is missing now.
Execute(s, p) ==
  IF p.len = 0 THEN Outcome(s, "Ok")
  ELSE IF Misshapen(s) # {} THEN Early(s)
  ELSE IF Missing(s) # p.invalid THEN Outcome(s, "InvalidShardFlags")
  ELSE IF SharedLen(s) # p.len THEN Outcome(s, "IncorrectShardSize")
  ELSE Outcome(Decode(s, p.valid, p.len, p.invalid), "Ok")

----------------------------------------------------------------------------
(* The caller between calls.                                                 *)

\* A careful caller undoes the marks of a failed call before anything else.
Settled == missing = {}

\* The caller changes shard i itself.
Edit(i, slot) ==
  /\ Settled
  /\ slots' = [slots EXCEPT ![i] = slot]
  /\ last' = NoCall
  /\ UNCHANGED <<kind, plan, missing>>

\* Shard i is lost: the option is taken, or the slot is marked missing and its
\* buffer has whatever length the caller gives it.
Lose(i, len) ==
  /\ kind = "option" => len = 0
  /\ Edit(i, [present |-> FALSE, len |-> len, good |-> FALSE])

\* Shard i is fetched again.
Provide(i) == Edit(i, [present |-> TRUE, len |-> Full, good |-> TRUE])

\* The caller cuts a present shard.
Truncate(i, len) ==
  /\ slots[i].present /\ len < slots[i].len
  /\ Edit(i, [slots[i] EXCEPT !.len = len])

\* mark_missing, or take, on every shard that was missing before the error.
Rollback ==
  /\ ~Settled
  /\ slots' = [i \in Shards |->
       IF i \in missing
       THEN [present |-> FALSE, good |-> FALSE,
             len |-> IF kind = "option" THEN 0 ELSE slots[i].len]
       ELSE slots[i]]
  /\ missing' = {}
  /\ last' = NoCall
  /\ UNCHANGED <<kind, plan>>

----------------------------------------------------------------------------
(* The calls. Each runs under an exclusive borrow of the container.          *)

\* A call with this outcome that promises these targets.
Call(outcome, target) ==
  /\ Settled
  /\ slots' = outcome.slots
  /\ last' = [target |-> target, result |-> outcome.result]
  /\ missing' = IF Careful /\ outcome.result # "Ok" THEN Missing(slots) ELSE {}
  /\ UNCHANGED <<kind, plan>>

\* reconstruct.
ReconstructAll == Call(Generic(slots, Missing(slots)), Shards)

\* reconstruct_data: a missing parity shard is neither initialised nor an error.
ReconstructData ==
  Call(Generic(slots, Missing(slots) \cap DataIndices), DataIndices)

\* reconstruct_some.
ReconstructSome(required) == Call(Some(slots, required), required)

\* reconstruct_opt: the parallel policy picks the path.
ReconstructOpt ==
  /\ kind = "option"
  /\ \/ Call(OptionVecPar(slots, Missing(slots)), Shards)
     \/ Call(Generic(slots, Missing(slots)), Shards)

\* reconstruct_data_opt.
ReconstructDataOpt ==
  /\ kind = "option"
  /\ LET targets == Missing(slots) \cap DataIndices IN
     \/ Call(OptionVecPar(slots, targets), DataIndices)
     \/ Call(Generic(slots, targets), DataIndices)

\* reconstruct_some_opt. With a parity shard required it is reconstruct_opt,
\* which recovers every missing shard.
ReconstructSomeOpt(required) ==
  IF required \subseteq DataIndices
  THEN kind = "option" /\ Call(SomeOptData(slots, required), required)
  ELSE ReconstructOpt

\* prepare_reconstruct_opt_workspace.
Prepare ==
  /\ kind = "option" /\ Settled
  /\ plan' = IF PlanError(slots) = "Ok" THEN Planned(slots) ELSE plan
  /\ last' = [target |-> {}, result |-> PlanError(slots)]
  /\ UNCHANGED <<kind, slots, missing>>

\* reconstruct_opt_with_workspace.
ReconstructWithWorkspace ==
  /\ kind = "option" /\ plan # NoPlan
  /\ Call(Execute(slots, plan), IF plan.len = 0 THEN {} ELSE plan.invalid)

----------------------------------------------------------------------------

Init ==
  /\ kind \in {"option", "slot"}
  /\ slots = [i \in Shards |-> [present |-> TRUE, len |-> Full, good |-> TRUE]]
  /\ plan = NoPlan
  /\ last = NoCall
  /\ missing = {}

CallerNext ==
  \/ \E i \in Shards, len \in Lengths : Lose(i, len) \/ Truncate(i, len)
  \/ \E i \in Shards : Provide(i)
  \/ Rollback

CallNext ==
  \/ ReconstructAll
  \/ ReconstructData
  \/ \E required \in SUBSET Shards :
       ReconstructSome(required) \/ ReconstructSomeOpt(required)
  \/ ReconstructOpt
  \/ ReconstructDataOpt
  \/ Prepare
  \/ ReconstructWithWorkspace

Next == CallerNext \/ CallNext

Spec == Init /\ [][Next]_vars

----------------------------------------------------------------------------
(* Properties.                                                               *)

Results ==
  {"none", "Ok", "EmptyShard", "IncorrectShardSize", "TooFewShardsPresent",
   "InvalidCustomMatrix", "InvalidShardFlags"}

\* Every variable keeps its type, and a missing option has no buffer.
TypeOK ==
  /\ kind \in {"option", "slot"}
  /\ slots \in [Shards -> Slot]
  /\ \A i \in Missing(slots) : kind = "option" => slots[i].len = 0
  /\ plan \in [len : Lengths \cup {-1}, valid : SUBSET Shards, invalid : SUBSET Shards]
  /\ last \in [target : SUBSET Shards, result : Results]
  /\ missing \in SUBSET Shards

\* Whatever sequence of losses, repairs, failed calls and their undoing came
\* before, every shard that counts as present holds the codeword: a call path
\* never leaves zeros, a stale buffer or a decoding from the wrong rows in a
\* shard that a later call would read as an input.
PresentAreCodeword == \A i \in Present(slots) \ missing : slots[i].good

\* A call that returns Ok has recovered every shard it promises (all of them,
\* the data shards, the required ones, those the workspace was planned for), and
\* each holds the codeword. For a caller who does not undo the marks of a
\* failed call it is false: reconstruct_internal marks a slot present before
\* the next slot's buffer is refused, and the retry takes it for an input.
OkMeansRecovered ==
  last.result = "Ok" =>
    \A i \in last.target : slots[i].present /\ slots[i].good

\* A call writes no shard that was present, and none outside what it promises:
\* reconstruct_data leaves the parity buffers alone and reconstruct_some the
\* shards not required, on its error paths too.
OnlyTargetsTouched ==
  [][last'.result # "none" =>
       \A i \in Shards :
         slots'[i] # slots[i] => i \in Missing(slots) \cap last'.target]_vars

(* The paths of the calls that recover the required shards only: those of    *)
(* reconstruct_some and reconstruct_some_opt, and the serial one of           *)
(* reconstruct_data.                                                         *)
PartialPaths(s, required) ==
  {Some(s, required)}
    \cup (IF required \subseteq DataIndices THEN {SomeOptData(s, required)} ELSE {})
    \cup (IF required = DataIndices THEN {Generic(s, required \cap Missing(s))} ELSE {})

\* On every container a caller can come to hold, the paths a call may take give
\* the same answer: the parallel path that of the serial one, reconstruct_some
\* of everything and a workspace planned now that of reconstruct; and when
\* they succeed they leave the same container. Under a mask, too, every path
\* answers as reconstruct does, but that one with nothing to recover may say Ok
\* where reconstruct finds no matrix; and when it succeeds it leaves the required
\* shards as reconstruct does and the others as they were.
PathsAgree ==
  kind = "option" /\ Settled =>
    LET serial == Generic(slots, Missing(slots))
        others == {OptionVecPar(slots, Missing(slots)), Some(slots, Shards)} \cup
                  (IF PlanError(slots) = "Ok" THEN {Execute(slots, Planned(slots))} ELSE {})
    IN /\ \A o \in others : o.result = serial.result /\ (o.result = "Ok" => o = serial)
       /\ \A required \in SUBSET Shards : \A o \in PartialPaths(slots, required) :
            /\ \/ o.result = serial.result
               \/ /\ required \cap Missing(slots) = {}
                  /\ o.result = "Ok" /\ serial.result = "InvalidCustomMatrix"
            /\ o.result = "Ok" => \A i \in Shards :
                 o.slots[i] = IF i \in required THEN serial.slots[i] ELSE slots[i]

=============================================================================
