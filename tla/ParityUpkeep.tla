---------------------------- MODULE ParityUpkeep ----------------------------
(***************************************************************************)
(* Everything that writes or checks the parity of one stripe: encode, the   *)
(* one-shard-at-a-time encoders, update, the ShardByShard bookkeeper, verify *)
(* and its reusable workspace, called in any order by one caller.           *)
(*                                                                          *)
(* A data shard is one bit. A buffer is a sum over GF(2), the set of its    *)
(* terms: <<i, c>> stands for data shard i times coefficient c, where c is  *)
(* the shard's entry in the parity row ("row"), 1 ("one") or its weight in  *)
(* the Leopard transform ("fft"). The code treats all parity rows alike, so *)
(* one sum stands for every parity shard. Nothing is assumed of the         *)
(* coefficients: two sums are equal only if they are for all of them.       *)
(***************************************************************************)
EXTENDS Integers

CONSTANTS
  DataShards,   \* data_shard_count
  Codecs        \* the codecs considered: [family, xor], see below

CodecKinds == [family : {"Classic", "LeopardGF8"}, xor : BOOLEAN]

ASSUME UpkeepAssumption ==
  /\ DataShards \in Nat \ {0}
  /\ Codecs \subseteq CodecKinds

DataIndices == 0 .. DataShards - 1
Bits == {0, 1}
Stripes == [DataIndices -> Bits]

Junk == <<-1, "junk">>   \* whatever a buffer held before
Terms == (DataIndices \X {"row", "one", "fft"}) \cup {Junk}
Sums == SUBSET Terms

VARIABLES
  codec,      \* family: codec_family; xor: fast_one_parity_enabled()
  data,       \* the data shards
  parity,     \* the parity shards
  cur,        \* ShardByShard::cur_input
  workspace,  \* VerifyWorkspace: does its shape fit this codec, and contents
  last,       \* the last call and its result
  fed,        \* the data shards as the current batch was fed them
  batch,      \* has the batch alone written parity since its first shard?
  inSync      \* has parity followed data since an encode?

vars == <<codec, data, parity, cur, workspace, last, fed, batch, inSync>>

\* ghosts: what the caller knows, read by no action's guard.
ghosts == <<fed, batch, inSync>>

IsLeopard == codec.family = "LeopardGF8"

----------------------------------------------------------------------------
(* Sums.                                                                     *)

Plus(x, y) == (x \ y) \cup (y \ x)

\* A shard's bit times a coefficient.
Times(i, coefficient, bit) == IF bit = 1 THEN {<<i, coefficient>>} ELSE {}

\* Bug: the first input is added like the others.
AlwaysAdd(i, coefficient, bit, output) == Plus(output, Times(i, coefficient, bit))

\* code_single_slice_range and its parallel twin: input 0 overwrites the output
\* (mul_slice), the others are added to it (mul_slice_add).
CodeSingle(i, coefficient, bit, output) ==
  IF i = 0 THEN Times(i, coefficient, bit)
  ELSE Plus(output, Times(i, coefficient, bit))

\* The inputs one after the other into what the output held.
CodeAll(coefficient, stripe, output) ==
  LET after[n \in 0 .. DataShards] ==
        IF n = 0 THEN output
        ELSE CodeSingle(n - 1, coefficient, stripe[n - 1], after[n - 1])
  IN after[DataShards]

\* The coefficients encode and verify use.
EncodeCoefficient ==
  IF IsLeopard THEN "fft" ELSE IF codec.xor THEN "one" ELSE "row"

\* What encode_sep leaves in a buffer.
EncodeInto(stripe, output) == CodeAll(EncodeCoefficient, stripe, output)

\* The parity of a stripe, stated without the loop.
ParityOf(stripe, coefficient) ==
  {<<i, coefficient>> : i \in {j \in DataIndices : stripe[j] = 1}}

Consistent == parity = ParityOf(data, EncodeCoefficient)

----------------------------------------------------------------------------
(* Encoding.                                                                 *)

Reply(op, result) == last' = [op |-> op, result |-> result]

\* The call returns and changes nothing else. The error of a container of the
\* wrong count or lengths (check_piece_count, check_slices) stands for theirs.
Answer(op, error) ==
  /\ Reply(op, error)
  /\ UNCHANGED <<codec, data, parity, cur, workspace, ghosts>>

\* encode, encode_sep, encode_par, encode_opt.
Encode(shaped) ==
  \/ ~shaped /\ Answer("encode", "IncorrectShardSize")
  \/ /\ shaped
     /\ parity' = EncodeInto(data, parity)
     /\ Reply("encode", "Ok")
     /\ inSync' = TRUE /\ batch' = FALSE
     /\ UNCHANGED <<codec, data, cur, workspace, fed>>

\* The write of encode_single: always the parity row's coefficient.
AddShard(op, i) ==
  /\ parity' = CodeSingle(i, "row", data[i], parity)
  /\ Reply(op, "Ok")

\* encode_single, encode_single_sep, encode_single_sep_par and _sep_opt.
EncodeSingle(i, shaped) ==
  \/ IsLeopard /\ Answer("encode_single", "UnsupportedCodecFamily")
  \/ ~IsLeopard /\ ~shaped /\ Answer("encode_single", "IncorrectShardSize")
  \/ /\ ~IsLeopard /\ shaped
     /\ AddShard("encode_single", i)
     /\ inSync' = FALSE /\ batch' = FALSE
     /\ UNCHANGED <<codec, data, cur, workspace, fed>>

\* encode_single_opt: no check of the family.
EncodeSingleOpt(i, shaped) ==
  \/ ~shaped /\ Answer("encode_single_opt", "IncorrectShardSize")
  \/ /\ shaped
     /\ AddShard("encode_single_opt", i)
     /\ inSync' = FALSE /\ batch' = FALSE
     /\ UNCHANGED <<codec, data, cur, workspace, fed>>

\* The change of parity for the shards that change, one delta at a time: the
\* delta of a bit is old + new, and every one is added (mul_slice_add).
DeltaSum(changed, coefficient) ==
  LET after[n \in 0 .. DataShards] ==
        IF n = 0 THEN {}
        ELSE IF n - 1 \in changed
        THEN Plus(after[n - 1], Times(n - 1, coefficient, 1))
        ELSE after[n - 1]
  IN after[DataShards]

\* Bug: the delta of shard 0 overwrites parity as its encoding does.
UpdateOverwrites(new, shaped) ==
  \/ IsLeopard /\ Answer("update", "UnsupportedCodecFamily")
  \/ ~IsLeopard /\ ~shaped /\ Answer("update", "IncorrectShardSize")
  \/ /\ ~IsLeopard /\ shaped
     /\ LET changed == {i \in DataIndices : new[i] # data[i]} IN
        parity' = IF 0 \in changed THEN DeltaSum(changed, EncodeCoefficient)
                  ELSE Plus(parity, DeltaSum(changed, EncodeCoefficient))
     /\ data' = new
     /\ Reply("update", "Ok")
     /\ batch' = FALSE
     /\ UNCHANGED <<codec, cur, workspace, fed, inSync>>

\* update(old_data, new_data, parity), given the stripe's own data as old; the
\* caller then puts the new shards in place. A shard given as Some(unchanged)
\* has a zero delta, like None.
Update(new, shaped) ==
  \/ IsLeopard /\ Answer("update", "UnsupportedCodecFamily")
  \/ ~IsLeopard /\ ~shaped /\ Answer("update", "IncorrectShardSize")
  \/ /\ ~IsLeopard /\ shaped
     /\ parity' = Plus(parity, DeltaSum({i \in DataIndices : new[i] # data[i]},
                                        EncodeCoefficient))
     /\ data' = new
     /\ Reply("update", "Ok")
     /\ batch' = FALSE
     /\ UNCHANGED <<codec, cur, workspace, fed, inSync>>

----------------------------------------------------------------------------
(* ShardByShard.                                                             *)

ParityReady == cur = DataShards

\* Bug: the call after the last one is not refused but starts over at shard 0.
SbsUnchecked(shaped) ==
  \/ ~shaped /\ Answer("sbs_encode", "IncorrectShardSize")
  \/ shaped /\ IsLeopard /\ Answer("sbs_encode", "UnsupportedCodecFamily")
  \/ /\ shaped /\ ~IsLeopard
     /\ AddShard("sbs_encode", cur % DataShards)
     /\ cur' = cur + 1
     /\ fed' = [fed EXCEPT ![cur % DataShards] = data[cur % DataShards]]
     /\ batch' = (cur = 0 \/ batch)
     /\ inSync' = FALSE
     /\ cur <= DataShards
     /\ UNCHANGED <<codec, data, workspace>>

\* encode and encode_sep: the checks, encode_single of the next shard, and
\* cur_input moves on only if it succeeded.
SbsEncode(shaped) ==
  \/ ParityReady /\ Answer("sbs_encode", "TooManyCalls")
  \/ ~ParityReady /\ ~shaped /\ Answer("sbs_encode", "IncorrectShardSize")
  \/ ~ParityReady /\ shaped /\ IsLeopard /\ Answer("sbs_encode", "UnsupportedCodecFamily")
  \/ /\ ~ParityReady /\ shaped /\ ~IsLeopard
     /\ AddShard("sbs_encode", cur)
     /\ cur' = cur + 1
     /\ fed' = [fed EXCEPT ![cur] = data[cur]]
     /\ batch' = (cur = 0 \/ batch)
     /\ inSync' = (cur + 1 = DataShards /\ batch' /\ fed' = data /\ ~codec.xor)
     /\ UNCHANGED <<codec, data, workspace>>

\* reset.
SbsReset ==
  \/ cur > 0 /\ ~ParityReady /\ Answer("reset", "LeftoverShards")
  \/ /\ cur = 0 \/ ParityReady
     /\ cur' = 0
     /\ Reply("reset", "Ok")
     /\ UNCHANGED <<codec, data, parity, workspace, ghosts>>

\* reset_force.
SbsResetForce ==
  /\ cur' = 0
  /\ Reply("reset", "Ok")
  /\ UNCHANGED <<codec, data, parity, workspace, ghosts>>

----------------------------------------------------------------------------
(* Verifying.                                                                *)

Truth(computed) == IF computed = parity THEN "true" ELSE "false"

\* verify, verify_par: into a zeroed buffer.
Verify(shaped) ==
  \/ ~shaped /\ Answer("verify", "IncorrectShardSize")
  \/ shaped /\ Answer("verify", Truth(EncodeInto(data, {})))

\* Bug: a workspace that does not fit is used as it is.
VerifyUnprepared(shaped) ==
  \/ ~shaped /\ Answer("verify", "IncorrectShardSize")
  \/ shaped /\ ~workspace.fits /\ Answer("verify", "TooFewBufferShards")
  \/ /\ shaped /\ workspace.fits
     /\ workspace' = [fits |-> TRUE, sum |-> EncodeInto(data, workspace.sum)]
     /\ Reply("verify", Truth(workspace'.sum))
     /\ UNCHANGED <<codec, data, parity, cur, ghosts>>

\* verify_with_workspace: prepare gives the workspace this codec's shape,
\* keeping old bytes where there are any, and the parity is computed over them.
VerifyWithWorkspace(shaped) ==
  \/ ~shaped /\ Answer("verify", "IncorrectShardSize")
  \/ /\ shaped
     /\ workspace' = [fits |-> TRUE, sum |-> EncodeInto(data, workspace.sum)]
     /\ Reply("verify", Truth(workspace'.sum))
     /\ UNCHANGED <<codec, data, parity, cur, ghosts>>

\* verify_with_workspace_opt resizes before anything is checked: shards that are
\* then refused may leave the workspace with a shape of their own.
VerifyWithWorkspaceOpt(shaped) ==
  \/ shaped /\ VerifyWithWorkspace(shaped)
  \/ /\ ~shaped
     /\ workspace' \in {workspace, [fits |-> FALSE, sum |-> {Junk}]}
     /\ Reply("verify", "IncorrectShardSize")
     /\ UNCHANGED <<codec, data, parity, cur, ghosts>>

\* The workspace serves another codec, or another shard length, in between.
WorkspaceUsedElsewhere ==
  /\ workspace' = [fits |-> FALSE, sum |-> {Junk}]
  /\ last' = [op |-> "none", result |-> "none"]
  /\ UNCHANGED <<codec, data, parity, cur, ghosts>>

----------------------------------------------------------------------------
(* The caller writes the shards itself.                                      *)

WriteData(i) ==
  /\ data' = [data EXCEPT ![i] = 1 - @]
  /\ inSync' = FALSE
  /\ last' = [op |-> "none", result |-> "none"]
  /\ UNCHANGED <<codec, parity, cur, workspace, fed, batch>>

ScratchParity ==
  /\ parity' = {Junk}
  /\ inSync' = FALSE /\ batch' = FALSE
  /\ last' = [op |-> "none", result |-> "none"]
  /\ UNCHANGED <<codec, data, cur, workspace, fed>>

Init ==
  /\ codec \in Codecs
  /\ data \in Stripes
  /\ parity = {Junk}
  /\ cur = 0
  /\ workspace = [fits |-> TRUE, sum |-> {}]
  /\ last = [op |-> "none", result |-> "none"]
  /\ fed = [i \in DataIndices |-> 0]
  /\ batch = FALSE
  /\ inSync = FALSE

Next ==
  \/ \E shaped \in BOOLEAN :
       \/ Encode(shaped) \/ SbsEncode(shaped) \/ Verify(shaped)
       \/ VerifyWithWorkspace(shaped) \/ VerifyWithWorkspaceOpt(shaped)
       \/ \E i \in DataIndices : EncodeSingle(i, shaped) \/ EncodeSingleOpt(i, shaped)
       \/ \E new \in Stripes : Update(new, shaped)
  \/ SbsReset \/ SbsResetForce \/ WorkspaceUsedElsewhere \/ ScratchParity
  \/ \E i \in DataIndices : WriteData(i)

Spec == Init /\ [][Next]_vars

----------------------------------------------------------------------------
(* Properties.                                                               *)

Replies ==
  [op : {"none", "encode", "encode_single", "encode_single_opt", "update",
         "sbs_encode", "reset", "verify"},
   result : {"none", "Ok", "true", "false", "IncorrectShardSize",
             "UnsupportedCodecFamily", "TooManyCalls", "LeftoverShards"}]

\* Every variable keeps its type; cur_input never passes the last data shard.
TypeOK ==
  /\ codec \in Codecs
  /\ data \in Stripes /\ fed \in Stripes
  /\ parity \in Sums
  /\ cur \in 0 .. DataShards
  /\ workspace \in [fits : BOOLEAN, sum : Sums]
  /\ last \in Replies
  /\ batch \in BOOLEAN /\ inSync \in BOOLEAN

\* After an encode, or a batch fed with the data as it now is, any number of
\* updates given the true old data keeps parity that of the data, whatever is
\* refused, verified or reset in between.
InSyncIsConsistent == inSync => Consistent

\* When the bookkeeper says the parity is ready and nothing else wrote it since
\* the batch's first shard, it is the parity of the shards as they were fed:
\* what an abandoned batch, a refused call or the parity buffer's old contents
\* left behind is gone. (A fast_one_parity codec: see SbsVerifies.)
SbsParityIsOfBatch ==
  ParityReady /\ batch => parity = ParityOf(fed, "row")

\* verify of well-shaped shards says whether parity is that of the data, also
\* with a workspace that has served another codec or holds old sums.
VerifyTellsTheTruth ==
  last.op = "verify" /\ last.result # "IncorrectShardSize" =>
    last.result = IF Consistent THEN "true" ELSE "false"

\* The documented use of ShardByShard: feed every data shard once, then verify.
\* False for a fast_one_parity codec: encode_single multiplies by the parity
\* row while verify adds the shards up.
SbsVerifies == ParityReady /\ batch /\ fed = data => Consistent

=============================================================================
