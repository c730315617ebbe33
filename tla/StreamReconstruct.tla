-------------------------- MODULE StreamReconstruct --------------------------
(***************************************************************************)
(* reconstruct_stream, block by block, between a caller's losses, repairs   *)
(* and retries.                                                             *)
(*                                                                          *)
(* A shard is a Cursor<Vec<u8>>: its contents, empty for a missing one. A    *)
(* byte of the codeword's shards is its position, from 1; 0 is a byte that   *)
(* is none of theirs. Reading a cursor cannot fail and every present shard   *)
(* of a block is read equally far, so one position serves them all and      *)
(* serial and parallel reads do not differ.                                 *)
(***************************************************************************)
EXTENDS Codec, Sequences, FiniteSetsExt

CONSTANTS
  Full,        \* the length of the codeword's shards
  BlockSizes   \* the clamped block sizes considered

ASSUME StreamAssumption ==
  /\ Full \in Nat \ {0}
  /\ BlockSizes \subseteq Nat \ {0}

VARIABLES
  cursor,     \* the contents of each shard's cursor
  phase,      \* "idle", or "loop" inside a call
  present,    \* the shards that were not empty when the call began
  pos,        \* how far the present cursors have been read
  blockSize,  \* the call's block size
  result,     \* what the last call returned; "none" once the caller goes on
  before      \* history: the contents that the last call found

vars == <<cursor, phase, present, pos, blockSize, result, before>>

Codeword == [k \in 1 .. Full |-> k]
Bytes == 0 .. Full

Missing == Shards \ present

----------------------------------------------------------------------------
(* The caller between calls.                                                 *)

\* Nothing is left of a call that the caller has gone on from.
Forgotten ==
  /\ result' = "none"
  /\ present' = {}
  /\ pos' = 0
  /\ before' = [i \in Shards |-> <<>>]

Edit(i, contents) ==
  /\ phase = "idle"
  /\ cursor' = [cursor EXCEPT ![i] = contents]
  /\ Forgotten
  /\ UNCHANGED <<phase, blockSize>>

\* Shard i is lost, or what a failed call left in its cursor is thrown away.
Lose(i) == Edit(i, <<>>)

\* Shard i is cut short.
Cut(i, n) == n < Len(cursor[i]) /\ Edit(i, SubSeq(cursor[i], 1, n))

\* Shard i is fetched again.
Fetch(i) == Edit(i, Codeword)

----------------------------------------------------------------------------
(* The call.                                                                 *)

Return(answer) ==
  /\ phase' = "idle"
  /\ result' = answer

\* The checks before the loop; every present cursor is rewound.
Begin(size) ==
  /\ phase = "idle"
  /\ before' = cursor
  /\ blockSize' = size
  /\ pos' = 0
  /\ present' = {i \in Shards : cursor[i] # <<>>}
  /\ CASE present' = {} -> Return("Ok")
       [] present' # {} /\ Cardinality(Shards \ present') > ParityShards ->
            Return("TooFewShardsPresent")
       [] OTHER -> phase' = "loop" /\ result' = "none"
  /\ UNCHANGED cursor

\* The bytes a present shard still has for the block.
Taken(i) == Min({blockSize, Len(cursor[i]) - pos})

\* The length of the block: the longest read.
ActualLen == Max({Taken(i) : i \in present})

\* Bug: a shard that ends early is padded, not refused.
UnevenPadded == {}

\* The present shards that end inside the block while another one does not.
Uneven == {i \in present : Taken(i) # ActualLen}

\* The byte recovered from the bytes that the decoding rows have at offset k.
RecoveredByte(k) ==
  LET column == {IF k <= Len(cursor[j]) THEN cursor[j][k] ELSE 0 :
                   j \in FirstPresent(present)}
  IN IF Cardinality(column) = 1 THEN CHOOSE byte \in column : TRUE ELSE 0

\* A missing shard's bytes of the block.
Recovered == [o \in 1 .. ActualLen |-> RecoveredByte(pos + o)]

\* Bug: the end is noticed by a short block only.
ReturnOkShort ==
  /\ phase = "loop" /\ ActualLen = 0 /\ pos % blockSize # 0
  /\ Return("Ok")
  /\ UNCHANGED <<cursor, present, pos, blockSize, before>>

\* all_eof.
ReturnOk ==
  /\ phase = "loop" /\ ActualLen = 0
  /\ Return("Ok")
  /\ UNCHANGED <<cursor, present, pos, blockSize, before>>

ReturnUneven ==
  /\ phase = "loop" /\ ActualLen > 0 /\ Uneven # {}
  /\ Return("IncorrectShardSize")
  /\ UNCHANGED <<cursor, present, pos, blockSize, before>>

\* reconstruct of the block fails; nothing of it is written.
ReturnSingular ==
  /\ phase = "loop" /\ ActualLen > 0 /\ Uneven = {}
  /\ Missing # {} /\ FirstPresent(present) \in SingularRows
  /\ Return("InvalidCustomMatrix")
  /\ UNCHANGED <<cursor, present, pos, blockSize, before>>

\* Bug: the cursors that a recovery has made longer are counted as present.
RecoverBlockReclassified ==
  /\ phase = "loop" /\ ActualLen > 0 /\ Uneven = {}
  /\ Missing = {} \/ FirstPresent(present) \notin SingularRows
  /\ cursor' = [i \in Shards |-> IF i \in Missing THEN cursor[i] \o Recovered ELSE cursor[i]]
  /\ present' = Shards
  /\ pos' = pos + ActualLen
  /\ UNCHANGED <<phase, blockSize, result, before>>

\* Bug: every cursor is appended to.
RecoverBlockIntoAll ==
  /\ phase = "loop" /\ ActualLen > 0 /\ Uneven = {}
  /\ Missing = {} \/ FirstPresent(present) \notin SingularRows
  /\ cursor' = [i \in Shards |-> cursor[i] \o Recovered]
  /\ pos' = pos + ActualLen
  /\ UNCHANGED <<phase, present, blockSize, result, before>>

\* The block is read and reconstructed, and appended to the missing cursors.
RecoverBlock ==
  /\ phase = "loop" /\ ActualLen > 0 /\ Uneven = {}
  /\ Missing = {} \/ FirstPresent(present) \notin SingularRows
  /\ cursor' = [i \in Shards |-> IF i \in Missing THEN cursor[i] \o Recovered ELSE cursor[i]]
  /\ pos' = pos + ActualLen
  /\ UNCHANGED <<phase, present, blockSize, result, before>>

----------------------------------------------------------------------------

Init ==
  /\ cursor = [i \in Shards |-> Codeword]
  /\ phase = "idle"
  /\ present = {}
  /\ pos = 0
  /\ blockSize \in BlockSizes
  /\ result = "none"
  /\ before = [i \in Shards |-> <<>>]

CallNext == ReturnOk \/ ReturnUneven \/ ReturnSingular \/ RecoverBlock

Next ==
  \/ \E i \in Shards : Lose(i) \/ Fetch(i) \/ \E n \in 1 .. Full : Cut(i, n)
  \/ \E size \in BlockSizes : Begin(size)
  \/ CallNext

Spec == Init /\ [][Next]_vars

----------------------------------------------------------------------------
(* Properties.                                                               *)

\* Every variable keeps its type; no cursor outgrows the codeword's shards.
TypeOK ==
  /\ \A i \in Shards : cursor[i] \in Seq(Bytes) /\ Len(cursor[i]) <= Full
  /\ phase \in {"idle", "loop"}
  /\ present \in SUBSET Shards
  /\ pos \in 0 .. Full
  /\ blockSize \in BlockSizes
  /\ result \in {"none", "Ok", "TooFewShardsPresent", "IncorrectShardSize", "InvalidCustomMatrix"}
  /\ \A i \in Shards : before[i] \in Seq(Bytes)

\* Whatever was lost, cut, left behind by a failed call and retried, every
\* cursor holds the beginning of its shard: no padding zero and no byte at a
\* wrong offset gets into one.
ContentsAreCodeword ==
  \A i \in Shards : cursor[i] = SubSeq(Codeword, 1, Len(cursor[i]))

\* Ok means the stripe is whole: every shard has a cursor as long as every
\* other, also when the call is a retry over the prefix a failed call recovered.
OkIsWhole == result = "Ok" => \A i, j \in Shards : Len(cursor[i]) = Len(cursor[j])

\* Cutting the shards into blocks does not change the answer: Ok is returned
\* exactly when the whole shards, as the call found them, could be
\* reconstructed at once (or there is none).
Reconstructible(c) ==
  LET p == {i \in Shards : c[i] # <<>>} IN
  p = {} \/ /\ Cardinality(p) >= DataShards
            /\ \A i, j \in p : Len(c[i]) = Len(c[j])
            /\ p = Shards \/ FirstPresent(p) \notin SingularRows

BlocksDoNotMatter == result # "none" => (result = "Ok" <=> Reconstructible(before))

=============================================================================
