---------------------------- MODULE StreamEncode ----------------------------
(***************************************************************************)
(* One call of encode_stream: blocks of every data stream are read, encoded  *)
(* and written to every parity stream, by one thread or by rayon's.         *)
(*                                                                          *)
(* A byte of a data stream is its position, from 1; 0 is a padding zero. The *)
(* bytes at one offset of all data shards form a column, and a parity byte   *)
(* is named by the column it is computed from. The streams are the caller's: *)
(* a reader ends or fails at a position of its own, a writer takes as many   *)
(* bytes as it has room for and fails (or returns 0) from then on, and both  *)
(* may take any part of what they are offered. An Interrupted call is        *)
(* repeated and changes nothing: it is a stuttering step.                    *)
(***************************************************************************)
EXTENDS Integers, Sequences, FiniteSetsExt

CONSTANTS
  DataShards,    \* data_shard_count
  ParityShards,  \* parity_shard_count
  BlockSize,     \* the clamped block size
  Lengths,       \* how long a data stream may be
  FailPoints,    \* where a reader may fail: after that many bytes, or NoFailure
  Rooms          \* how many bytes a parity stream may take

NoFailure == -1

ASSUME StreamAssumption ==
  /\ DataShards \in Nat \ {0} /\ ParityShards \in Nat \ {0}
  /\ BlockSize \in Nat \ {0}
  /\ Lengths \subseteq Nat /\ Rooms \subseteq Nat
  /\ FailPoints \subseteq Nat \cup {NoFailure}

Readers == 0 .. DataShards - 1
Writers == 0 .. ParityShards - 1
Offsets == 1 .. BlockSize

VARIABLES
  io,       \* the call's streams and its two I/O modes; never changes
  phase,    \* what the call is doing
  reader,   \* the reading task of each data stream
  pos,      \* bytes taken from each data stream
  got,      \* bytes of the current block in each buffer: total
  buf,      \* data_bufs
  block,    \* the columns encoded into parity_bufs
  writer,   \* the writing task of each parity stream
  sent,     \* bytes of the current block written: written
  out,      \* what each parity stream has received
  first,    \* first_error: the parity shard of the recorded error
  result    \* what the call returns

vars == <<io, phase, reader, pos, got, buf, block, writer, sent, out, first, result>>
readVars == <<reader, pos, got, buf>>
writeVars == <<writer, sent, out, first>>

NoError == -1
Pending == [kind |-> "none", shard |-> 0]
Ok == [kind |-> "ok", shard |-> 0]
Failed(kind, shard) == [kind |-> kind, shard |-> shard]

----------------------------------------------------------------------------
(* Tasks: one per stream, run in index order by the caller's thread, or in   *)
(* any order by rayon's. After a failure rayon may skip what has not begun.  *)

MayRun(task, i, parallel) ==
  /\ task[i] \in {"todo", "running"}
  /\ ~parallel => \A j \in DOMAIN task : j < i => task[j] = "done"

AllDone(task) == \A i \in DOMAIN task : task[i] = "done"
Failures(task) == {i \in DOMAIN task : task[i] = "failed"}
Joined(task) ==
  /\ \A i \in DOMAIN task : task[i] # "running"
  /\ AllDone(task) \/ Failures(task) # {}

----------------------------------------------------------------------------
(* Reading a block: read_block and read_block_par.                           *)

\* read_one_stream gets n more bytes.
ReadSome(i, n) ==
  /\ phase = "read" /\ MayRun(reader, i, io.parallelRead)
  /\ got[i] + n <= BlockSize
  /\ pos[i] + n <= io.len[i]
  /\ io.failAt[i] \notin pos[i] .. pos[i] + n - 1
  /\ buf' = [buf EXCEPT ![i] = [o \in Offsets |->
               IF o \in got[i] + 1 .. got[i] + n THEN pos[i] + o - got[i] ELSE buf[i][o]]]
  /\ got' = [got EXCEPT ![i] = @ + n]
  /\ pos' = [pos EXCEPT ![i] = @ + n]
  /\ reader' = [reader EXCEPT ![i] = IF got'[i] = BlockSize THEN "done" ELSE "running"]
  /\ UNCHANGED <<io, phase, block, writeVars, result>>

\* The stream is at its end.
ReadEnds(i) ==
  /\ phase = "read" /\ MayRun(reader, i, io.parallelRead)
  /\ pos[i] = io.len[i] /\ io.failAt[i] # pos[i]
  /\ reader' = [reader EXCEPT ![i] = "done"]
  /\ UNCHANGED <<io, phase, pos, got, buf, block, writeVars, result>>

ReadFails(i) ==
  /\ phase = "read" /\ MayRun(reader, i, io.parallelRead)
  /\ io.failAt[i] = pos[i]
  /\ reader' = [reader EXCEPT ![i] = "failed"]
  /\ UNCHANGED <<io, phase, pos, got, buf, block, writeVars, result>>

\* The block is as long as the longest read.
ActualLen == Max({got[i] : i \in Readers})

\* Bug: the tail of a short buffer keeps the last block's bytes.
Unpadded(i) == buf[i]

\* zero_pad_short_buffers.
Padded(i) ==
  [o \in Offsets |-> IF o \in got[i] + 1 .. ActualLen THEN 0 ELSE buf[i][o]]

\* One reader's error is returned: collect keeps any of them.
ReturnReadError ==
  /\ phase = "read" /\ Joined(reader)
  /\ \E i \in Failures(reader) : result' = Failed("read", i)
  /\ phase' = "returned"
  /\ UNCHANGED <<io, readVars, block, writeVars>>

\* Bug: one stream at its end is taken for the end of all.
ReturnOkEarly ==
  /\ phase = "read" /\ AllDone(reader) /\ \E i \in Readers : got[i] = 0
  /\ result' = Ok
  /\ phase' = "returned"
  /\ UNCHANGED <<io, readVars, block, writeVars>>

\* all_eof.
ReturnOk ==
  /\ phase = "read" /\ AllDone(reader) /\ ActualLen = 0
  /\ result' = Ok
  /\ phase' = "returned"
  /\ UNCHANGED <<io, readVars, block, writeVars>>

\* Bug: the end of all streams is not noticed.
EncodeBlockForever ==
  /\ phase = "read" /\ AllDone(reader)
  /\ buf' = [i \in Readers |-> Padded(i)]
  /\ block' = [o \in 1 .. ActualLen |-> [i \in Readers |-> buf'[i][o]]]
  /\ phase' = "write"
  /\ writer' = [p \in Writers |-> IF ActualLen = 0 THEN "done" ELSE "todo"]
  /\ sent' = [p \in Writers |-> 0]
  /\ UNCHANGED <<io, reader, pos, got, out, first, result>>

\* The buffers are padded and encode_sep_par computes the parity block; rows of
\* every parity shard come from the same columns.
EncodeBlock ==
  /\ phase = "read" /\ AllDone(reader) /\ ActualLen > 0
  /\ buf' = [i \in Readers |-> Padded(i)]
  /\ block' = [o \in 1 .. ActualLen |-> [i \in Readers |-> buf'[i][o]]]
  /\ phase' = "write"
  /\ writer' = [p \in Writers |-> "todo"]
  /\ sent' = [p \in Writers |-> 0]
  /\ UNCHANGED <<io, reader, pos, got, out, first, result>>

----------------------------------------------------------------------------
(* Writing a block: write_block and write_block_par.                         *)

\* Bug: after a partial write the block is written from its start again.
WriteFromStart(p, n) ==
  /\ phase = "write" /\ MayRun(writer, p, io.parallelWrite)
  /\ sent[p] + n <= Len(block)
  /\ Len(out[p]) + n <= io.room[p]
  /\ out' = [out EXCEPT ![p] = @ \o SubSeq(block, 1, n)]
  /\ sent' = [sent EXCEPT ![p] = @ + n]
  /\ writer' = [writer EXCEPT ![p] = IF sent'[p] = Len(block) THEN "done" ELSE "running"]
  /\ UNCHANGED <<io, phase, readVars, block, first, result>>

\* The stream takes n more bytes.
WriteSome(p, n) ==
  /\ phase = "write" /\ MayRun(writer, p, io.parallelWrite)
  /\ sent[p] + n <= Len(block)
  /\ Len(out[p]) + n <= io.room[p]
  /\ out' = [out EXCEPT ![p] = @ \o SubSeq(block, sent[p] + 1, sent[p] + n)]
  /\ sent' = [sent EXCEPT ![p] = @ + n]
  /\ writer' = [writer EXCEPT ![p] = IF sent'[p] = Len(block) THEN "done" ELSE "running"]
  /\ UNCHANGED <<io, phase, readVars, block, first, result>>

\* Bug: the last error recorded replaces an earlier one.
RecordLast(p) == p

\* record_min_error.
RecordMin(p) == IF first = NoError \/ p < first THEN p ELSE first

\* The stream has no room: an error, or a write of 0 bytes, which is one.
WriteFails(p) ==
  /\ phase = "write" /\ MayRun(writer, p, io.parallelWrite)
  /\ Len(out[p]) = io.room[p]
  /\ first' = RecordMin(p)
  /\ writer' = [writer EXCEPT ![p] = "failed"]
  /\ UNCHANGED <<io, phase, readVars, block, sent, out, result>>

\* Bug: the error names the parity stream by its own index.
ReturnParityIndex ==
  /\ phase = "write" /\ Joined(writer) /\ Failures(writer) # {}
  /\ result' = Failed("write", first)
  /\ phase' = "returned"
  /\ UNCHANGED <<io, readVars, block, writeVars>>

\* take_stream_error: the recorded error, by its shard index in the stripe.
ReturnWriteError ==
  /\ phase = "write" /\ Joined(writer) /\ Failures(writer) # {}
  /\ result' = Failed("write", DataShards + first)
  /\ phase' = "returned"
  /\ UNCHANGED <<io, readVars, block, writeVars>>

\* Every parity stream has the block; the next one is read.
NextBlock ==
  /\ phase = "write" /\ AllDone(writer)
  /\ phase' = "read"
  /\ reader' = [i \in Readers |-> "todo"]
  /\ got' = [i \in Readers |-> 0]
  /\ UNCHANGED <<io, pos, buf, block, writeVars, result>>

----------------------------------------------------------------------------

Streams ==
  [len : [Readers -> Lengths], failAt : [Readers -> FailPoints],
   room : [Writers -> Rooms], parallelRead : BOOLEAN, parallelWrite : BOOLEAN]

Init ==
  /\ io \in Streams
  /\ phase = "read"
  /\ reader = [i \in Readers |-> "todo"]
  /\ pos = [i \in Readers |-> 0]
  /\ got = [i \in Readers |-> 0]
  /\ buf = [i \in Readers |-> [o \in Offsets |-> 0]]
  /\ block = <<>>
  /\ writer = [p \in Writers |-> "done"]
  /\ sent = [p \in Writers |-> 0]
  /\ out = [p \in Writers |-> <<>>]
  /\ first = NoError
  /\ result = Pending

Next ==
  \/ \E i \in Readers :
       \/ \E n \in Offsets : ReadSome(i, n)
       \/ ReadEnds(i) \/ ReadFails(i)
  \/ ReturnReadError \/ ReturnOk \/ EncodeBlock
  \/ \E p \in Writers :
       \/ \E n \in Offsets : WriteSome(p, n)
       \/ WriteFails(p)
  \/ ReturnWriteError \/ NextBlock

Spec == Init /\ [][Next]_vars

\* A stream is not interrupted for ever, and the threads run.
FairSpec == Spec /\ WF_vars(Next)

----------------------------------------------------------------------------
(* Properties.                                                               *)

LongestStream == Max({io.len[i] : i \in Readers})

\* The parity of the streams, the short ones padded to the longest.
WholeParity ==
  [n \in 1 .. LongestStream |-> [i \in Readers |-> IF n <= io.len[i] THEN n ELSE 0]]

Tasks == {"todo", "running", "done", "failed"}
Results ==
  {Pending, Ok} \cup {Failed("read", i) : i \in Readers}
    \cup {Failed("write", DataShards + p) : p \in Writers}

\* Every variable keeps its type.
TypeOK ==
  /\ io \in Streams
  /\ phase \in {"read", "write", "returned"}
  /\ reader \in [Readers -> Tasks] /\ writer \in [Writers -> Tasks]
  /\ \A i \in Readers : pos[i] \in 0 .. io.len[i]
  /\ got \in [Readers -> 0 .. BlockSize]
  /\ \A i \in Readers : buf[i] \in [Offsets -> 0 .. io.len[i]]
  /\ Len(block) <= BlockSize
  /\ sent \in [Writers -> 0 .. BlockSize]
  /\ \A p \in Writers : Len(out[p]) <= io.room[p]
  /\ first \in Writers \cup {NoError}
  /\ result \in Results

\* Whatever fails and however the threads interleave, every parity stream holds
\* a prefix of the whole parity: no byte of an earlier block survives in a
\* reused buffer, none is written twice, none is skipped. A writer that runs
\* ahead of another does so by less than a block more, so that after an error the
\* streams can be cut back to one block boundary they all reached.
ParityIsPrefix ==
  /\ \A p \in Writers :
       /\ Len(out[p]) <= LongestStream
       /\ out[p] = SubSeq(WholeParity, 1, Len(out[p]))
  /\ \A p, q \in Writers : Len(out[p]) - Len(out[q]) <= BlockSize

\* Ok means that every parity stream holds the whole parity, of streams of
\* different lengths too.
OkIsComplete == result = Ok => \A p \in Writers : out[p] = WholeParity

\* The error returned is that of a stream that failed in this call, and of the
\* writers that failed it is the first.
ErrorIsOfAFailure ==
  /\ result.kind = "read" => result.shard \in Failures(reader)
  /\ result.kind = "write" =>
       Failures(writer) # {} /\ result.shard = DataShards + Min(Failures(writer))

\* The call returns.
CallReturns == <>(phase = "returned")

=============================================================================
