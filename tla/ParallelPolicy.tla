--------------------------- MODULE ParallelPolicy ---------------------------
(* ParallelPolicy::decide of core/parallel.rs, and the sizes of the chunks.    *)
(*                                                                             *)
(* A policy is [min_parallel_shard_bytes, min_bytes_per_job, max_jobs,         *)
(* l2_cache_bytes], a decision [use_parallel, jobs, chunk_len].                *)
EXTENDS Integers

CONSTANTS
  CODE_SLICE_MIN_CHUNK_BYTES,       \* 16 KiB in the program
  CODE_SLICE_DEFAULT_CHUNK_BYTES,   \* 32 KiB
  CODE_SLICE_LARGE_CHUNK_BYTES,     \* 64 KiB
  LARGE_SHARD_BYTES                 \* 4 MiB

ASSUME ChunkAssumption ==
  /\ CODE_SLICE_MIN_CHUNK_BYTES \in Nat \ {0}
  /\ CODE_SLICE_DEFAULT_CHUNK_BYTES \in Nat
  /\ CODE_SLICE_LARGE_CHUNK_BYTES \in Nat
  /\ LARGE_SHARD_BYTES \in Nat
  /\ CODE_SLICE_MIN_CHUNK_BYTES < CODE_SLICE_DEFAULT_CHUNK_BYTES
  /\ CODE_SLICE_DEFAULT_CHUNK_BYTES < CODE_SLICE_LARGE_CHUNK_BYTES
  /\ CODE_SLICE_LARGE_CHUNK_BYTES <= LARGE_SHARD_BYTES

AtLeast(a, b) == IF a >= b THEN a ELSE b
AtMost(a, b)  == IF a <= b THEN a ELSE b
div_ceil(a, b) == (a + b - 1) \div b

serial_chunk_len(len) ==
  CASE len <= CODE_SLICE_MIN_CHUNK_BYTES -> len
    [] len > CODE_SLICE_MIN_CHUNK_BYTES /\ len <= CODE_SLICE_DEFAULT_CHUNK_BYTES ->
         CODE_SLICE_MIN_CHUNK_BYTES
    [] len > CODE_SLICE_DEFAULT_CHUNK_BYTES /\ len <= LARGE_SHARD_BYTES ->
         CODE_SLICE_DEFAULT_CHUNK_BYTES
    [] len > LARGE_SHARD_BYTES -> CODE_SLICE_LARGE_CHUNK_BYTES

(* The chunks that there are jobs for.  The size of the cache only ever adds  *)
(* to their number.                                                           *)
ChunkCount(policy, len, active) ==
  LET by_job == div_ceil(len, AtLeast(policy.min_bytes_per_job, CODE_SLICE_MIN_CHUNK_BYTES))
      ideal  == policy.l2_cache_bytes \div active
  IN IF ideal > 0 THEN AtLeast(by_job, div_ceil(len, ideal)) ELSE by_job

Jobs(policy, len, data, outputs, available) ==
  LET most == IF policy.max_jobs = 0 THEN available ELSE AtMost(policy.max_jobs, available)
      count == ChunkCount(policy, len, data + outputs)
  IN AtMost(AtLeast(most, 1), IF outputs <= 2 THEN count ELSE outputs * count)

(* Whether the work is worth the threads, and how it is cut.                  *)
decide(policy, len, data, outputs, available) ==
  LET jobs  == Jobs(policy, len, data, outputs, available)
      share == div_ceil(len, AtLeast(1, div_ceil(jobs, outputs)))
      bytes == AtMost(AtLeast(share, CODE_SLICE_MIN_CHUNK_BYTES),
                      AtLeast(policy.min_bytes_per_job, CODE_SLICE_MIN_CHUNK_BYTES))
  IN CASE len = 0 \/ data = 0 \/ outputs = 0 ->
            [use_parallel |-> FALSE, jobs |-> 1, chunk_len |-> len]
       [] len > 0 /\ data > 0 /\ outputs > 0
            /\ (len < policy.min_parallel_shard_bytes \/ jobs < 2) ->
            [use_parallel |-> FALSE, jobs |-> 1, chunk_len |-> AtMost(serial_chunk_len(len), len)]
       [] OTHER ->
            [use_parallel |-> TRUE, jobs |-> jobs, chunk_len |-> AtMost(bytes, len)]
=============================================================================
