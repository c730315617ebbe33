---------------------------- MODULE SliceCoding -----------------------------
(* How the Classic encoders of core/encode.rs get from a matrix row to bytes:   *)
(* a call cuts the shards into chunks, may hand them to the threads of a pool   *)
(* (core/parallel.rs), and every chunk goes through the kernels that the        *)
(* process has settled on (galois_8/backend.rs), or through an encoder that     *)
(* build.rs has generated.                                                      *)
(*                                                                              *)
(* One process on one host uses one codec.  RSE_BACKEND_OVERRIDE is read at two *)
(* moments, each of them once: when encode_sep first asks whether it may use a  *)
(* generated encoder, and when the first slice is multiplied.  The program that *)
(* uses the crate may change the variable at any time.                          *)
EXTENDS SliceKernels, ParallelPolicy

CONSTANTS
  Hosts,        \* machines, each with the policy and the threads of its pool
  Overrides,    \* values of the environment variable
  Stripes,      \* [rows, data]: the parity rows of a code, and data shards
  Junk,         \* what parity shards hold before they are encoded
  MaxCalls,     \* bounds the calls of one behaviour
  MaxSettings   \* bounds the changes of the environment

(* Every target that the NEON encoders are generated for has NEON; they do not *)
(* ask.                                                                        *)
ASSUME HostAssumption ==
  \A m \in Hosts :
    /\ m.std \in BOOLEAN
    /\ m.available \in Nat
    /\ m.policy \in [min_parallel_shard_bytes : Nat, min_bytes_per_job : Nat, max_jobs : Nat,
                     l2_cache_bytes : Nat]
    /\ "neon" \in Simd(m) => "neon" \in m.cpu

(* What check_piece_count and check_slices let pass (macros.rs).               *)
ASSUME StripeAssumption ==
  \A s \in Stripes :
    /\ s.rows \in Seq(Seq(Byte)) /\ s.rows # <<>>
    /\ s.data \in Seq(Seq(Byte)) /\ s.data # <<>> /\ s.data[1] # <<>>
    /\ \A r \in DOMAIN s.rows : Len(s.rows[r]) = Len(s.data)
    /\ \A i \in DOMAIN s.data : Len(s.data[i]) = Len(s.data[1])

ASSUME JunkAssumption == Junk \in Byte

VARIABLES
  host, stripe,
  environment,        \* RSE_BACKEND_OVERRIDE now
  active_backend,     \* ACTIVE_BACKEND, or Unresolved
  generated_allowed,  \* GENERATED_ENCODE_ALLOWED: {}, and {its value} once it is read
  call,               \* [entry, input, kernel, parallel]: the call in progress
  tasks,              \* the slices that each job of the call has still to code
  outputs,            \* the parity shards
  fed,                \* the data shards that the parity is of
  calls, settings,
  held,               \* the values of the variable since the codec was first used
  ran                 \* the kernels that have run

vars == <<host, stripe, environment, active_backend, generated_allowed, call, tasks, outputs, fed,
          calls, settings, held, ran>>

Unresolved == "unresolved"
Idle == [entry |-> "none", input |-> 0, kernel |-> NoBackend, parallel |-> FALSE]

data_shard_count   == Len(stripe.data)
parity_shard_count == Len(stripe.rows)
shard_len          == Len(stripe.data[1])
AllRows            == 1 .. parity_shard_count
AllInputs          == [i \in 1 .. data_shard_count |-> i]

(* ----------------------------- cutting the work --------------------------- *)

(* A mutant: the last chunk is as long as the others.                         *)
ChunksUncut(chunk_len, len) ==
  [k \in 1 .. div_ceil(len, chunk_len) |-> [from |-> (k - 1) * chunk_len, to |-> k * chunk_len]]

(* A mutant: only whole chunks are coded.                                     *)
WholeChunks(chunk_len, len) ==
  [k \in 1 .. AtLeast(1, len \div chunk_len) |->
     [from |-> (k - 1) * chunk_len, to |-> AtMost(k * chunk_len, len)]]

(* The chunks of a shard: the bytes after from and up to to.                  *)
Chunks(chunk_len, len) ==
  [k \in 1 .. div_ceil(len, chunk_len) |->
     [from |-> (k - 1) * chunk_len, to |-> AtMost(k * chunk_len, len)]]

(* Chunk by chunk, every input in its order.                                  *)
Slices(rows, inputs, chunks) ==
  [k \in 1 .. Len(chunks) * Len(inputs) |->
     [rows  |-> rows,
      input |-> inputs[((k - 1) % Len(inputs)) + 1],
      chunk |-> chunks[(k - 1) \div Len(inputs) + 1]]]

code_some_slices_chunked ==
  <<Slices(AllRows, AllInputs, Chunks(AtMost(serial_chunk_len(shard_len), shard_len), shard_len))>>

(* A mutant: a job for each chunk of few outputs, each handed all chunks.      *)
EveryJobAllChunks(chunk_len) ==
  LET chunks == Chunks(chunk_len, shard_len)
  IN IF parity_shard_count <= 2 /\ Len(chunks) > 1
     THEN [k \in DOMAIN chunks |-> Slices(AllRows, AllInputs, chunks)]
     ELSE [r \in AllRows |-> Slices({r}, AllInputs, chunks)]

(* One job for each chunk of few outputs, else one job for each output.       *)
code_some_slices_par_chunked(chunk_len) ==
  LET chunks == Chunks(chunk_len, shard_len)
  IN IF parity_shard_count <= 2 /\ Len(chunks) > 1
     THEN [k \in DOMAIN chunks |-> Slices(AllRows, AllInputs, <<chunks[k]>>)]
     ELSE [r \in AllRows |-> Slices({r}, AllInputs, chunks)]

code_single_slice(input) ==
  <<Slices(AllRows, <<input>>, Chunks(shard_len, shard_len))>>

code_single_slice_par_chunked(input, chunk_len) ==
  [r \in AllRows |-> Slices({r}, <<input>>, Chunks(chunk_len, shard_len))]

(* -------------------------------- the calls ------------------------------- *)

Init ==
  /\ host \in Hosts
  /\ stripe \in Stripes
  /\ environment \in Overrides
  /\ active_backend = Unresolved
  /\ generated_allowed = {}
  /\ call = Idle
  /\ tasks = <<>>
  /\ outputs = [r \in AllRows |-> [k \in 1 .. shard_len |-> Junk]]
  /\ fed = 0
  /\ calls = 0
  /\ settings = 0
  /\ held = {environment}
  /\ ran = {}

(* The program sets the variable; before the codec is used, only the last     *)
(* value counts.                                                              *)
SetOverride(value) ==
  /\ settings < MaxSettings
  /\ value # environment
  /\ environment' = value
  /\ held' = IF calls = 0 THEN {value} ELSE held \cup {value}
  /\ settings' = settings + 1
  /\ UNCHANGED <<host, stripe, active_backend, generated_allowed, call, tasks, outputs, fed, calls, ran>>

Begin(entry, input, kernel, parallel, jobs) ==
  /\ call = Idle
  /\ calls < MaxCalls
  /\ call' = [entry |-> entry, input |-> input, kernel |-> kernel, parallel |-> parallel]
  /\ tasks' = jobs
  /\ calls' = calls + 1
  /\ UNCHANGED <<host, stripe, environment, active_backend, outputs, fed, settings, held, ran>>

encode_sep ==
  LET allowed   == IF generated_allowed = {}
                   THEN generated_encode_allowed(host, environment)
                   ELSE TRUE \in generated_allowed
      generated == IF allowed
                   THEN try_encode_codegen(host, data_shard_count, parity_shard_count)
                   ELSE NoBackend
  IN /\ generated_allowed' = {allowed}
     /\ Begin("encode_sep", 0, generated, FALSE,
              IF generated = NoBackend
              THEN code_some_slices_chunked
              ELSE <<Slices(AllRows, AllInputs, Chunks(shard_len, shard_len))>>)

Decision ==
  decide(host.policy, shard_len, data_shard_count, parity_shard_count, host.available)

encode_sep_par ==
  /\ host.std
  /\ Begin("encode_sep_par", 0, NoBackend, Decision.use_parallel,
           IF Decision.use_parallel
           THEN code_some_slices_par_chunked(Decision.chunk_len)
           ELSE code_some_slices_chunked)
  /\ UNCHANGED generated_allowed

(* The data shards are fed one by one, in their order.                        *)
encode_single_sep_par(input) ==
  /\ host.std
  /\ input = (fed % data_shard_count) + 1
  /\ Begin("encode_single_sep_par", input, NoBackend, Decision.use_parallel,
           IF Decision.use_parallel
           THEN code_single_slice_par_chunked(input, Decision.chunk_len)
           ELSE code_single_slice(input))
  /\ UNCHANGED generated_allowed

(* mul_slice for the first input and mul_slice_add for the others.            *)
Coded(kernel, row, slice) ==
  [k \in 1 .. shard_len |->
     LET chunk   == slice.chunk
         product == Product(kernel, stripe.rows[row][slice.input], k - chunk.from,
                            chunk.to - chunk.from, stripe.data[slice.input][k])
     IN CASE k <= chunk.from \/ k > chunk.to -> outputs[row][k]
          [] k > chunk.from /\ k <= chunk.to /\ slice.input = 1 -> product
          [] OTHER -> ByteXor(outputs[row][k], product)]

(* A job codes its next slice.                                                *)
CodeSlice(t) ==
  /\ tasks[t] # <<>>
  /\ LET backend == IF active_backend = Unresolved
                    THEN runtime_select_backend(host, environment)
                    ELSE active_backend
         kernel  == IF call.kernel = NoBackend THEN backend ELSE call.kernel
         slice   == Head(tasks[t])
     IN /\ outputs' = [r \in AllRows |-> IF r \in slice.rows THEN Coded(kernel, r, slice) ELSE outputs[r]]
        /\ active_backend' = IF call.kernel = NoBackend THEN backend ELSE active_backend
        /\ ran' = ran \cup {kernel}
  /\ tasks' = [tasks EXCEPT ![t] = Tail(@)]
  /\ UNCHANGED <<host, stripe, environment, generated_allowed, call, fed, calls, settings, held>>

(* The pool has joined all jobs, and the call returns Ok.                     *)
Return ==
  /\ call # Idle
  /\ \A t \in DOMAIN tasks : tasks[t] = <<>>
  /\ fed' = IF call.input = 0 THEN data_shard_count ELSE call.input
  /\ call' = Idle
  /\ tasks' = <<>>
  /\ UNCHANGED <<host, stripe, environment, active_backend, generated_allowed, outputs, calls, settings,
                 held, ran>>

Next ==
  \/ \E value \in Overrides : SetOverride(value)
  \/ encode_sep
  \/ encode_sep_par
  \/ \E input \in 1 .. data_shard_count : encode_single_sep_par(input)
  \/ \E t \in DOMAIN tasks : CodeSlice(t)
  \/ Return

Spec == Init /\ [][Next]_vars

(* ------------------------------- properties ------------------------------- *)

(* Everything has its type: slices lie within the shards, and what is resolved *)
(* is one of the backends.                                                     *)
TypeOK ==
  /\ active_backend \in Backends \cup {Unresolved}
  /\ generated_allowed \in {{}, {TRUE}, {FALSE}}
  /\ outputs \in [AllRows -> [1 .. shard_len -> Byte]]
  /\ fed \in 0 .. data_shard_count
  /\ ran \subseteq Backends \cup {"generated-avx2", "generated-neon"}
  /\ \A t \in DOMAIN tasks : \A k \in DOMAIN tasks[t] :
       LET slice == tasks[t][k]
       IN /\ slice.rows \subseteq AllRows
          /\ slice.input \in 1 .. data_shard_count
          /\ slice.chunk.from \in 0 .. slice.chunk.to - 1
          /\ slice.chunk.to <= shard_len

(* A byte of the parity by the definition of the field: products of            *)
(* polynomials modulo 0x11d, and no tables.                                    *)
ParityByte(row, k) ==
  LET sum[i \in 0 .. data_shard_count] ==
        IF i = 0 THEN 0
        ELSE ByteXor(sum[i - 1], CarrylessProduct(stripe.rows[row][i], stripe.data[i][k], 29))
  IN sum[data_shard_count]

(* Once all data shards are coded the parity is the product of the matrix and  *)
(* the data, byte for byte: whichever kernels ran, however the shards were cut *)
(* and in whatever order the jobs went (core/encode.rs, the backends).         *)
OutputsAreTheProduct ==
  call = Idle /\ fed = data_shard_count =>
    \A r \in AllRows : \A k \in 1 .. shard_len : outputs[r][k] = ParityByte(r, k)

Instructions ==
  [k \in Backends \cup {"generated-avx2", "generated-neon"} |->
     CASE k = "generated-avx2" -> {"avx2"}
       [] k = "generated-neon" -> {"neon"}
       [] OTHER -> Needs[k]]

(* No kernel runs on a processor that lacks its instructions, and every kernel *)
(* that has run was one to run under a value that the variable had since the   *)
(* codec was first used: a backend asked for by name is the only one if the    *)
(* machine has it, and no name allows for a generated encoder (README.md,      *)
(* RSE_BACKEND_OVERRIDE).                                                      *)
RunsWhatWasAsked ==
  \A kernel \in ran :
    /\ Instructions[kernel] \subseteq host.cpu
    /\ host.std => \E value \in held :
         /\ value \in Backends => kernel \in Backends
         /\ value \in Backends /\ Supports(host, value) => kernel = value

InChunk(chunk, b) == chunk.from < b /\ b <= chunk.to

Codes(slice, r, b) == r \in slice.rows /\ InChunk(slice.chunk, b)

(* Byte b of output r is the matter of job t alone, which takes the inputs one *)
(* after the other, each of them once.                                         *)
IsMatterOf(t, jobs, inputs, r, b) ==
  /\ \A i \in inputs : \E k \in DOMAIN jobs[t] :
       Codes(jobs[t][k], r, b) /\ jobs[t][k].input = i
  /\ \A u \in DOMAIN jobs : \A k \in DOMAIN jobs[u] :
       Codes(jobs[u][k], r, b) => u = t /\ jobs[u][k].input \in inputs
  /\ \A k, l \in DOMAIN jobs[t] :
       /\ Codes(jobs[t][k], r, b) /\ Codes(jobs[t][l], r, b)
       /\ jobs[t][k].input <= jobs[t][l].input
       => k <= l

IsWhole(jobs, inputs) ==
  \A r \in AllRows : \A b \in 1 .. shard_len :
    \E t \in DOMAIN jobs : IsMatterOf(t, jobs, inputs, r, b)

(* However a call cuts its work, the jobs do all of it and none of it twice, no *)
(* two of them write the same byte, and the first input, which overwrites what *)
(* the byte held, comes before those that are added to it                      *)
(* (code_some_slices_par_chunked and its siblings in core/encode.rs).          *)
WorkIsWhole ==
  [][call = Idle /\ call' # Idle =>
       IsWhole(tasks', IF call'.input = 0 THEN 1 .. data_shard_count ELSE {call'.input})]_vars
=============================================================================
