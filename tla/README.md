# TLA+ verification of reed-solomon-erasure (rustfs-erasure-codec)

The crate splits data into `data_shard_count` shards, computes
`parity_shard_count` parity shards, and recovers lost shards from any
`data_shard_count` that are left. This directory models the parts of it whose
correctness depends on *order* (threads sharing a cache, calls that fail half
way and are repeated, parity kept up to date through several kinds of calls,
streams that end in the middle of a block, work areas that outlive a call), and
below them the algorithms themselves: matrices and their inversion, the Leopard
transforms, the kernels and the way shards are cut for them. Paths are relative
to the crate's source directory; `docs/`, `README.md` and `build.rs` are the
repository's.

## The system

| Part | Source | State | Operations | Talks to |
|---|---|---|---|---|
| Decode-matrix cache | `core/reconstruct.rs` `get_data_decode_matrix`, `core/metrics.rs` | an LRU map from missing-shard lists to inverted matrices behind a mutex; five relaxed counters | look up, invert, insert; snapshot of the counters | called by every Classic reconstruct path and by `decode_idx`, from any thread |
| Reconstruction | `core/reconstruct.rs`, `galois_8/policy.rs`, `ReconstructShard` in `lib.rs` | the caller's container: presence, length and contents of each shard; a prepared workspace | `reconstruct`, `_data`, `_some`, their `_opt` forms, prepare and execute a workspace | cache, parallel policy, Leopard engines |
| Parity upkeep | `core/encode.rs`, `core/verify.rs`, `core/workspace.rs`, `core/shard_by_shard.rs` | one stripe; `ShardByShard::cur_input`; `VerifyWorkspace` buffers | encode (whole, or one shard at a time), update, verify | kernels, parallel policy, Leopard engines |
| Streams | `core/stream.rs` | block buffers, the position in every stream, the first write error | `encode_stream`, `verify_stream`, `reconstruct_stream` | encode, verify, reconstruct; rayon |
| `decode_idx` | `galois_8/policy.rs` | destinations that accumulate contributions | accumulate under a mask; merge | cache, kernels |
| Codec construction | `core/codec.rs`, `core/options.rs`, `core/leopard.rs` | the encoding matrix, the family, the capacity of the cache | `with_options`, `with_custom_matrix` | matrix |
| Matrix, field | `matrix.rs`, `galois_8/mod.rs`, tables of `build.rs` | none | multiply, invert | — |
| Kernels and their selection | `galois_8/{scalar,backend}.rs`, `galois_8/{x86,aarch64,ppc64,legacy}`, encoders of `build.rs` | two cells, each set once from `RSE_BACKEND_OVERRIDE` and the processor | select; multiply slices | called by encode, reconstruct, `decode_idx` |
| Parallel policy | `core/parallel.rs`, `core/cache_detect.rs` | none (resolved once) | `decide` | encode, reconstruct |
| LeopardGF8 | `core/leopard_gf8/*` | tables; a work area per thread | FFT encode, error-locator decode | encode, verify, reconstruct |
| LeopardGF16 | `core/leopard_gf16/*` | tables; a work area per thread; a process-wide cache of decode plans; a work area per worker and call | the same, the chunks of a decode in parallel | encode, verify, reconstruct |

What is hard in it, and not reached by a unit test, is listed line by line in
`PROJECT.json` under `hazards`, with the properties that would catch it.

## Modules

| Module | Models | Checked by | Proved in |
|---|---|---|---|
| `Codec` | shard indices, the first `DataShards` present shards, invertible sub-matrices | (extended by the others) | |
| `LruCache` | `hashlink::LruCache` as it is used (external) | (extended, or an instance) | `DecodeCacheProofs` |
| `DecodeMatrixService` | the promise of `get_data_decode_matrix`, without a cache | refined by `DecodeCache` | |
| `DecodeCache` | `get_data_decode_matrix` by concurrent threads, and the counters | `MCDecodeCache` | `DecodeCacheProofs` |
| `Reconstruct` | the Classic reconstruct calls and their caller | `MCReconstruct` | `ReconstructProofs` |
| `ParityUpkeep` | encode, update, ShardByShard, verify on one stripe | `MCParityUpkeep` | `ParityUpkeepProofs` |
| `StreamEncode` | one `encode_stream` call | `MCStreamEncode` | `StreamEncodeProofs` |
| `StreamReconstruct` | `reconstruct_stream` calls and their caller | (extended) | `StreamReconstructProofs` |
| `StreamVerify` | `verify_stream` among them, with the cursors' positions | `MCStreamReconstruct` | `StreamReconstructProofs` |
| `Words`, `ClassicField` | exclusive or; the tables of GF(256) and its arithmetic | (extended) | `DecodeIdxProofs` |
| `ClassicMatrix` | matrices, elimination, the builders of encoding matrices | (extended) | `DecodeIdxProofs` |
| `DecodeIdx` | progressive decoding by several nodes | `MCDecodeIdx` | `DecodeIdxProofs` |
| `SliceKernels` | the choice of a backend, and what each kernel computes | (extended) | `SliceCodingProofs` |
| `ParallelPolicy` | `ParallelPolicy::decide`, chunk lengths | (extended) | `SliceCodingProofs` |
| `SliceCoding` | encoding calls cut into chunks and jobs, on a host | `MCSliceCoding` | `SliceCodingProofs` |
| `LeopardField` | the tables of the Leopard field, at any width | (extended) | `LeopardGf16Proofs` |
| `LeopardTransform` | plans, butterflies, work areas, the formal derivative | (extended) | `LeopardGf16Proofs` |
| `LeopardCode` | the code itself, by interpolation: the reference | (extended) | |
| `ErasureCode` | the promise of an engine, without transforms | refined by `LeopardGf8` | |
| `LeopardGf8` | encode and reconstruct calls of one thread | `MCLeopardGf8` | |
| `LeopardGf16` | calls of several threads, the plan cache, the chunk jobs | `MCLeopardGf16` | `LeopardGf16Proofs` |

No module declares a `RECURSIVE` operator: recursion is by functions and by
the folds of the community modules.

### DecodeCache

`pc[t]` is the position of thread `t` in `get_data_decode_matrix`; `lock` is the
cache's mutex; `stats` the atomic counters, each moved by a step of its own.
The function has two critical sections. `LookupHit`/`LookupMiss` take the lock
and consult the cache; `ReturnHit` and `CountMiss` count and release it.
`InvertSucceeds`/`InvertFails` run outside the lock. `InsertMatrix` takes it
again and reads the length *before* inserting; `CountEviction` and
`ReturnInserted` count, and release. `BeginSnapshot`/`LoadCounter` are
`reconstruction_cache_stats`. A matrix is named by the set of rows it inverts:
two answers are equal if and only if they invert the same rows. A codec with
`inversion_cache = false` goes straight to the inversion. The counters count only with the feature
`benchmark-metrics` (`MetricCounter` in `core/metrics.rs` does nothing without
it), and there are none without `std`; the rest is the same in every build. Their
loads and additions are `Relaxed`. The model is sequentially consistent: it takes
them in one total order that agrees with the program order of each thread. `Relaxed`
does not promise that, so what `CountersAccounted` says of a snapshot taken while
calls run is shown under that assumption only.

### Reconstruct

A container is either of `Option<Vec<_>>` (a missing shard has no buffer) or of
`ShardSlot`/`(T, bool)` shards (a missing shard keeps its buffer, of whatever
length and contents). A slot of the model is `[present, len, good]`; `good` says
that the contents are those of the codeword. What is computed from the
codeword's shards is the codeword's; what is computed from anything else is not.
Every call path is an operator from a container to a container and a result,
`Generic`, `OptionVecPar`, `Some`, `SomeOptData`, `Execute`, each with the order
of its checks and its partial effects on errors. The calls pick among them as
the entry points do; where a run-time threshold picks (`reconstruct_opt`), both
are possible. The caller loses, cuts and repairs shards between calls.
`Careful` is the caller's discipline after an error: `TRUE` undoes the presence
marks the failed call left (`mark_missing`, `take`) before anything else, `FALSE`
calls again at once.

Containers have `total_shard_count` elements: `check_piece_count!` refuses any
other. The paths of `galois_8/policy.rs` that do not check the count are
therefore only modelled on containers of the right size. One difference between
them is visible in the model: with nothing required missing, `reconstruct_some`
returns before it looks for a matrix while `reconstruct_some_opt` may return
`InvalidCustomMatrix`. `PathsAgree` allows that one and no other.

### ParityUpkeep

A data shard is one bit and a buffer a formal sum over GF(2): the set of its
terms *shard times coefficient*. The coefficients are uninterpreted (`row`: the
parity row's entry, `one`: the plain sum of `fast_one_parity`, `fft`: the weight
in the Leopard transform), so two buffers are equal in the model only if they
are equal for every coefficient, and "consistent" is not an accident of a
matrix. (It can be one: with three data shards the single Vandermonde parity
row is all ones.) All parity rows are treated alike by the code, so one buffer
stands for all of them, and all bytes of a shard are, so one bit stands for all:
how a shard is cut in chunks is left to `SliceCoding`. `fed`, `batch` and `inSync` record
what the caller knows and no action reads them.

### StreamEncode, StreamReconstruct, StreamVerify

`StreamEncode` is one call. A byte of a data stream is its position; a parity
byte is named by the column of bytes it is computed from, so a stale, a skipped
and a repeated byte are all visible. Reads and writes transfer any part of what
is asked for; readers end or fail at a position of their own, writers are full
after some bytes. With serial I/O the tasks of a block run in index order; with
rayon, in any order, a task not yet begun may be skipped after a failure, and
one that has begun runs on. `StreamReconstruct` is a sequence of calls on
cursors that the caller empties, cuts and refills in between: presence is
decided by emptiness when the call begins, so what a failed call left in a
missing cursor matters to the next one.

`StreamVerify` adds the other call on the same cursors. `verify_stream` takes
readers, so it reads each cursor from where it stands; `reconstruct_stream`
rewinds the ones it reads and appends to the others without moving them. `at` is
that position. The caller rewinds, replaces and verifies in any order. A block
ends the verification when its columns are not those of a codeword, and a short
read is padded with zeros instead of refused: the verdict must still be that of
all that was left to read, whatever the block size.

### DecodeIdx, ClassicMatrix, ClassicField

These compute with bytes. `ClassicField` builds the tables as `build.rs` does,
`ClassicMatrix` is `matrix.rs` with the four ways of building an encoding matrix,
and `DecodeIdx` is `decode_idx` on them. A node has destination buffers; it is
given any set of the shards it expects, in any number of calls, and adds another
node's buffers in merge mode. `Verdict` is the sequence of the function's checks on
the mask and the shards. The refusals before it, of a Leopard codec and of containers
or flags that are not as many as the codec's shards, change nothing and are left out:
the nodes are of a Classic codec and their containers of its size. A merge goes index by index and stops at the first misfit, with what it did
before left in place. `fed` follows, beside the program, which shards each buffer
may have received an odd number of times; no action reads it. The reference for
what a buffer should hold does not use the elimination: coefficients are
quotients of determinants (Cramer's rule). `Data`, what is encoded, is a constant.

Three assumptions say what is asked of the constants and the tables, and TLC evaluates
them on every run of these modules: `NibbleAssumption` (exclusive or of four bits is a
commutative group, by its table of 16 times 16), `TablesAssumption` (logarithms and
powers are inverse to each other, and doubling distributes over sums: all that
`build.rs` has to get right for the products to be those of a field), `IdxAssumption`
(codecs have shards of both kinds and at most 256 in all; custom rows are rows of
bytes; the callers name shards that there are and start with zeroed buffers).

### The Leopard modules

`LeopardField` makes the tables of `tables.rs` from the width, the polynomial and
the Cantor basis, so that one module serves GF(2^8) and GF(2^16).
`LeopardTransform` is the program's plans (which blocks, which positions of
`fft_skew`, what to clear) and the butterflies that run them, for a work area
whose lanes are longer than the columns in use: a plan that reads past `fft_skew`
is a panic (`PlansFit`). `LeopardCode` is the code that both compute, from
Lagrange's formula and without any transform.

`LeopardGf8` is one thread's calls. An encoding takes the work area that the
thread's last encoding left, if its dimensions fit, or one that is not
initialised; each group of data shards, each chunk and each step of a
reconstruction is an action. `DebugAssertions` is the build. The decoder hands
`mulgf8` a whole lane of the work area on one side and the columns of the chunk on
the other. A debug build asserts that they are equally long, and panics where the last
chunk is a short one (`Load`); a release build stops at the end of the shorter one, and
leaves the lane's other columns as the chunk before had them. It implements
`ErasureCode` in a release build, in which encoding makes
a codeword in one step, any `DataShards` shards restore it in one step, and a
refused call changes nothing. The mapping shows a container as having no shards
while it is being encoded, and as it was while it is being reconstructed.

`LeopardGf16` has what is different there: bytes that pair up into elements in
blocks of 32, a process-wide LRU cache of decode plans (looked up and filled in
two critical sections, with the plan built between them), and chunks that are jobs
of a pool, each worker reusing its work area in whatever order it gets them.

### SliceKernels, ParallelPolicy, SliceCoding

`SliceCoding` is one process with one Classic codec on one host. A call decides
whether to use a generated encoder or threads, cuts the shards, and becomes jobs
of slices; jobs interleave slice by slice. `active_backend` and
`generated_allowed` are the two cells that are set once, at different moments,
while `SetOverride` may change the environment in between. A kernel is modelled by what
it makes of each position of a slice: the vectors' part by nibble tables (or by
the affine map and the other field's product, for GFNI), the tail by the scalar
table. The reference is multiplication of polynomials modulo 0x11d.

What the code's checks let through is assumed of the constants: a stripe has at
least one shard of each kind, the data shards are not empty and equally long, and a
row of the matrix is as long as there are data shards (`StripeAssumption`,
`check_piece_count!` and `check_slices!` in `macros.rs`); a host's policy is of
natural numbers, and where the NEON encoders were generated the processor has NEON,
since they do not ask (`HostAssumption`). `ProductsAssumption` in `SliceKernels` has
no constants: all the ways to multiply two bytes agree, for all 65,536 products. TLC
evaluates it in each run of a module that uses the kernels.

## Runs

All in this directory: `tlc -config X.cfg M`.

| Run | Shows |
|---|---|
| `MCDecodeCache` | `CacheCoherent`, `ImplementsService`: no interleaving of misses, duplicate insertions and evictions changes an answer. `CountersAccounted`: what may be concluded from the counters (requests against hits, misses and calls under way; insertions and evictions against the entries held; a snapshot's hits and misses against its requests). `CallsEnd`: every call ends |
| `MCReconstruct` | `PresentAreCodeword`, `OkMeansRecovered` for a careful caller; `PathsAgree` on every container that caller can hold, of all shards and of the required ones only, under every mask; `OnlyTargetsTouched` on success and error |
| `MCParityUpkeep` | `InSyncIsConsistent`, `SbsParityIsOfBatch`, `VerifyTellsTheTruth`, over all orders of all calls, for three kinds of codec |
| `MCStreamEncode` | `ParityIsPrefix`, `OkIsComplete`, `ErrorIsOfAFailure`, `CallReturns` |
| `MCStreamReconstruct` | `ContentsAreCodeword`, `OkIsWhole`, `BlocksDoNotMatter`; `VerdictIsOfTheUnread`: verification from wherever the cursors stand; `CallsReturn` |
| `MCDecodeIdx` | `SlotsAreOfTheFed`, `CompleteIsTheShard`: a buffer is the sum of what reached it, through accumulation, merges and failures; `DecodesWhatItCan`: every choice of rows of every built matrix is inverted, and the elimination's verdict is the determinant's |
| `MCSliceCoding` | `OutputsAreTheProduct` on every backend; `WorkIsWhole`: the jobs of a call do all of its work once, no two of them write the same byte, and each byte takes its inputs in order; `RunsWhatWasAsked`: no kernel runs where it cannot or where another was asked for |
| `MCLeopardGf8` | `ParityIsOfTheCode` whatever the work area held, `ImplementsErasureCode` through losses and reconstructions, in a build without debug assertions |
| `MCLeopardGf16` | `ParityIsOfTheCode`, `PlanIsOfTheCall`, `RecoveredIsOfTheCode` for two threads that share plans, with chunks in any order |

Three more runs each end in a counterexample, a place where the code and what is
written about it part:

| Run | Property | What the trace shows |
|---|---|---|
| `MCReconstructRetry` | `OkMeansRecovered` | the first missing slot is marked present, the next one's buffer is refused; calling again returns `Ok` over stale bytes |
| `MCFastOneParity` | `SbsVerifies` | `encode_single` multiplies by the parity row of a codec whose `verify` adds the shards |
| `MCLeopardGf8Debug` | `AssertionsHold` | in a debug build, a LeopardGF8 shard of one chunk and one column (in the program: longer than 32 KiB and no multiple of it) encodes; its reconstruction panics on the last, short chunk, in `debug_assert_eq!(input.len(), out.len())` of `mulgf8`. A release build recovers the shard |

Other divergences met while modelling, each visible in one place of the code and
without a run of its own:

- `core/reconstruct.rs:768` counts an eviction when a full cache has a key
  replaced that two threads missed together, though nothing is evicted;
  `docs/benchmark-methodology.md:303` calls the counter "entries evicted by LRU
  capacity pressure". `CountersAccounted` bounds the difference.
- `core/encode.rs:705`: `encode_single_opt` lacks the check of the codec family
  that its siblings have (`core/encode.rs:384`, "Not supported for Leopard codec
  families."), and adds matrix products to FFT parity.
- `core/stream.rs:440`: after the first failure the writers that have not begun
  are skipped, so the error need not be that of the lowest broken index, as the
  comment at `core/stream.rs:178` says; it is the lowest of those that failed
  (`ErrorIsOfAFailure`).
- `galois_8/policy.rs:903` takes the first `data_shard_count` of the expected
  inputs, but with more than that many expected the matrix is refused with
  `TooFewShardsPresent`: a mask must name exactly as many (`DecodeIdx!Verdict`).
- README.md:169 says that LeopardGF8 "supports up to 256 total shards", and
  `core/leopard.rs:18` accepts as many. With 253 + 3 shards the plan of the last,
  incomplete group starts at the end of `fft_skew`, and building it
  (`core/leopard_gf8/encode.rs:147`) reads past the table: encode panics. 100 + 30
  encodes, and reconstruct refuses it with `TooManyShards`
  (`core/leopard_gf8/decode.rs:43`): 128 lanes and 100 shards round up to 256 points,
  one more than the decoder takes. Both shapes are in `MCLeopardGf8`, whose
  `WideContainers` TLC evaluates.
- `core/parallel.rs` uses the size of the L2 cache only to raise the number of
  jobs, never to bound a chunk, and `encode_single_sep_par` with one output
  decides for threads and then runs one job; `ParallelIsShared` (of
  `SliceCodingProofs`) therefore speaks of `encode_sep_par`, under policies that ask
  for more than the smallest chunk.

### Bounds, and why they are enough

- Codec 2+2 in the Classic runs: enough for a pattern with more present than data
  shards, two patterns that lose the same data shard and decode from different
  rows, and one singular selection (a custom matrix).
- `DecodeCache`: 2 threads, `MaxCalls = 3`, capacity 2. Three calls meet three
  different keys, so a full cache evicts; two of them may be concurrent misses
  of one key. `MaxCalls` bounds only `Request` and `RefuseWideRequest`. The
  proofs have none of these bounds.
- `Reconstruct`: lengths 0, 1 (`Short`) and 2 (`Full`): the code only compares
  lengths with each other and with 0. There is no bound on the number of calls:
  the state space is finite.
- `ParityUpkeep`: 2 data shards, so that there is a first input (which
  overwrites) and another (which is added); no bound on the calls.
- `StreamEncode`: 2+2 streams, blocks of 2 bytes, streams of 0, 1 and 3 bytes: a
  stream ends before, in and after the first block, and blocks are full, short
  and padded. A reader may fail in the second block, a writer may be full in the
  first.
- `StreamVerify`: shards of 3 bytes, blocks of 1, 2 and 4: a cut falls before, at
  and inside a block boundary, and the block size divides the shards or does not.
  No bound on the calls.
- `DecodeIdx`: 2 nodes, `MaxCalls = 4` (both nodes fed twice; or fed, merged and
  fed again), shards of one byte because every byte is treated alike. 2+2 and 3+3
  with all three kinds of built matrix, so that eliminations exchange rows, and a
  custom matrix with a singular selection. A mask of one shard too few, of enough,
  and of one too many. The nodes are symmetric: no definition tells them apart.
- `SliceCoding`: the constants are scaled, in their order: vectors of 2 bytes,
  chunks of 4, 6 and 8, large shards from 10. Shards of 1, 6, 7, 9 and 11 bytes
  are shorter than a vector, whole chunks, and chunks with a tail. `MaxCalls = 2`
  (the second call meets both cells set), `MaxSettings = 1` (one change of the
  override between the two reads). Ten hosts: with all instructions, without
  some, with C kernels built for another processor, without `std`.
- `LeopardGf8`: the real width. Shapes with 1, 2 and 4 parity lanes, with and
  without padding, fewer data shards than lanes, a remainder group and several
  groups; chunks of 2 and 3 columns where the program has thousands, so that
  columns fall into whole and short chunks; the fan-out thresholds are scaled to
  match. `MaxCalls = 2` encodings: the second takes over or refuses the first
  one's work area. Every set of lost shards that can be restored, and every set
  with one shard more. `Junk` (0 and 165) is what uninitialised memory holds. The run
  of a debug build has shards of one short chunk, of one and of two whole ones, and of
  a whole one and a short one; only the last fail the assertion.
- `LeopardGf16`: 4 bits (16 points, polynomial 19 with a Cantor basis of its own):
  the code is generic in the width, and a field of 2^16 points is out of TLC's
  reach. The decoder takes 8 of the 16 points at most, so the codes that it restores
  are 2+2 and 3+1 (4 points; the first in one chunk and in two, of which the second is
  short), 3+3 (8 points, a lane of padding) and 5+2 (8 points, several groups); 8+1 is
  encoded and refused by the decoder, 13+3 leaves the tables, and the last length does
  not fit. Blocks of 2 elements, chunks of 4, a plan cache of one entry so that it
  evicts, 2 threads, 2 workers, `MaxCalls = 2`. Two calls do not come back to a plan
  that was evicted and build it again; `CallsUseTheirOwnPlans` covers any number.

`CHECK_DEADLOCK FALSE` is where a run really ends: `StreamEncode` has one call;
`DecodeIdx`, `SliceCoding` and the Leopard runs have a bounded number of them.

### Fairness

- `DecodeCache`: weak fairness on the steps of each thread's call (the operating
  system runs every runnable thread), none on beginning one. `parking_lot`'s
  mutex is eventually fair, and the number of calls is bounded, so weak fairness
  on taking the lock asks for no more than that. The `no_std` build uses a spin
  lock without that guarantee; there the property speaks of bounded contention.
- `StreamEncode`: weak fairness on the whole next-state relation: some task of
  the call always moves. `Interrupted` errors are retried and are stuttering
  steps; a stream that only ever returns `Interrupted` would keep the call for
  ever, and fairness excludes it.
- `StreamVerify`: weak fairness on the steps of the running call (`SessionStep`):
  it runs on memory. None on the caller.

## Proofs

Checked by `tlapm`, for every value of the constants under the modules' named
`ASSUME`s (a codec has shards of both kinds, block and chunk lengths are positive, and
what is said above of `SliceCoding`; each is evaluated by TLC on the instances). The
runs check the properties on a small instance; `PROJECT.json` lists the theorems.

### DecodeCacheProofs

The first section says what `Without`, `Touch` and `Insert` do to the length, the
entries and the uniqueness of keys of an LRU cache.

- `TypeCorrect`, `CacheStaysCoherent`, `CacheIsInvisible`. Coherence is not inductive
  alone: the step that matters is the insertion by a thread that has left the first
  critical section. `IInv` adds `MutexHeld` (a thread is in a critical section
  exactly while it holds the lock) and `CallState` (what a thread past its lookup
  knows: the rows it inverted are not singular, the key of a thread in `hit` is still
  in the cache). From it every step of `DecodeCache` is a step of
  `DecodeMatrixService`, or a stutter: `Request` is `Call`, the three ways out are
  `Return`, the refusal is `Reject`.
- `CountersTellTheTruth`. The counters move one by one, so none equals another at
  every moment. `CountInv` writes each difference as the number of threads at
  certain positions (requests are hits, misses, and the calls that have counted
  nothing yet), and each step moves one thread into or out of one of these sets. A
  snapshot reads the counters one after another while they grow; what it has read so
  far is bounded by the counters it has yet to read.

### ReconstructProofs

- `TypeCorrect`, `PresentStayCodeword`, `OkIsTrue`, `CallsKeepToTargets`, each
  `ASSUME Careful`: without it `OkMeansRecovered` is false, as `MCReconstructRetry`
  shows. `IInv` adds `IsPlan` to the properties: a prepared workspace names decoding
  rows disjoint from the shards it recovers. That a failed call's marks stay within
  `missing` until they are undone is part of `PresentAreCodeword` itself. Each call
  path has a lemma (`Sound`): from a container whose present shards are the
  codeword's, it leaves present shards alone, writes only its targets, and, if it
  returns `Ok`, leaves them correct. The calls follow from these.
- `PathsGiveOneAnswer` needs no careful caller. It is a fact about the operators, by
  the three ways the scan of the container can end (refused, nothing missing, go),
  and needs of the behaviours only that a container keeps its form (`Held`). Under a mask
  (`PartialPathsAgree`) it is the same three ways, shard by shard.

### ParityUpkeepProofs

`TypeCorrect`, `ParityStaysInSync`, `BatchLeavesItsParity`, `VerdictsAreTrue`, from
`IInv`, which adds `BatchIsPartial` to the properties: the buffer of a batch under way
is the sum of the first `cur` shards it was fed, and at 0 it may hold anything, since
the next shard overwrites. The lemmas say that the encoders' loops compute these sums,
by induction on the shard index, and that adding the difference of two shards turns
the sum of one stripe into that of the other.

### StreamEncodeProofs

`TypeCorrect`, `ParityIsAlwaysAPrefix`, `OkMeansComplete`, `ErrorsAreOfFailures`. The
invariant is told in terms of `Base`, the column at which the running block begins:
`ReadingFrom` says how far each reader of the block has come and that the rest of its
buffer is zeros or still to be read; `WritingFrom` that what a writer has yet to write
is the parity of the columns after those it has written. `Prefixes` speaks of columns
so that one byte more is one column more; `FirstIsLeast` is the minimum that threads
compute over the failures so far.

### StreamReconstructProofs

- `TypeCorrect`, `CursorsHoldTheirShards`, `OkMeansWhole`, `AnswerIsOfTheWhole`, from
  an `IInv` with `InLoop`: during a call the present cursors are those it began with
  and reach at least to `pos`, the missing ones are exactly as long as `pos`. That is
  why the answer cannot depend on the length of a block.
- `VerdictIsOfAllUnread`, `SessionsKeepTheStripe`, about the calls of `verify_stream`
  as well. `SessionInv` adds that some number of columns has been read of all shards
  since the call began and that these columns were valid (`VerifiedUpTo`); the
  positions of the cursors stay within them.

### SliceCodingProofs

- `KernelsAreThoseAskedFor`: the two cells are set at different moments from an
  environment that may change in between, so `ChoiceInv` speaks of the set of values
  the variable has had (`held`): each cell is the answer to one of them. The priority
  list of the automatic choice ends with a backend that the machine has.
- `ThreadsHaveJobs`, proved and not run: a decision for threads makes at least two
  jobs (`ParallelIsShared`). It is the chunk arithmetic of `decide`, for any length and
  any policy.
- `EveryCallIsWhole` is an action property: what a call's jobs add up to when it
  begins. The jobs are a sequence of sequences of slices; `IsMatterOf` says which of
  them a byte is the matter of.
- `TypeCorrect`, `ParityIsTheProduct`. While a call runs a byte holds the sum of the
  first `m` inputs and exactly one job has the others to add, in order
  (`IsUnderWay`); a slice moves every byte in it from `m` to `m + 1` and leaves the
  others alone, since no other job has them. With `ProductsAssumption` the vectors'
  part, the tail and the affine map all add the same product. The sum is a recursive
  function of the number of inputs; its existence is a lemma (`SumsExist`), as the
  prover gives no meaning to a recursive definition by itself.

### LeopardGf16Proofs

- `CallsUseTheirOwnPlans`, `PlansStayWithinCapacity`. Two threads may miss the same plan
  and insert it twice, and one may push out what another is about to use. `PlanInv` says
  that every entry of the cache holds the plan of its own key, that there are no more
  entries than the capacity, and that a plan in use is that of its call; a key determines
  the shape and the losses, hence the plan (`KeyDeterminesPlan`).
- `TypeCorrect16`, from `TypedInv`. `TypeOK` says of the work areas that threads and workers
  keep that they are whole areas of field elements, which is what the plans and the butterflies
  need of them and have to leave behind. The entries of the tables are elements of the field:
  each is followed from the width and the basis (`SpanIs`, `LogLutIs`, `ExpLutIs`,
  `FftSkewIs`, `LogWalshIs`, `compute_error_locs_Is`). Every plan names only lanes that
  the area has and positions that the skew table has (`FftPlanIs`, `IfftPlanIs`,
  `EncodePlanIs`, `DecodePlanIs`), every butterfly keeps an area an area (`PairAlike`,
  `RunStepsAlike`), and chunks cover a shard exactly (`ChunksAre`, `ChunkOfElement`).
- `ReusedAreaIsAsNew`. `AreasAlike` says of two work areas that they agree on the columns
  of the chunk; all four steps of a reconstruction keep it, and the first establishes it,
  whatever the areas held (`ChunkAlike`; for an encoding `TailIsZeroed`, `EncodingAlike`).
- `ParityIsOfTheCode16`, `RecoveredIsOfTheCode16`, from `CodeInv`: shards that are there
  are the code's, and so are the chunks that are done of shards that are not. These have a
  hypothesis, `TransformsComputeTheCode`: on a work area of zeros, one chunk's encoding
  gives the code's parity, and one chunk's reconstruction, from any `d` of the code's
  shards or more, the others. It is about the transforms alone: no thread, cache, byte, or
  earlier chunk occurs in it, and it is what the theorems add to it that is concurrent or
  stale. TLC evaluates it on the instance, the encoding half for every shape that encodes,
  the other for the four codes that can be restored, with every set of shards that is
  enough, and for every chunk (the `ASSUME` of `MCLeopardGf16`), so that it is not vacuous.

The assumptions are those of the modules: the width is 4, 8 or 16 bits, the powers of the
generator and the sums of the basis are the same elements, and every logarithm occurs
(`TablesAssumption` of `LeopardField`; the program's tables have it), chunks are whole
blocks (`BlocksAssumption`), and a codec has no more shards than the field has elements
(`ShapesAssumption`, which `with_options` enforces). The prover evaluates powers of numbers
only, so the bounds of the lanes are argued over the 17 powers of two up to 2^16.

### DecodeIdxProofs

The longest, because it proves its algebra from the tables: `NibbleAssumption` and
`TablesAssumption` are all it knows of the field.

- The field: sums and products have the laws of a field, every element but 0 an
  inverse (`Sums`, `Products`, `Distributes`, `Inverses`). Sums of products are linear
  in both vectors, and a row times a matrix times a vector may be bracketed either way
  (`DotsExchange`).
- `InvertInverts`. Each step of the elimination replaces rows by combinations of rows,
  and can be undone by such a replacement (`Equivalent`); when it ends, the left half
  is the identity (`Echelon`, then `Reduced`), so the right half is an inverse from
  one side, and, the rows of either half being combinations of the other's, from both.
- `MatricesAreSystematic`, `AnyShardsSuffice`: the codes are MDS. A way down that ends
  early leaves a vector other than zero that all rows take to zero
  (`StuckHasKernel`), so it is enough that no `d` rows have one (`NoKernel`). For
  Vandermonde rows that vector would be a polynomial with more roots than its degree
  (`RootsAreFew`, by division). For Cauchy rows, one row and one column can be taken
  out of the system (`CauchyStep`). JerasureLike starts with Vandermonde rows between
  two unit rows; swapping rows, operations on columns and scaling leave "no `d` rows
  have a kernel" alone, which is also why a pivot is always found and no element below
  the identity is zero, so that the construction never fails. `NeverRefused` is what
  it means for the calls.
- `TypeCorrect`, `ProgressiveDecoding`, `SlotsHoldTheFed`, from `IInv`: a buffer is the
  sum of the parts of one of the sets it may have been fed (`BufferIs`), where a part
  is told by the decode matrix (`ReducedRow`). An arrival and a merge flip membership
  in the set as they add bytes (`PartToggles`), and the part of all is the shard
  (`PartOfAll`).
- `SlotsAreOfTheFed` and `DecodesWhatItCan` speak of determinants instead. `Det` is
  defined for up to three rows, and so are the two theorems (`SmallCodecs`): it is
  linear and alternating in its rows, which gives Cramer's rule (`DetCramer`), and it
  is zero exactly where the elimination finds no inverse (`InvertedHasDet`,
  `DetInverts`).

`CustomsAreBuilt` is the hypothesis of most of these: a codec of a caller's matrix
exists only if its matrix could be built (`with_options` returns the error otherwise).
For the other three modes it is proved.

Induction: the library's induction theorems take an operator as a parameter, which no
installed prover instantiates. `LeastNat` and `UpTo`, at the head of the modules that
need them, do the same work with the *set* of the numbers for which a statement holds.

### Only model-checked

- Liveness: `CallsEnd`, `CallReturns`, `CallsReturn`. The prover has no fairness.
- `TransformsComputeTheCode` of `LeopardGf16`: that the transforms compute an
  interpolation is an induction over their levels and a good deal of algebra. What else
  `ParityIsOfTheCode` and `RecoveredIsOfTheCode` say there is proved from it.
- `TypeOK`, `ParityIsOfTheCode` and `ImplementsErasureCode` of `LeopardGf8`. It runs the
  same tables, plans and butterflies, and the lemmas about those are about the modules
  they share; its own steps are not taken up.
- `SlotsAreOfTheFed` and `DecodesWhatItCan` of codecs with more than three data shards:
  the model's `Det` stops there. What they say without determinants (a buffer is the
  sum of the parts of the decode matrix; the inverse is one) is proved for any number.

## Not modelled, and why

- `galois_16.rs` (polynomial arithmetic without state), `aligned.rs` (an
  allocation), the SVE stub. The nibble kernels of one vector width are one
  operator: a vector is modelled by what it does to each byte.
- Of codec construction: family resolution, `split` and `join`, normalisation of
  the cache capacity (the cache is right for any capacity), and the rounding of a
  Leopard shard length, which could only saturate within 63 of the top of `usize`.
- Of the parallel policy: how it is read from the environment and how the sizes of
  the caches are found. A host is given with its policy.
- Containers whose present shards differ in length on the Leopard path
  (`core/reconstruct.rs:670`): what a slice past a shard's end reads is memory
  that the model does not have.
- The checks of a stream call before its loop (family, counts, clamp).
- Runtime profile counters: nothing reads them back.
- Benches, fuzz targets, C kernels as such, wasm glue, scripts.

## What is left

Proofs: `TypeOK` of `LeopardGf8` and the steps of `ImplementsErasureCode`, from the lemmas
about `LeopardField` and `LeopardTransform` that `LeopardGf16Proofs` has; then
`TransformsComputeTheCode` itself, level by level of the transform.
