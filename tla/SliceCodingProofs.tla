-------------------------- MODULE SliceCodingProofs ---------------------------
(***************************************************************************)
(* Proofs about the choice of the kernels and about the cutting of the work,  *)
(* for every set of machines, every code and every moment at which the        *)
(* program changes RSE_BACKEND_OVERRIDE.                                      *)
(***************************************************************************)
EXTENDS SliceCoding, WellFoundedInduction, SequenceTheorems, TLAPS

(* ------------------------ facts about the naturals ----------------------- *)

\* A set of naturals that is not empty has a least element.
LEMMA LeastNat ==
  ASSUME NEW S, S \subseteq Nat, S # {}
  PROVE  \E m \in S : \A k \in S : m <= k
<1> DEFINE less == OpToRel(<, Nat)
<1>1. IsWellFoundedOn(less, Nat)
  BY NatLessThanWellFounded, Zenon
<1>2. \A j, k \in Nat : j < k => <<j, k>> \in less
  BY DEF OpToRel
<1> HIDE DEF less
<1>3. PICK m \in S : \A k \in S : <<k, m>> \notin less
  BY <1>1, WFMin
<1>4. m \in Nat /\ \A k \in S : k \in Nat
  OBVIOUS
<1>5. \A k \in S : ~(k < m)
  BY <1>2, <1>3, <1>4
<1> QED
  BY <1>4, <1>5

\* What holds of 0, and of k + 1 when it holds of k, holds up to n.
LEMMA UpTo ==
  ASSUME NEW n \in Nat, NEW S, 0 \in S,
         \A k \in 0 .. n - 1 : k \in S => k + 1 \in S
  PROVE  \A k \in 0 .. n : k \in S
<1> SUFFICES ASSUME (0 .. n) \ S # {}
             PROVE  FALSE
  OBVIOUS
<1>1. PICK m \in (0 .. n) \ S : \A k \in (0 .. n) \ S : m <= k
  <2>1. (0 .. n) \ S \subseteq Nat
    OBVIOUS
  <2> QED
    BY <2>1, LeastNat
<1>2. m \in 1 .. n
  BY <1>1
<1>3. m - 1 \in 0 .. n - 1 /\ (m - 1) + 1 = m
  BY <1>2
<1>4. m - 1 \in S
  BY <1>1, <1>3
<1> QED
  BY <1>1, <1>3, <1>4

Generated == {"generated-avx2", "generated-neon"}

\* A kernel that may run under a value of the variable.
MayRun(m, kernel, value) ==
  /\ value \in Backends => kernel \in Backends
  /\ value \in Backends /\ Supports(m, value) => kernel = value

\* A kernel that may run on the host, under a value that the variable had.
Fits(kernel) ==
  /\ Instructions[kernel] \subseteq host.cpu
  /\ host.std => \E value \in held : MayRun(host, kernel, value)

\* A backend once resolved, and the leave to run generated code once read, are
\* answers to a value that the variable had since the codec was first used.
BackendIsOfHeld ==
  active_backend # Unresolved => active_backend \in Backends /\ Fits(active_backend)

LeaveIsOfHeld ==
  TRUE \in generated_allowed /\ host.std => \E value \in held : value \notin Backends

KernelOfCallIsOfHeld ==
  call.kernel # NoBackend => call.kernel \in Generated /\ Fits(call.kernel)

\* Until the first call nothing is resolved, so that earlier values of the
\* variable may be forgotten.
NothingBeforeUse ==
  calls = 0 => /\ active_backend = Unresolved
               /\ generated_allowed = {}
               /\ call = Idle
               /\ tasks = <<>>
               /\ ran = {}

ChoiceInv ==
  /\ host \in Hosts
  /\ calls \in Nat
  /\ environment \in held
  /\ BackendIsOfHeld
  /\ LeaveIsOfHeld
  /\ KernelOfCallIsOfHeld
  /\ NothingBeforeUse
  /\ RunsWhatWasAsked

----------------------------------------------------------------------------
(* The choice of a backend.                                                  *)

\* The search through the priorities ends, with a backend that the machine has.
LEMMA AutoSelectSupported ==
  ASSUME NEW m
  PROVE  auto_select_backend(m) \in Backends /\ Supports(m, auto_select_backend(m))
<1> DEFINE P(i) == Supports(m, Priority[i])
<1> DEFINE good == {i \in 1 .. 9 : P(i)}
<1>1. DOMAIN Priority = 1 .. 9 /\ Priority[9] = "scalar"
  BY DEF Priority
<1>2. \A i \in 1 .. 9 : Priority[i] \in Backends
  BY DEF Priority, Backends
<1>3. Supports(m, "scalar") /\ "scalar" \in Backends
  BY DEF Supports, Backends
<1>4. PICK i \in good : \A k \in good : i <= k
  <2>1. 9 \in good
    BY <1>1, <1>3
  <2>2. good \subseteq Nat
    OBVIOUS
  <2> HIDE DEF good
  <2> QED
    BY <2>1, <2>2, LeastNat
<1>5. i \in DOMAIN Priority /\ P(i) /\ \A j \in 1 .. i - 1 : ~P(j)
  <2> HIDE DEF P
  <2>1. i \in 1 .. 9 /\ P(i)
    BY <1>4
  <2>2. ASSUME NEW j \in 1 .. i - 1 PROVE ~P(j)
    BY <1>4, <2>1
  <2> QED
    BY <1>1, <2>1, <2>2
<1> DEFINE first == CHOOSE n \in DOMAIN Priority : P(n) /\ \A j \in 1 .. n - 1 : ~P(j)
<1>6. first \in DOMAIN Priority /\ P(first)
  <2> HIDE DEF P
  <2> QED
    BY <1>5
<1>7. auto_select_backend(m) = IF m.std THEN Priority[first] ELSE "scalar"
  BY DEF auto_select_backend
<1> HIDE DEF first
<1> QED
  BY <1>1, <1>2, <1>3, <1>6, <1>7

\* A backend that the machine has finds its instructions there.
LEMMA SupportedHasInstructions ==
  ASSUME NEW m, NEW b \in Backends, Supports(m, b)
  PROVE  Instructions[b] \subseteq m.cpu
<1>1. Instructions[b] = Needs[b]
  BY DEF Instructions, Backends
<1>2. CASE b \in {"scalar", "simd-c"}
  BY <1>1, <1>2 DEF Needs, Backends
<1>3. CASE b \notin {"scalar", "simd-c"}
  BY <1>1, <1>3 DEF Supports
<1> QED
  BY <1>2, <1>3

\* What the process settles on is what its variable asks for.
LEMMA RuntimeSelectFits ==
  ASSUME NEW m \in Hosts, NEW value
  PROVE  LET b == runtime_select_backend(m, value)
         IN /\ b \in Backends
            /\ Instructions[b] \subseteq m.cpu
            /\ m.std => MayRun(m, b, value)
<1> DEFINE b == runtime_select_backend(m, value)
<1>1. m.std \in BOOLEAN
  BY HostAssumption
<1>2. "scalar" \in Backends /\ Supports(m, "scalar") /\ NoBackend \notin Backends
  BY DEF Supports, Backends, NoBackend
<1>3. b \in Backends /\ Supports(m, b) /\ (m.std => MayRun(m, b, value))
  <2>1. CASE Simd(m) = {}
    <3>1. b = "scalar"
      BY <2>1 DEF runtime_select_backend
    <3>2. ASSUME value \in Backends, Supports(m, value)
          PROVE  value = "scalar"
      BY <2>1, <3>2 DEF Supports, SupportsSimdC
    <3> QED
      BY <1>2, <3>1, <3>2 DEF MayRun
  <2>2. CASE Simd(m) # {} /\ m.std /\ value \in Backends /\ Supports(m, value)
    <3>1. b = value
      BY <1>2, <2>2 DEF runtime_select_backend, select_override_backend
    <3> QED
      BY <2>2, <3>1 DEF MayRun
  <2>3. CASE Simd(m) # {} /\ ~(m.std /\ value \in Backends /\ Supports(m, value))
    <3>1. b = auto_select_backend(m)
      BY <1>1, <1>2, <2>3 DEF runtime_select_backend, select_override_backend
    <3> QED
      BY <2>3, <3>1, AutoSelectSupported DEF MayRun
  <2> QED
    BY <2>1, <2>2, <2>3
<1> QED
  BY <1>3, SupportedHasInstructions

\* A generated encoder is chosen for processors that can run it only.
LEMMA GeneratedFits ==
  ASSUME NEW m \in Hosts, NEW d, NEW p, try_encode_codegen(m, d, p) # NoBackend
  PROVE  /\ try_encode_codegen(m, d, p) \in Generated
         /\ Instructions[try_encode_codegen(m, d, p)] \subseteq m.cpu
<1>1. Instructions["generated-avx2"] = {"avx2"} /\ Instructions["generated-neon"] = {"neon"}
  BY DEF Instructions
<1>2. CASE <<d, p>> \in GENERATED_CONFIGS /\ "avx2" \in Simd(m) /\ "avx2" \in m.cpu
  <2>1. "neon" \notin Simd(m)
    BY <1>2 DEF Simd
  <2>2. try_encode_codegen(m, d, p) = "generated-avx2"
    BY <1>2, <2>1 DEF try_encode_codegen
  <2> QED
    BY <1>1, <1>2, <2>2 DEF Generated
<1>3. CASE /\ ~(<<d, p>> \in GENERATED_CONFIGS /\ "avx2" \in Simd(m) /\ "avx2" \in m.cpu)
           /\ <<d, p>> \in GENERATED_CONFIGS /\ "neon" \in Simd(m)
  <2>1. try_encode_codegen(m, d, p) = "generated-neon"
    BY <1>3 DEF try_encode_codegen
  <2>2. "neon" \in m.cpu
    BY <1>3, HostAssumption
  <2> QED
    BY <1>1, <2>1, <2>2 DEF Generated
<1>4. CASE /\ ~(<<d, p>> \in GENERATED_CONFIGS /\ "avx2" \in Simd(m) /\ "avx2" \in m.cpu)
           /\ ~(<<d, p>> \in GENERATED_CONFIGS /\ "neon" \in Simd(m))
  BY <1>4 DEF try_encode_codegen
<1> QED
  BY <1>2, <1>3, <1>4

----------------------------------------------------------------------------
(* The kernels that run.                                                     *)

\* What may run goes on to fit as the variable takes further values.
LEMMA FitsStays ==
  ASSUME NEW kernel, Fits(kernel), host' = host, held \subseteq held'
  PROVE  Fits(kernel)'
<1>1. \A value : MayRun(host, kernel, value) => MayRun(host', kernel, value)
  BY DEF MayRun
<1> QED
  BY <1>1 DEF Fits

LEMMA RanIsFit == RunsWhatWasAsked <=> \A kernel \in ran : Fits(kernel)
BY DEF RunsWhatWasAsked, Fits, MayRun

LEMMA ChoiceInit == Init => ChoiceInv
BY DEF Init, ChoiceInv, BackendIsOfHeld, LeaveIsOfHeld, KernelOfCallIsOfHeld, NothingBeforeUse,
       RunsWhatWasAsked, Idle

\* The steps that choose nothing.
LEMMA NoChoice ==
  ASSUME ChoiceInv, host' = host, held \subseteq held', environment' \in held', calls' \in Nat,
         active_backend' = active_backend, generated_allowed' = generated_allowed,
         call' = call \/ call'.kernel = NoBackend,
         ran' = ran, NothingBeforeUse'
  PROVE  ChoiceInv'
<1>1. \A kernel : Fits(kernel) => Fits(kernel)'
  BY FitsStays
<1>2. BackendIsOfHeld'
  BY <1>1 DEF ChoiceInv, BackendIsOfHeld
<1>3. LeaveIsOfHeld'
  BY DEF ChoiceInv, LeaveIsOfHeld
<1>4. KernelOfCallIsOfHeld'
  BY <1>1 DEF ChoiceInv, KernelOfCallIsOfHeld
<1>5. RunsWhatWasAsked'
  <2>1. \A kernel \in ran : Fits(kernel)
    BY RanIsFit DEF ChoiceInv
  <2>2. \A kernel \in ran' : Fits(kernel)'
    BY <1>1, <2>1
  <2> QED
    BY <2>2 DEF RunsWhatWasAsked, Fits, MayRun
<1> QED
  BY <1>2, <1>3, <1>4, <1>5 DEF ChoiceInv

LEMMA SetOverrideChoice ==
  ASSUME ChoiceInv, NEW value \in Overrides, SetOverride(value)
  PROVE  ChoiceInv'
<1>1. CASE calls = 0
  <2>1. /\ active_backend' = Unresolved /\ generated_allowed' = {}
        /\ call' = Idle /\ tasks' = <<>> /\ ran' = {}
        /\ environment' \in held' /\ host' = host /\ calls' = calls
    BY <1>1 DEF ChoiceInv, SetOverride, NothingBeforeUse
  <2> QED
    BY <2>1 DEF ChoiceInv, NothingBeforeUse, BackendIsOfHeld, LeaveIsOfHeld, KernelOfCallIsOfHeld,
                RunsWhatWasAsked, Idle
<1>2. CASE calls # 0
  <2>1. held \subseteq held' /\ environment' \in held'
    BY <1>2 DEF SetOverride
  <2>2. NothingBeforeUse'
    BY <1>2 DEF SetOverride, NothingBeforeUse
  <2> QED
    BY <2>1, <2>2, NoChoice DEF SetOverride, ChoiceInv
<1> QED
  BY <1>1, <1>2

\* The calls that use threads leave the kernel to the process.
LEMMA BeginChoice ==
  ASSUME ChoiceInv, NEW entry, NEW input, NEW parallel, NEW jobs,
         Begin(entry, input, NoBackend, parallel, jobs), UNCHANGED generated_allowed
  PROVE  ChoiceInv'
<1>1. calls' \in Nat /\ calls' # 0
  BY DEF Begin, ChoiceInv
<1>2. NothingBeforeUse'
  BY <1>1 DEF NothingBeforeUse
<1>3. call'.kernel = NoBackend
  BY DEF Begin
<1> QED
  BY <1>1, <1>2, <1>3, NoChoice DEF Begin, ChoiceInv

\* encode_sep reads the variable unless it has its answer already.
LEMMA EncodeSepChoice ==
  ASSUME ChoiceInv, encode_sep
  PROVE  ChoiceInv'
<1> DEFINE allowed == IF generated_allowed = {}
                      THEN generated_encode_allowed(host, environment)
                      ELSE TRUE \in generated_allowed
           generated == IF allowed
                        THEN try_encode_codegen(host, data_shard_count, parity_shard_count)
                        ELSE NoBackend
<1>1. /\ generated_allowed' = {allowed}
      /\ call'.kernel = generated
      /\ calls' = calls + 1
      /\ host' = host /\ held' = held /\ environment' = environment
      /\ active_backend' = active_backend /\ ran' = ran
  BY DEF encode_sep, Begin
<1>2. calls' \in Nat /\ calls' # 0
  BY <1>1 DEF ChoiceInv
<1>3. allowed /\ host.std => \E value \in held : value \notin Backends
  BY DEF ChoiceInv, LeaveIsOfHeld, generated_encode_allowed
<1>4. generated # NoBackend => generated \in Generated /\ Fits(generated)
  <2>1. SUFFICES ASSUME allowed, generated # NoBackend
                 PROVE  generated \in Generated /\ Fits(generated)
    OBVIOUS
  <2>2. /\ generated = try_encode_codegen(host, data_shard_count, parity_shard_count)
        /\ host \in Hosts
    BY <2>1 DEF ChoiceInv
  <2>3. generated \in Generated /\ Instructions[generated] \subseteq host.cpu
    BY <2>1, <2>2, GeneratedFits
  <2>4. host.std => \E value \in held : MayRun(host, generated, value)
    BY <1>3, <2>1 DEF MayRun
  <2> QED
    BY <2>3, <2>4 DEF Fits
<1> HIDE DEF allowed, generated
<1>5. \A kernel : Fits(kernel) => Fits(kernel)'
  BY <1>1, FitsStays
<1>6. BackendIsOfHeld'
  BY <1>1, <1>5 DEF ChoiceInv, BackendIsOfHeld
<1>7. LeaveIsOfHeld'
  BY <1>1, <1>3 DEF LeaveIsOfHeld
<1>8. KernelOfCallIsOfHeld'
  BY <1>1, <1>4, <1>5 DEF KernelOfCallIsOfHeld
<1>9. NothingBeforeUse'
  BY <1>2 DEF NothingBeforeUse
<1>10. RunsWhatWasAsked'
  BY <1>1 DEF ChoiceInv, RunsWhatWasAsked
<1> QED
  BY <1>1, <1>2, <1>6, <1>7, <1>8, <1>9, <1>10 DEF ChoiceInv

\* A slice is coded by the encoder of its call or by the backend of the process,
\* which the first such slice settles.
LEMMA CodeSliceChoice ==
  ASSUME ChoiceInv, NEW t \in DOMAIN tasks, CodeSlice(t)
  PROVE  ChoiceInv'
<1> DEFINE backend == IF active_backend = Unresolved
                      THEN runtime_select_backend(host, environment)
                      ELSE active_backend
           kernel == IF call.kernel = NoBackend THEN backend ELSE call.kernel
<1>1. /\ active_backend' = IF call.kernel = NoBackend THEN backend ELSE active_backend
      /\ ran' = ran \cup {kernel}
      /\ host' = host /\ held' = held /\ environment' = environment /\ calls' = calls
      /\ generated_allowed' = generated_allowed /\ call' = call
  BY DEF CodeSlice
<1>2. calls # 0
  BY DEF ChoiceInv, NothingBeforeUse
<1>3. backend \in Backends /\ Fits(backend)
  <2>1. CASE active_backend = Unresolved
    BY <2>1, RuntimeSelectFits DEF ChoiceInv, Fits
  <2>2. CASE active_backend # Unresolved
    BY <2>2 DEF ChoiceInv, BackendIsOfHeld
  <2> QED
    BY <2>1, <2>2
<1> HIDE DEF backend
<1>4. Fits(kernel)
  BY <1>3 DEF ChoiceInv, KernelOfCallIsOfHeld
<1> HIDE DEF kernel
<1>5. \A k : Fits(k) => Fits(k)'
  BY <1>1, FitsStays
<1>6. BackendIsOfHeld'
  BY <1>1, <1>3, <1>5 DEF ChoiceInv, BackendIsOfHeld
<1>7. LeaveIsOfHeld'
  BY <1>1 DEF ChoiceInv, LeaveIsOfHeld
<1>8. KernelOfCallIsOfHeld'
  BY <1>1, <1>5 DEF ChoiceInv, KernelOfCallIsOfHeld
<1>9. NothingBeforeUse'
  BY <1>1, <1>2 DEF NothingBeforeUse
<1>10. RunsWhatWasAsked'
  <2>1. \A k \in ran : Fits(k)
    BY RanIsFit DEF ChoiceInv
  <2>2. \A k \in ran' : Fits(k)'
    BY <1>1, <1>4, <1>5, <2>1
  <2> QED
    BY <2>2 DEF RunsWhatWasAsked, Fits, MayRun
<1> QED
  BY <1>1, <1>6, <1>7, <1>8, <1>9, <1>10 DEF ChoiceInv

LEMMA ReturnChoice ==
  ASSUME ChoiceInv, Return
  PROVE  ChoiceInv'
<1>1. calls # 0
  BY DEF ChoiceInv, NothingBeforeUse, Return
<1>2. NothingBeforeUse'
  BY <1>1 DEF Return, NothingBeforeUse
<1>3. call'.kernel = NoBackend
  BY DEF Return, Idle
<1> QED
  BY <1>2, <1>3, NoChoice DEF Return, ChoiceInv

LEMMA ChoiceNext == ChoiceInv /\ [Next]_vars => ChoiceInv'
<1> SUFFICES ASSUME ChoiceInv, [Next]_vars
             PROVE  ChoiceInv'
  OBVIOUS
<1>1. ASSUME NEW value \in Overrides, SetOverride(value) PROVE ChoiceInv'
  BY <1>1, SetOverrideChoice
<1>2. CASE encode_sep
  BY <1>2, EncodeSepChoice
<1>3. CASE encode_sep_par
  BY <1>3, BeginChoice DEF encode_sep_par
<1>4. ASSUME NEW input \in 1 .. data_shard_count, encode_single_sep_par(input) PROVE ChoiceInv'
  BY <1>4, BeginChoice DEF encode_single_sep_par
<1>5. ASSUME NEW t \in DOMAIN tasks, CodeSlice(t) PROVE ChoiceInv'
  BY <1>5, CodeSliceChoice
<1>6. CASE Return
  BY <1>6, ReturnChoice
<1>7. CASE UNCHANGED vars
  <2>1. NothingBeforeUse'
    BY <1>7 DEF vars, ChoiceInv, NothingBeforeUse
  <2> QED
    BY <1>7, <2>1, NoChoice DEF vars, ChoiceInv
<1> QED
  BY <1>1, <1>2, <1>3, <1>4, <1>5, <1>6, <1>7 DEF Next

\* Whenever the variable changes and whichever calls come when, a kernel that
\* runs finds its instructions and was one to run under a value that the
\* variable had since the codec was first used.
THEOREM KernelsAreThoseAskedFor == Spec => []RunsWhatWasAsked
<1>1. ChoiceInv => RunsWhatWasAsked
  BY DEF ChoiceInv
<1> QED
  BY <1>1, ChoiceInit, ChoiceNext, PTL DEF Spec

----------------------------------------------------------------------------
(* Cutting the work.                                                         *)

LEMMA DivBounds ==
  ASSUME NEW a \in Nat, NEW b \in Nat \ {0}
  PROVE  a \div b \in Nat /\ b * (a \div b) <= a /\ a < b * (a \div b) + b
OBVIOUS

\* A quotient rounded up is 0 for 0 only.
LEMMA DivCeilPositive ==
  ASSUME NEW a \in Nat \ {0}, NEW b \in Nat \ {0}
  PROVE  div_ceil(a, b) \in Nat \ {0}
<1> DEFINE q == (a + b - 1) \div b
<1>1. a + b - 1 \in Nat
  OBVIOUS
<1>2. q \in Nat /\ a + b - 1 < b * q + b
  BY <1>1, DivBounds
<1>3. q # 0
  <2> HIDE DEF q
  <2> QED
    BY <1>2
<1> QED
  BY <1>2, <1>3 DEF div_ceil

LEMMA DivCeilByOne == \A a \in Nat : div_ceil(a, 1) = a
BY DEF div_ceil

\* What two or more share is less for each than the whole.
LEMMA ShareIsLess ==
  ASSUME NEW len \in Nat, len >= 2, NEW b \in Nat, b >= 2
  PROVE  div_ceil(len, b) < len
<1> DEFINE q == (len + b - 1) \div b
<1>1. len + b - 1 \in Nat
  OBVIOUS
<1>2. q \in Nat /\ b * q <= len + b - 1
  BY <1>1, DivBounds
<1>3. (b - 1) * (len - 1) = b * len - b - len + 1 /\ (b - 1) * (len - 1) >= 1
  OBVIOUS
<1>4. q < len
  <2> HIDE DEF q
  <2>1. SUFFICES ASSUME q >= len PROVE FALSE
    BY <1>2
  <2>2. b * q >= b * len
    BY <1>2, <2>1
  <2> QED
    BY <1>2, <1>3, <2>2
<1> QED
  BY <1>4 DEF div_ceil

\* Chunks shorter than the shard are two at least.
LEMMA ShortChunksAreMany ==
  ASSUME NEW len \in Nat, NEW c \in Nat \ {0}, c < len
  PROVE  div_ceil(len, c) \in Nat /\ div_ceil(len, c) >= 2
<1> DEFINE q == (len + c - 1) \div c
<1>1. len + c - 1 \in Nat
  OBVIOUS
<1>2. q \in Nat /\ len + c - 1 < c * q + c
  BY <1>1, DivBounds
<1>3. q >= 2
  <2> HIDE DEF q
  <2>1. SUFFICES ASSUME q \in {0, 1} PROVE FALSE
    BY <1>2
  <2> QED
    BY <1>2, <2>1
<1> QED
  BY <1>2, <1>3 DEF div_ceil

\* A decision for threads is made for shards that are not empty and for two
\* jobs or more, and a lone output longer than the smallest chunk is then cut
\* into chunks shorter than it.
LEMMA ThreadsCut ==
  ASSUME NEW m \in Hosts, NEW len \in Nat, NEW data \in Nat, NEW outs \in Nat,
         decide(m.policy, len, data, outs, m.available).use_parallel
  PROVE  LET chunk_len == decide(m.policy, len, data, outs, m.available).chunk_len
         IN /\ outs # 0
            /\ chunk_len \in Nat \ {0}
            /\ outs = 1 /\ m.policy.min_parallel_shard_bytes > CODE_SLICE_MIN_CHUNK_BYTES =>
                 chunk_len < len
<1> DEFINE policy == m.policy
           jobs   == Jobs(policy, len, data, outs, m.available)
           share  == div_ceil(len, AtLeast(1, div_ceil(jobs, outs)))
           most   == AtLeast(policy.min_bytes_per_job, CODE_SLICE_MIN_CHUNK_BYTES)
           bytes  == AtMost(AtLeast(share, CODE_SLICE_MIN_CHUNK_BYTES), most)
<1>1. /\ policy.min_parallel_shard_bytes \in Nat /\ policy.min_bytes_per_job \in Nat
      /\ policy.max_jobs \in Nat /\ policy.l2_cache_bytes \in Nat /\ m.available \in Nat
  BY HostAssumption
<1>2. CODE_SLICE_MIN_CHUNK_BYTES \in Nat \ {0}
  BY ChunkAssumption
<1>3. most \in Nat \ {0} /\ most >= CODE_SLICE_MIN_CHUNK_BYTES
  BY <1>1, <1>2 DEF AtLeast
<1>4. /\ len > 0 /\ data > 0 /\ outs > 0
      /\ ~(len < policy.min_parallel_shard_bytes \/ jobs < 2)
      /\ decide(policy, len, data, outs, m.available).chunk_len = AtMost(bytes, len)
  <2> HIDE DEF policy, jobs, share, most, bytes
  <2>1. decide(policy, len, data, outs, m.available) =
          CASE len = 0 \/ data = 0 \/ outs = 0 ->
                 [use_parallel |-> FALSE, jobs |-> 1, chunk_len |-> len]
            [] len > 0 /\ data > 0 /\ outs > 0
                 /\ (len < policy.min_parallel_shard_bytes \/ jobs < 2) ->
                 [use_parallel |-> FALSE, jobs |-> 1, chunk_len |-> AtMost(serial_chunk_len(len), len)]
            [] OTHER ->
                 [use_parallel |-> TRUE, jobs |-> jobs, chunk_len |-> AtMost(bytes, len)]
    BY DEF decide, jobs, share, most, bytes
  <2>2. decide(policy, len, data, outs, m.available).use_parallel
    BY DEF policy
  <2>3. CASE len = 0 \/ data = 0 \/ outs = 0
    BY <2>1, <2>2, <2>3
  <2>4. CASE len > 0 /\ data > 0 /\ outs > 0
               /\ (len < policy.min_parallel_shard_bytes \/ jobs < 2)
    BY <2>1, <2>2, <2>4
  <2>5. CASE /\ len > 0 /\ data > 0 /\ outs > 0
             /\ ~(len < policy.min_parallel_shard_bytes \/ jobs < 2)
    BY <2>1, <2>5
  <2> QED
    BY <2>3, <2>4, <2>5
<1>5. jobs \in Nat
  <2> DEFINE count == ChunkCount(policy, len, data + outs)
  <2>1. data + outs \in Nat \ {0}
    BY <1>4
  <2>2. policy.l2_cache_bytes \div (data + outs) \in Nat
    BY <1>1, <2>1, DivBounds
  <2>3. div_ceil(len, most) \in Nat
    BY <1>3, <1>4, DivCeilPositive
  <2>4. ASSUME policy.l2_cache_bytes \div (data + outs) > 0
        PROVE  div_ceil(len, policy.l2_cache_bytes \div (data + outs)) \in Nat
    BY <1>4, <2>2, <2>4, DivCeilPositive
  <2>5. count \in Nat
    <3> HIDE DEF policy
    <3> QED
      BY <2>2, <2>3, <2>4 DEF ChunkCount, AtLeast
  <2>6. outs * count \in Nat
    <3> HIDE DEF count
    <3> QED
      BY <2>5
  <2> HIDE DEF count
  <2>7. jobs = AtMost(AtLeast(IF policy.max_jobs = 0 THEN m.available
                              ELSE AtMost(policy.max_jobs, m.available), 1),
                      IF outs <= 2 THEN count ELSE outs * count)
    BY DEF Jobs, count
  <2> HIDE DEF policy, jobs
  <2> QED
    BY <1>1, <2>5, <2>6, <2>7 DEF AtMost, AtLeast
<1> HIDE DEF policy, jobs
<1>6. share \in Nat \ {0}
  <2>1. div_ceil(jobs, outs) \in Nat
    BY <1>4, <1>5, DivCeilPositive
  <2>2. AtLeast(1, div_ceil(jobs, outs)) \in Nat \ {0}
    BY <2>1 DEF AtLeast
  <2> QED
    BY <1>4, <2>2, DivCeilPositive
<1>7. ASSUME outs = 1, m.policy.min_parallel_shard_bytes > CODE_SLICE_MIN_CHUNK_BYTES
      PROVE  share < len /\ CODE_SLICE_MIN_CHUNK_BYTES < len
  <2>1. AtLeast(1, div_ceil(jobs, outs)) = jobs
    BY <1>4, <1>5, <1>7, DivCeilByOne DEF AtLeast
  <2>2. CODE_SLICE_MIN_CHUNK_BYTES < len
    BY <1>1, <1>2, <1>4, <1>7 DEF policy
  <2>3. len >= 2
    BY <1>2, <2>2
  <2> QED
    BY <1>4, <1>5, <2>1, <2>2, <2>3, ShareIsLess
<1> HIDE DEF share, most
<1>8. /\ bytes \in Nat \ {0}
      /\ share < len /\ CODE_SLICE_MIN_CHUNK_BYTES < len => bytes < len
  BY <1>2, <1>3, <1>6 DEF AtLeast, AtMost
<1> HIDE DEF bytes
<1>9. AtMost(bytes, len) \in Nat \ {0} /\ (bytes < len => AtMost(bytes, len) < len)
  BY <1>4, <1>8 DEF AtMost
<1> QED
  BY <1>4, <1>7, <1>8, <1>9 DEF policy

\* The length of a function that numbers its arguments from 1.
LEMMA NumberedLength ==
  ASSUME NEW n \in Nat, NEW f, f = [i \in 1 .. n |-> f[i]]
  PROVE  Len(f) = n
<1> DEFINE S == {f[i] : i \in 1 .. n}
<1>1. f \in [1 .. n -> S]
  OBVIOUS
<1> HIDE DEF S
<1>2. f \in Seq(S)
  BY <1>1, SeqDef
<1>3. Len(f) \in Nat /\ DOMAIN f = 1 .. Len(f) /\ DOMAIN f = 1 .. n
  BY <1>1, <1>2, LenProperties
<1> QED
  BY <1>3

Worthwhile ==
  /\ call.entry = "encode_sep_par" /\ call.parallel
  /\ host.policy.min_parallel_shard_bytes > CODE_SLICE_MIN_CHUNK_BYTES

\* A decision for threads is worth its cost: the work of encode_sep_par is in at
\* least two jobs, provided that no shard as short as the smallest chunk asks
\* for threads (code_some_slices_par_chunked and decide have to agree).
ParallelIsShared == Worthwhile => Len(tasks) >= 2

\* A job that has coded all of its slices is still one of the call's jobs.
SharedInv ==
  /\ host \in Hosts /\ stripe \in Stripes
  /\ Worthwhile => \E n \in Nat : n >= 2 /\ tasks = [t \in 1 .. n |-> tasks[t]]

LEMMA SharedInit == Init => SharedInv
BY DEF Init, SharedInv, Worthwhile, Idle

LEMMA StripeShape ==
  ASSUME stripe \in Stripes
  PROVE  /\ shard_len \in Nat \ {0}
         /\ data_shard_count \in Nat \ {0}
         /\ parity_shard_count \in Nat \ {0}
<1>1. /\ stripe.data \in Seq(Seq(Byte)) /\ stripe.data # <<>> /\ stripe.data[1] # <<>>
      /\ stripe.rows \in Seq(Seq(Byte)) /\ stripe.rows # <<>>
  BY StripeAssumption
<1>2. Len(stripe.data) \in Nat \ {0} /\ Len(stripe.rows) \in Nat \ {0}
  BY <1>1, EmptySeq, LenProperties
<1>3. stripe.data[1] \in Seq(Byte)
  BY <1>1, <1>2, ElementOfSeq
<1>4. Len(stripe.data[1]) \in Nat \ {0}
  BY <1>1, <1>3, EmptySeq, LenProperties
<1> QED
  BY <1>2, <1>4 DEF shard_len, data_shard_count, parity_shard_count

\* Few outputs are cut into two chunks at least, or are themselves two.
LEMMA EncodeSepParShares ==
  ASSUME SharedInv, encode_sep_par, Worthwhile'
  PROVE  \E n \in Nat : n >= 2 /\ tasks' = [t \in 1 .. n |-> tasks'[t]]
<1> DEFINE chunk_len == Decision.chunk_len
           chunks    == Chunks(chunk_len, shard_len)
           count     == div_ceil(shard_len, chunk_len)
<1>1. /\ Decision.use_parallel
      /\ host.policy.min_parallel_shard_bytes > CODE_SLICE_MIN_CHUNK_BYTES
      /\ tasks' = code_some_slices_par_chunked(chunk_len)
  BY DEF Worthwhile, encode_sep_par, Begin
<1>2. shard_len \in Nat /\ data_shard_count \in Nat /\ parity_shard_count \in Nat
  BY StripeShape DEF SharedInv
<1>3. /\ parity_shard_count # 0
      /\ chunk_len \in Nat \ {0}
      /\ parity_shard_count = 1 => chunk_len < shard_len
  BY <1>1, <1>2, ThreadsCut DEF SharedInv, Decision
<1>4. chunks = [k \in 1 .. count |-> chunks[k]]
  BY DEF Chunks
<1>5. /\ Len(chunks) = count
      /\ count \in Nat
      /\ parity_shard_count = 1 => count >= 2
  <2>1. shard_len # 0
    BY <1>1 DEF Decision, decide
  <2>2. count \in Nat
    BY <1>2, <1>3, <2>1, DivCeilPositive
  <2>3. parity_shard_count = 1 => count >= 2
    BY <1>2, <1>3, ShortChunksAreMany
  <2> HIDE DEF count, chunks
  <2> QED
    BY <1>4, <2>2, <2>3, NumberedLength
<1>6. CASE parity_shard_count <= 2 /\ Len(chunks) > 1
  <2>1. tasks' = [k \in DOMAIN chunks |-> Slices(AllRows, AllInputs, <<chunks[k]>>)]
    BY <1>1, <1>6 DEF code_some_slices_par_chunked
  <2>2. DOMAIN chunks = 1 .. count
    BY DEF Chunks
  <2> HIDE DEF count, chunks
  <2>3. count >= 2
    BY <1>5, <1>6
  <2>4. tasks' = [t \in 1 .. count |-> tasks'[t]]
    BY <2>1, <2>2
  <2> QED
    BY <1>5, <2>3, <2>4
<1>7. CASE ~(parity_shard_count <= 2 /\ Len(chunks) > 1)
  <2>1. tasks' = [r \in AllRows |-> Slices({r}, AllInputs, chunks)]
    BY <1>1, <1>7 DEF code_some_slices_par_chunked
  <2>2. parity_shard_count >= 2
    <3> HIDE DEF count, chunks
    <3> QED
      BY <1>2, <1>3, <1>5, <1>7
  <2>3. tasks' = [t \in 1 .. parity_shard_count |-> tasks'[t]]
    <3> HIDE DEF chunks
    <3> QED
      BY <2>1 DEF AllRows
  <2> QED
    BY <1>2, <2>2, <2>3
<1> QED
  BY <1>6, <1>7

LEMMA SharedNext == SharedInv /\ [Next]_vars => SharedInv'
<1> SUFFICES ASSUME SharedInv, [Next]_vars
             PROVE  SharedInv'
  OBVIOUS
<1>1. host' = host /\ stripe' = stripe
  BY DEF Next, vars, SetOverride, encode_sep, encode_sep_par, encode_single_sep_par, Begin, CodeSlice,
         Return
<1>2. CASE UNCHANGED <<call, tasks>>
  BY <1>1, <1>2 DEF SharedInv, Worthwhile
<1>3. CASE call'.entry # "encode_sep_par"
  BY <1>1, <1>3 DEF SharedInv, Worthwhile
<1>4. CASE encode_sep_par
  BY <1>1, <1>4, EncodeSepParShares DEF SharedInv
<1>5. ASSUME NEW t \in DOMAIN tasks, CodeSlice(t) PROVE SharedInv'
  <2>1. tasks' = [tasks EXCEPT ![t] = Tail(@)] /\ call' = call
    BY <1>5 DEF CodeSlice
  <2>2. ASSUME NEW n \in Nat, n >= 2, tasks = [k \in 1 .. n |-> tasks[k]]
        PROVE  tasks' = [k \in 1 .. n |-> tasks'[k]]
    BY <2>1, <2>2
  <2> QED
    BY <1>1, <2>1, <2>2 DEF SharedInv, Worthwhile
<1>6. \/ UNCHANGED <<call, tasks>>
      \/ call'.entry # "encode_sep_par"
      \/ encode_sep_par
      \/ \E t \in DOMAIN tasks : CodeSlice(t)
  <2>1. ASSUME NEW value \in Overrides, SetOverride(value) PROVE UNCHANGED <<call, tasks>>
    BY <2>1 DEF SetOverride
  <2>2. encode_sep => call'.entry = "encode_sep"
    BY DEF encode_sep, Begin
  <2>3. \A input : encode_single_sep_par(input) => call'.entry = "encode_single_sep_par"
    BY DEF encode_single_sep_par, Begin
  <2>4. Return => call'.entry = "none"
    BY DEF Return, Idle
  <2>5. UNCHANGED vars => UNCHANGED <<call, tasks>>
    BY DEF vars
  <2> QED
    BY <2>1, <2>2, <2>3, <2>4, <2>5 DEF Next
<1> QED
  BY <1>2, <1>3, <1>4, <1>5, <1>6

\* For every policy, pool and code: once encode_sep_par has decided for threads
\* there are two jobs at least, if the policy asks for threads only beyond the
\* smallest chunk.
THEOREM ThreadsHaveJobs == Spec => []ParallelIsShared
<1>1. SharedInv => ParallelIsShared
  BY NumberedLength DEF SharedInv, ParallelIsShared
<1> QED
  BY <1>1, SharedInit, SharedNext, PTL DEF Spec

----------------------------------------------------------------------------
(* The jobs of a call do all of its work, once and in its order.             *)

LEMMA ModIs ==
  ASSUME NEW a \in Nat, NEW b \in Nat \ {0}
  PROVE  a % b = a - b * (a \div b)
OBVIOUS

\* The chunk and the position of the input that a slice of this number has, with
\* n inputs.
ChunkOf(k, n) == (k - 1) \div n + 1
InputOf(k, n) == ((k - 1) % n) + 1
NumberOf(c, p, n) == (c - 1) * n + p
Numbers(m, n)     == 1 .. m * n

\* A number up to m * n is that of one pair, and a pair has a number.
LEMMA NumberOfPair ==
  \A n \in Nat \ {0} : \A m \in Nat : \A c \in 1 .. m : \A p \in 1 .. n :
    /\ NumberOf(c, p, n) \in Numbers(m, n)
    /\ ChunkOf(NumberOf(c, p, n), n) = c
    /\ InputOf(NumberOf(c, p, n), n) = p
<1> SUFFICES ASSUME NEW n \in Nat \ {0}, NEW m \in Nat, NEW c \in 1 .. m, NEW p \in 1 .. n,
                    NEW k, k = (c - 1) * n + p
             PROVE  k \in 1 .. m * n /\ ChunkOf(k, n) = c /\ InputOf(k, n) = p
  BY DEF NumberOf, Numbers
<1> DEFINE a == c - 1
<1>1. a \in Nat /\ a <= m - 1 /\ k = a * n + p /\ c - 1 = a
  OBVIOUS
<1> HIDE DEF a
<1>2. a * n <= (m - 1) * n /\ a * n \in Nat
  BY <1>1
<1>3. (m - 1) * n = m * n - n
  OBVIOUS
<1>4. k \in 1 .. m * n
  BY <1>1, <1>2, <1>3
<1>5. k - 1 = a * n + (p - 1) /\ p - 1 \in 0 .. n - 1 /\ k - 1 \in Nat
  BY <1>1, <1>2
<1> DEFINE q == (k - 1) \div n
<1>6. q \in Nat /\ n * q <= k - 1 /\ k - 1 < n * q + n
  BY <1>5, DivBounds
<1>7. (k - 1) % n = (k - 1) - n * q
  BY <1>5, ModIs
<1> HIDE DEF q
<1>8. q = a
  <2>1. q >= a + 1 => n * q >= n * a + n
    BY <1>1, <1>6
  <2>2. a >= q + 1 => n * a >= n * q + n
    BY <1>1, <1>6
  <2> QED
    BY <1>1, <1>5, <1>6, <2>1, <2>2
<1>9. (k - 1) % n = p - 1
  BY <1>1, <1>5, <1>7, <1>8
<1> QED
  BY <1>1, <1>4, <1>8, <1>9 DEF q, ChunkOf, InputOf

LEMMA PairOfNumber ==
  ASSUME NEW n \in Nat \ {0}, NEW m \in Nat, NEW k \in 1 .. m * n
  PROVE  /\ ChunkOf(k, n) \in 1 .. m /\ InputOf(k, n) \in 1 .. n
         /\ k = (ChunkOf(k, n) - 1) * n + InputOf(k, n)
<1> DEFINE q == (k - 1) \div n
           rest == (k - 1) % n
<1>1. m * n \in Nat
  OBVIOUS
<1>2. k - 1 \in Nat /\ k - 1 < m * n
  BY <1>1
<1>3. q \in Nat /\ n * q <= k - 1 /\ k - 1 < n * q + n
  BY <1>2, DivBounds
<1>4. rest = (k - 1) - n * q
  BY <1>2, ModIs
<1> HIDE DEF q, rest
<1>5. q < m
  <2>1. q >= m => n * q >= n * m
    BY <1>3
  <2> QED
    BY <1>2, <1>3, <2>1
<1>6. q + 1 \in 1 .. m /\ rest + 1 \in 1 .. n
  BY <1>2, <1>3, <1>4, <1>5
<1>7. k = ((q + 1) - 1) * n + (rest + 1)
  BY <1>2, <1>3, <1>4
<1> QED
  BY <1>6, <1>7 DEF q, rest, ChunkOf, InputOf

\* The chunks of a shard part it: every byte is in one of them.
LEMMA ChunksPart ==
  ASSUME NEW len \in Nat, NEW chunk_len \in Nat \ {0}, NEW b \in 1 .. len
  PROVE  /\ Len(Chunks(chunk_len, len)) \in Nat
         /\ DOMAIN Chunks(chunk_len, len) = 1 .. Len(Chunks(chunk_len, len))
         /\ \E c \in DOMAIN Chunks(chunk_len, len) :
              /\ InChunk(Chunks(chunk_len, len)[c], b)
              /\ \A e \in DOMAIN Chunks(chunk_len, len) :
                   InChunk(Chunks(chunk_len, len)[e], b) => e = c
<1> DEFINE count == div_ceil(len, chunk_len)
           chunks == Chunks(chunk_len, len)
           c == (b - 1) \div chunk_len + 1
<1>1. count \in Nat
  BY DivCeilPositive
<1>2. chunks = [k \in 1 .. count |->
                  [from |-> (k - 1) * chunk_len, to |-> AtMost(k * chunk_len, len)]]
  BY DEF Chunks
<1>3. Len(chunks) = count /\ DOMAIN chunks = 1 .. count
  <2> HIDE DEF count, chunks
  <2>1. chunks = [k \in 1 .. count |-> chunks[k]]
    BY <1>2
  <2> QED
    BY <1>1, <2>1, NumberedLength
<1>4. \A e \in 1 .. count :
        InChunk(chunks[e], b) <=> (e - 1) * chunk_len < b /\ b <= e * chunk_len
  <2> HIDE DEF count, chunks
  <2>1. ASSUME NEW e \in 1 .. count
        PROVE  InChunk(chunks[e], b) <=> (e - 1) * chunk_len < b /\ b <= e * chunk_len
    <3>1. chunks[e] = [from |-> (e - 1) * chunk_len, to |-> AtMost(e * chunk_len, len)]
      BY <1>2
    <3>2. e * chunk_len \in Nat
      BY <1>1
    <3> QED
      BY <3>1, <3>2 DEF InChunk, AtMost
  <2> QED
    BY <2>1
<1> DEFINE q == (b - 1) \div chunk_len
<1>5. q \in Nat /\ chunk_len * q <= b - 1 /\ b - 1 < chunk_len * q + chunk_len
  BY DivBounds
<1>6. count \in Nat /\ len + chunk_len - 1 < chunk_len * count + chunk_len
  <2>1. len + chunk_len - 1 \in Nat
    OBVIOUS
  <2> QED
    BY <2>1, DivBounds DEF div_ceil
<1> HIDE DEF q, count, chunks
<1>7. c = q + 1
  BY DEF q
<1> HIDE DEF c
<1>8. c \in 1 .. count
  <2>1. q >= count => chunk_len * q >= chunk_len * count
    BY <1>5, <1>6
  <2>2. q < count
    BY <1>5, <1>6, <2>1
  <2> QED
    BY <1>5, <1>6, <1>7, <2>2
<1>9. (c - 1) * chunk_len < b /\ b <= c * chunk_len
  BY <1>5, <1>7
<1>10. ASSUME NEW e \in 1 .. count, (e - 1) * chunk_len < b, b <= e * chunk_len
       PROVE  e = c
  <2>1. e >= c + 1 => (e - 1) * chunk_len >= c * chunk_len
    BY <1>8
  <2>2. c >= e + 1 => (c - 1) * chunk_len >= e * chunk_len
    BY <1>8
  <2> QED
    BY <1>8, <1>9, <1>10, <2>1, <2>2
<1>11. InChunk(chunks[c], b) /\ \A e \in 1 .. count : InChunk(chunks[e], b) => e = c
  BY <1>4, <1>8, <1>9, <1>10
<1>12. /\ Len(chunks) \in Nat
       /\ DOMAIN chunks = 1 .. Len(chunks)
       /\ \E f \in DOMAIN chunks :
            /\ InChunk(chunks[f], b)
            /\ \A e \in DOMAIN chunks : InChunk(chunks[e], b) => e = f
  BY <1>1, <1>3, <1>8, <1>11
<1> QED
  BY <1>12 DEF chunks

\* Inputs in the order of their numbers.
Ascending(inputs, n) ==
  /\ n \in Nat \ {0} /\ Len(inputs) = n
  /\ \A p \in 1 .. n : inputs[p] \in Nat
  /\ \A p, q \in 1 .. n : p < q => inputs[p] < inputs[q]

\* Byte b is in chunk c and in no other.
OnlyChunk(chunks, m, c, b) ==
  /\ m \in Nat /\ Len(chunks) = m /\ DOMAIN chunks = 1 .. m
  /\ c \in 1 .. m /\ InChunk(chunks[c], b)
  /\ \A e \in 1 .. m : InChunk(chunks[e], b) => e = c

\* For byte b a job takes each of the inputs, one after the other.
TakesInputs(job, rows, inputs, n, b) ==
  /\ \A k \in DOMAIN job : job[k].rows = rows
  /\ \A p \in 1 .. n : \E k \in DOMAIN job :
       job[k].input = inputs[p] /\ InChunk(job[k].chunk, b)
  /\ \A k \in DOMAIN job : InChunk(job[k].chunk, b) =>
       \E p \in 1 .. n : job[k].input = inputs[p]
  /\ \A k, l \in DOMAIN job :
       /\ InChunk(job[k].chunk, b) /\ InChunk(job[l].chunk, b)
       /\ job[k].input <= job[l].input
       => k <= l

LEMMA SlicesInOrder ==
  ASSUME NEW rows, NEW inputs, NEW n, NEW chunks, NEW m, NEW c, NEW b,
         Ascending(inputs, n), OnlyChunk(chunks, m, c, b)
  PROVE  TakesInputs(Slices(rows, inputs, chunks), rows, inputs, n, b)
<1> DEFINE job == Slices(rows, inputs, chunks)
           C(k) == ChunkOf(k, n)
           P(k) == InputOf(k, n)
<1>n. /\ n \in Nat \ {0} /\ m \in Nat /\ c \in 1 .. m
      /\ Len(inputs) = n /\ Len(chunks) = m
      /\ InChunk(chunks[c], b)
  BY DEF Ascending, OnlyChunk
<1>i. /\ \A p \in 1 .. n : inputs[p] \in Nat
      /\ \A p, q \in 1 .. n : p < q => inputs[p] < inputs[q]
  BY DEF Ascending
<1>c. \A e \in 1 .. m : InChunk(chunks[e], b) => e = c
  BY DEF OnlyChunk
<1>1. /\ DOMAIN job = 1 .. m * n
      /\ \A k \in 1 .. m * n :
           job[k] = [rows |-> rows, input |-> inputs[P(k)], chunk |-> chunks[C(k)]]
  BY <1>n DEF Slices, ChunkOf, InputOf
<1>2. \A k \in 1 .. m * n : C(k) \in 1 .. m /\ P(k) \in 1 .. n /\ k = (C(k) - 1) * n + P(k)
  BY <1>n, PairOfNumber
<1>3. ASSUME NEW p \in 1 .. n
      PROVE  /\ NumberOf(c, p, n) \in 1 .. m * n
             /\ C(NumberOf(c, p, n)) = c /\ P(NumberOf(c, p, n)) = p
  <2>1. /\ NumberOf(c, p, n) \in Numbers(m, n)
        /\ ChunkOf(NumberOf(c, p, n), n) = c /\ InputOf(NumberOf(c, p, n), n) = p
    BY <1>n, NumberOfPair
  <2> QED
    BY <2>1 DEF Numbers
<1> HIDE DEF job, C, P
<1>4. ASSUME NEW p \in 1 .. n
      PROVE  \E k \in DOMAIN job : job[k].input = inputs[p] /\ InChunk(job[k].chunk, b)
  <2> DEFINE k == NumberOf(c, p, n)
  <2>1. k \in 1 .. m * n /\ C(k) = c /\ P(k) = p
    BY <1>3
  <2> HIDE DEF k
  <2> QED
    BY <1>n, <1>1, <2>1
<1>5. ASSUME NEW k \in DOMAIN job, InChunk(job[k].chunk, b)
      PROVE  P(k) \in 1 .. n /\ k = (c - 1) * n + P(k) /\ job[k].input = inputs[P(k)]
  <2>1. C(k) = c
    BY <1>1, <1>2, <1>5, <1>c
  <2> QED
    BY <1>1, <1>2, <2>1
<1>6. ASSUME NEW k \in DOMAIN job, NEW l \in DOMAIN job,
             InChunk(job[k].chunk, b), InChunk(job[l].chunk, b), job[k].input <= job[l].input
      PROVE  k <= l
  <2>1. /\ P(k) \in 1 .. n /\ k = (c - 1) * n + P(k) /\ job[k].input = inputs[P(k)]
        /\ P(l) \in 1 .. n /\ l = (c - 1) * n + P(l) /\ job[l].input = inputs[P(l)]
    BY <1>5, <1>6
  <2>2. P(k) <= P(l)
    <3>1. inputs[P(k)] \in Nat /\ inputs[P(l)] \in Nat
      BY <2>1, <1>i
    <3>2. ~(P(l) < P(k))
      BY <1>6, <2>1, <3>1, <1>i
    <3> QED
      BY <2>1, <3>2, <1>n
  <2>3. (c - 1) * n \in Nat
    BY <1>n
  <2> QED
    BY <2>1, <2>2, <2>3, <1>n
<1>7. \A k \in DOMAIN job : job[k].rows = rows
  BY <1>1
<1>8. TakesInputs(job, rows, inputs, n, b)
  BY <1>4, <1>5, <1>6, <1>7 DEF TakesInputs
<1> QED
  BY <1>8 DEF job

\* The slices of one chunk are of that chunk.
LEMMA SlicesOfOne ==
  ASSUME NEW rows, NEW inputs, NEW n, NEW chunk, Ascending(inputs, n)
  PROVE  \A k \in DOMAIN Slices(rows, inputs, <<chunk>>) :
           Slices(rows, inputs, <<chunk>>)[k].chunk = chunk
<1> DEFINE job == Slices(rows, inputs, <<chunk>>)
<1>1. n \in Nat \ {0} /\ Len(inputs) = n
  BY DEF Ascending
<1>2. /\ DOMAIN job = 1 .. 1 * n
      /\ \A k \in 1 .. 1 * n : job[k].chunk = <<chunk>>[ChunkOf(k, n)]
  BY <1>1 DEF Slices, ChunkOf
<1>3. \A k \in 1 .. 1 * n : ChunkOf(k, n) = 1
  BY <1>1, PairOfNumber
<1> HIDE DEF job
<1>4. \A k \in DOMAIN job : job[k].chunk = chunk
  BY <1>2, <1>3
<1> QED
  BY <1>4 DEF job

LEMMA ChunkOfByte ==
  ASSUME NEW len \in Nat, NEW chunk_len, len # 0 => chunk_len \in Nat \ {0}, NEW b \in 1 .. len
  PROVE  \E m, c : OnlyChunk(Chunks(chunk_len, len), m, c, b)
<1>1. chunk_len \in Nat \ {0}
  OBVIOUS
<1> DEFINE chunks == Chunks(chunk_len, len)
<1>2. /\ Len(chunks) \in Nat /\ DOMAIN chunks = 1 .. Len(chunks)
      /\ \E c \in DOMAIN chunks :
           InChunk(chunks[c], b) /\ \A e \in DOMAIN chunks : InChunk(chunks[e], b) => e = c
  BY <1>1, ChunksPart
<1> HIDE DEF chunks
<1>3. \E m, c : OnlyChunk(chunks, m, c, b)
  BY <1>2 DEF OnlyChunk
<1> QED
  BY <1>3 DEF chunks

Values(inputs, n) == {inputs[p] : p \in 1 .. n}

\* The job that takes the inputs for a byte has it for itself if the others keep
\* away from it.
LEMMA MatterOfOne ==
  ASSUME NEW jobs, NEW t \in DOMAIN jobs, NEW rows, NEW inputs, NEW n, NEW r \in rows, NEW b,
         TakesInputs(jobs[t], rows, inputs, n, b),
         \A u \in DOMAIN jobs : u # t => \A k \in DOMAIN jobs[u] : ~Codes(jobs[u][k], r, b)
  PROVE  IsMatterOf(t, jobs, Values(inputs, n), r, b)
<1>1. \A k \in DOMAIN jobs[t] : Codes(jobs[t][k], r, b) <=> InChunk(jobs[t][k].chunk, b)
  BY DEF TakesInputs, Codes
<1>2. ASSUME NEW i \in Values(inputs, n)
      PROVE  \E k \in DOMAIN jobs[t] : Codes(jobs[t][k], r, b) /\ jobs[t][k].input = i
  BY <1>1, <1>2 DEF Values, TakesInputs
<1>3. ASSUME NEW u \in DOMAIN jobs, NEW k \in DOMAIN jobs[u], Codes(jobs[u][k], r, b)
      PROVE  u = t /\ jobs[u][k].input \in Values(inputs, n)
  <2>1. u = t
    BY <1>3
  <2> QED
    BY <1>1, <1>3, <2>1 DEF Values, TakesInputs
<1>4. ASSUME NEW k \in DOMAIN jobs[t], NEW l \in DOMAIN jobs[t],
             Codes(jobs[t][k], r, b), Codes(jobs[t][l], r, b),
             jobs[t][k].input <= jobs[t][l].input
      PROVE  k <= l
  BY <1>1, <1>4 DEF TakesInputs
<1> QED
  BY <1>2, <1>3, <1>4 DEF IsMatterOf

\* What the slices of a call are.
ChunkSet == {c \in [from : Nat, to : Nat] : c.from < c.to /\ c.to <= shard_len}
SliceSet == [rows : SUBSET AllRows, input : 1 .. data_shard_count, chunk : ChunkSet]

LEMMA ChunksTyped ==
  ASSUME shard_len \in Nat, NEW chunk_len \in Nat \ {0}
  PROVE  /\ Len(Chunks(chunk_len, shard_len)) \in Nat
         /\ DOMAIN Chunks(chunk_len, shard_len) = 1 .. Len(Chunks(chunk_len, shard_len))
         /\ \A k \in DOMAIN Chunks(chunk_len, shard_len) : Chunks(chunk_len, shard_len)[k] \in ChunkSet
<1> DEFINE count  == div_ceil(shard_len, chunk_len)
           chunks == Chunks(chunk_len, shard_len)
<1>1. shard_len + chunk_len - 1 \in Nat
  OBVIOUS
<1>2. count \in Nat /\ chunk_len * count <= shard_len + chunk_len - 1
  BY <1>1, DivBounds DEF div_ceil
<1>3. chunks = [k \in 1 .. count |->
                  [from |-> (k - 1) * chunk_len, to |-> AtMost(k * chunk_len, shard_len)]]
  BY DEF Chunks
<1> HIDE DEF count, chunks
<1>4. Len(chunks) = count /\ DOMAIN chunks = 1 .. count
  <2>1. chunks = [k \in 1 .. count |-> chunks[k]]
    BY <1>3
  <2> QED
    BY <1>2, <2>1, NumberedLength
<1>5. ASSUME NEW k \in 1 .. count
      PROVE  chunks[k] \in ChunkSet
  <2> DEFINE from == (k - 1) * chunk_len
             to   == k * chunk_len
  <2>1. chunks[k] = [from |-> from, to |-> AtMost(to, shard_len)]
    BY <1>3
  <2>2. from \in Nat /\ to = from + chunk_len
    BY <1>2
  <2>3. to <= chunk_len * count
    BY <1>2
  <2> HIDE DEF from, to
  <2>4. from < shard_len
    BY <1>2, <2>2, <2>3
  <2>5. AtMost(to, shard_len) \in Nat /\ from < AtMost(to, shard_len)
        /\ AtMost(to, shard_len) <= shard_len
    BY <2>2, <2>4 DEF AtMost
  <2> QED
    BY <2>1, <2>2, <2>5 DEF ChunkSet
<1>6. /\ Len(chunks) \in Nat /\ DOMAIN chunks = 1 .. Len(chunks)
      /\ \A k \in DOMAIN chunks : chunks[k] \in ChunkSet
  BY <1>2, <1>4, <1>5
<1> QED
  BY <1>6 DEF chunks

LEMMA SlicesTyped ==
  ASSUME NEW rows \in SUBSET AllRows,
         NEW inputs, NEW n, Ascending(inputs, n), Values(inputs, n) \subseteq 1 .. data_shard_count,
         NEW chunks, NEW m \in Nat, Len(chunks) = m, \A k \in 1 .. m : chunks[k] \in ChunkSet
  PROVE  Slices(rows, inputs, chunks) \in Seq(SliceSet)
<1> DEFINE job == Slices(rows, inputs, chunks)
<1>1. n \in Nat \ {0} /\ Len(inputs) = n /\ \A p \in 1 .. n : inputs[p] \in 1 .. data_shard_count
  BY DEF Ascending, Values
<1>2. job = [k \in 1 .. m * n |->
               [rows |-> rows, input |-> inputs[InputOf(k, n)], chunk |-> chunks[ChunkOf(k, n)]]]
  BY <1>1 DEF Slices, ChunkOf, InputOf
<1>3. \A k \in 1 .. m * n : ChunkOf(k, n) \in 1 .. m /\ InputOf(k, n) \in 1 .. n
  BY <1>1, PairOfNumber
<1>4. m * n \in Nat
  BY <1>1
<1> HIDE DEF job
<1>5. job \in [1 .. m * n -> SliceSet]
  BY <1>1, <1>2, <1>3 DEF SliceSet
<1>6. job \in Seq(SliceSet)
  BY <1>4, <1>5, SeqDef
<1> QED
  BY <1>6 DEF job

\* The jobs of a call: they are of its type and do all of its work.
Work(jobs, inputs) == IsWhole(jobs, inputs) /\ \A t \in DOMAIN jobs : jobs[t] \in Seq(SliceSet)

\* One job that goes through the chunks does all the work.
LEMMA OneJobIsWhole ==
  ASSUME shard_len \in Nat \ {0}, NEW chunk_len \in Nat \ {0},
         NEW inputs, NEW n, Ascending(inputs, n), Values(inputs, n) \subseteq 1 .. data_shard_count
  PROVE  Work(<<Slices(AllRows, inputs, Chunks(chunk_len, shard_len))>>, Values(inputs, n))
<1> DEFINE chunks == Chunks(chunk_len, shard_len)
           jobs   == <<Slices(AllRows, inputs, chunks)>>
<1>1. ASSUME NEW r \in AllRows, NEW b \in 1 .. shard_len
      PROVE  \E t \in DOMAIN jobs : IsMatterOf(t, jobs, Values(inputs, n), r, b)
  <2>1. PICK m, c : OnlyChunk(chunks, m, c, b)
    BY ChunkOfByte
  <2>2. TakesInputs(Slices(AllRows, inputs, chunks), AllRows, inputs, n, b)
    BY <2>1, SlicesInOrder
  <2>3. DOMAIN jobs = {1} /\ jobs[1] = Slices(AllRows, inputs, chunks)
    OBVIOUS
  <2> HIDE DEF chunks, jobs
  <2>4. IsMatterOf(1, jobs, Values(inputs, n), r, b)
    BY <2>2, <2>3, MatterOfOne
  <2> QED
    BY <2>3, <2>4
<1>2. Slices(AllRows, inputs, chunks) \in Seq(SliceSet)
  BY ChunksTyped, SlicesTyped
<1>3. \A t \in DOMAIN jobs : jobs[t] \in Seq(SliceSet)
  BY <1>2
<1> QED
  BY <1>1, <1>3 DEF IsWhole, Work

\* A job for each output.
LEMMA RowJobsAreWhole ==
  ASSUME shard_len \in Nat \ {0}, NEW chunk_len \in Nat \ {0},
         NEW inputs, NEW n, Ascending(inputs, n), Values(inputs, n) \subseteq 1 .. data_shard_count
  PROVE  Work([r \in AllRows |-> Slices({r}, inputs, Chunks(chunk_len, shard_len))],
              Values(inputs, n))
<1> DEFINE chunks == Chunks(chunk_len, shard_len)
           jobs   == [r \in AllRows |-> Slices({r}, inputs, chunks)]
<1>1. ASSUME NEW r \in AllRows, NEW b \in 1 .. shard_len
      PROVE  \E t \in DOMAIN jobs : IsMatterOf(t, jobs, Values(inputs, n), r, b)
  <2>1. PICK m, c : OnlyChunk(chunks, m, c, b)
    BY ChunkOfByte
  <2>2. \A u \in AllRows : TakesInputs(Slices({u}, inputs, chunks), {u}, inputs, n, b)
    BY <2>1, SlicesInOrder
  <2>3. DOMAIN jobs = AllRows /\ \A u \in AllRows : jobs[u] = Slices({u}, inputs, chunks)
    OBVIOUS
  <2> HIDE DEF chunks, jobs
  <2>4. \A u \in AllRows : TakesInputs(jobs[u], {u}, inputs, n, b)
    BY <2>2, <2>3
  <2>5. \A u \in DOMAIN jobs : u # r => \A k \in DOMAIN jobs[u] : ~Codes(jobs[u][k], r, b)
    BY <2>3, <2>4 DEF TakesInputs, Codes
  <2>6. IsMatterOf(r, jobs, Values(inputs, n), r, b)
    BY <2>3, <2>4, <2>5, MatterOfOne
  <2> QED
    BY <2>3, <2>6
<1>2. \A r \in AllRows : Slices({r}, inputs, chunks) \in Seq(SliceSet)
  BY ChunksTyped, SlicesTyped
<1>3. \A t \in DOMAIN jobs : jobs[t] \in Seq(SliceSet)
  BY <1>2
<1> QED
  BY <1>1, <1>3 DEF IsWhole, Work

\* A job for each chunk.
LEMMA ChunkJobsAreWhole ==
  ASSUME shard_len \in Nat \ {0}, NEW chunk_len \in Nat \ {0},
         NEW inputs, NEW n, Ascending(inputs, n), Values(inputs, n) \subseteq 1 .. data_shard_count
  PROVE  LET chunks == Chunks(chunk_len, shard_len)
         IN Work([k \in DOMAIN chunks |-> Slices(AllRows, inputs, <<chunks[k]>>)],
                 Values(inputs, n))
<1> DEFINE chunks == Chunks(chunk_len, shard_len)
           jobs   == [k \in DOMAIN chunks |-> Slices(AllRows, inputs, <<chunks[k]>>)]
<1>1. ASSUME NEW r \in AllRows, NEW b \in 1 .. shard_len
      PROVE  \E t \in DOMAIN jobs : IsMatterOf(t, jobs, Values(inputs, n), r, b)
  <2>1. PICK m, c : OnlyChunk(chunks, m, c, b)
    BY ChunkOfByte
  <2>2. /\ DOMAIN jobs = DOMAIN chunks
        /\ \A u \in DOMAIN chunks : jobs[u] = Slices(AllRows, inputs, <<chunks[u]>>)
    OBVIOUS
  <2> HIDE DEF chunks, jobs
  <2>3. c \in DOMAIN chunks /\ InChunk(chunks[c], b)
        /\ \A e \in DOMAIN chunks : InChunk(chunks[e], b) => e = c
    BY <2>1 DEF OnlyChunk
  <2>4. OnlyChunk(<<chunks[c]>>, 1, 1, b)
    BY <2>3 DEF OnlyChunk
  <2>5. TakesInputs(jobs[c], AllRows, inputs, n, b)
    BY <2>2, <2>3, <2>4, SlicesInOrder
  <2>6. ASSUME NEW u \in DOMAIN jobs
        PROVE  \A k \in DOMAIN jobs[u] : jobs[u][k].chunk = chunks[u]
    <3>1. jobs[u] = Slices(AllRows, inputs, <<chunks[u]>>)
      BY <2>2
    <3>2. \A k \in DOMAIN Slices(AllRows, inputs, <<chunks[u]>>) :
            Slices(AllRows, inputs, <<chunks[u]>>)[k].chunk = chunks[u]
      BY SlicesOfOne
    <3> QED
      BY <3>1, <3>2
  <2>7. \A u \in DOMAIN jobs : u # c => \A k \in DOMAIN jobs[u] : ~Codes(jobs[u][k], r, b)
    BY <2>2, <2>3, <2>6 DEF Codes
  <2>8. IsMatterOf(c, jobs, Values(inputs, n), r, b)
    BY <2>2, <2>3, <2>5, <2>7, MatterOfOne
  <2> QED
    BY <2>2, <2>3, <2>8
<1>2. ASSUME NEW k \in DOMAIN chunks
      PROVE  Slices(AllRows, inputs, <<chunks[k]>>) \in Seq(SliceSet)
  <2> DEFINE lone == <<chunks[k]>>
  <2>1. chunks[k] \in ChunkSet
    BY <1>2, ChunksTyped
  <2>2. Len(lone) = 1 /\ \A l \in 1 .. 1 : lone[l] \in ChunkSet
    BY <2>1
  <2> HIDE DEF lone
  <2>3. Slices(AllRows, inputs, lone) \in Seq(SliceSet)
    BY <2>2, SlicesTyped
  <2> QED
    BY <2>3 DEF lone
<1>3. \A t \in DOMAIN jobs : jobs[t] \in Seq(SliceSet)
  BY <1>2
<1> QED
  BY <1>1, <1>3 DEF IsWhole, Work

LEMMA SerialChunk ==
  ASSUME NEW len \in Nat \ {0}
  PROVE  AtMost(serial_chunk_len(len), len) \in Nat \ {0}
<1>1. CASE len <= CODE_SLICE_MIN_CHUNK_BYTES
  BY <1>1, ChunkAssumption DEF AtMost, serial_chunk_len
<1>2. CASE len > CODE_SLICE_MIN_CHUNK_BYTES /\ len <= CODE_SLICE_DEFAULT_CHUNK_BYTES
  BY <1>2, ChunkAssumption DEF AtMost, serial_chunk_len
<1>3. CASE len > CODE_SLICE_DEFAULT_CHUNK_BYTES /\ len <= LARGE_SHARD_BYTES
  BY <1>3, ChunkAssumption DEF AtMost, serial_chunk_len
<1>4. CASE len > LARGE_SHARD_BYTES
  BY <1>4, ChunkAssumption DEF AtMost, serial_chunk_len
<1> QED
  BY <1>1, <1>2, <1>3, <1>4, ChunkAssumption

LEMMA AllInputsAscend ==
  ASSUME stripe \in Stripes
  PROVE  /\ Ascending(AllInputs, data_shard_count)
         /\ Values(AllInputs, data_shard_count) = 1 .. data_shard_count
<1>1. data_shard_count \in Nat \ {0}
  BY StripeShape
<1>2. AllInputs = [i \in 1 .. data_shard_count |-> i]
  BY DEF AllInputs
<1>3. Len(AllInputs) = data_shard_count
  BY <1>1, <1>2, NumberedLength
<1> HIDE DEF AllInputs
<1> QED
  BY <1>1, <1>2, <1>3 DEF Ascending, Values

LEMMA LoneInputAscends ==
  ASSUME NEW input \in Nat
  PROVE  Ascending(<<input>>, 1) /\ Values(<<input>>, 1) = {input}
BY DEF Ascending, Values

\* The jobs that each call begins with.
LEMMA EncodeSepIsWhole ==
  ASSUME SharedInv, encode_sep
  PROVE  call'.input = 0 /\ Work(tasks', 1 .. data_shard_count)
<1>1. stripe \in Stripes /\ shard_len \in Nat \ {0}
  BY StripeShape DEF SharedInv
<1>2. /\ call'.input = 0
      /\ \/ tasks' = code_some_slices_chunked
         \/ tasks' = <<Slices(AllRows, AllInputs, Chunks(shard_len, shard_len))>>
  BY DEF encode_sep, Begin
<1>3. AtMost(serial_chunk_len(shard_len), shard_len) \in Nat \ {0}
  BY <1>1, SerialChunk
<1>4. Work(code_some_slices_chunked, 1 .. data_shard_count)
  BY <1>1, <1>3, OneJobIsWhole, AllInputsAscend DEF code_some_slices_chunked
<1>5. Work(<<Slices(AllRows, AllInputs, Chunks(shard_len, shard_len))>>, 1 .. data_shard_count)
  BY <1>1, OneJobIsWhole, AllInputsAscend
<1> QED
  BY <1>2, <1>4, <1>5

LEMMA EncodeSepParIsWhole ==
  ASSUME SharedInv, encode_sep_par
  PROVE  call'.input = 0 /\ Work(tasks', 1 .. data_shard_count)
<1> DEFINE chunk_len == Decision.chunk_len
           chunks    == Chunks(chunk_len, shard_len)
<1>1. /\ stripe \in Stripes /\ host \in Hosts
      /\ shard_len \in Nat \ {0} /\ data_shard_count \in Nat /\ parity_shard_count \in Nat
  BY StripeShape DEF SharedInv
<1>2. /\ call'.input = 0
      /\ tasks' = IF Decision.use_parallel
                  THEN code_some_slices_par_chunked(chunk_len)
                  ELSE code_some_slices_chunked
  BY DEF encode_sep_par, Begin
<1>3. CASE Decision.use_parallel
  <2>1. chunk_len \in Nat \ {0}
    BY <1>1, <1>3, ThreadsCut DEF Decision
  <2> HIDE DEF chunk_len
  <2>2. \/ tasks' = [k \in DOMAIN chunks |-> Slices(AllRows, AllInputs, <<chunks[k]>>)]
        \/ tasks' = [r \in AllRows |-> Slices({r}, AllInputs, chunks)]
    BY <1>2, <1>3 DEF code_some_slices_par_chunked
  <2>3. Work([k \in DOMAIN chunks |-> Slices(AllRows, AllInputs, <<chunks[k]>>)],
                1 .. data_shard_count)
    BY <1>1, <2>1, ChunkJobsAreWhole, AllInputsAscend
  <2>4. Work([r \in AllRows |-> Slices({r}, AllInputs, chunks)], 1 .. data_shard_count)
    BY <1>1, <2>1, RowJobsAreWhole, AllInputsAscend
  <2> HIDE DEF chunks
  <2> QED
    BY <1>2, <2>2, <2>3, <2>4
<1>4. CASE ~Decision.use_parallel
  <2>1. AtMost(serial_chunk_len(shard_len), shard_len) \in Nat \ {0}
    BY <1>1, SerialChunk
  <2>2. Work(code_some_slices_chunked, 1 .. data_shard_count)
    BY <1>1, <2>1, OneJobIsWhole, AllInputsAscend DEF code_some_slices_chunked
  <2> QED
    BY <1>2, <1>4, <2>2
<1> QED
  BY <1>3, <1>4

LEMMA EncodeSingleIsWhole ==
  ASSUME SharedInv, NEW input \in 1 .. data_shard_count, encode_single_sep_par(input)
  PROVE  call'.input = input /\ Work(tasks', {input})
<1> DEFINE chunk_len == Decision.chunk_len
<1>1. /\ stripe \in Stripes /\ host \in Hosts
      /\ shard_len \in Nat \ {0} /\ data_shard_count \in Nat /\ parity_shard_count \in Nat
  BY StripeShape DEF SharedInv
<1>2. /\ call'.input = input
      /\ tasks' = IF Decision.use_parallel
                  THEN code_single_slice_par_chunked(input, chunk_len)
                  ELSE code_single_slice(input)
  BY DEF encode_single_sep_par, Begin
<1>3. Ascending(<<input>>, 1) /\ Values(<<input>>, 1) = {input}
  BY LoneInputAscends
<1>4. CASE Decision.use_parallel
  <2>1. chunk_len \in Nat \ {0}
    BY <1>1, <1>4, ThreadsCut DEF Decision
  <2> HIDE DEF chunk_len
  <2>2. Work(code_single_slice_par_chunked(input, chunk_len), Values(<<input>>, 1))
    BY <1>1, <1>3, <2>1, RowJobsAreWhole DEF code_single_slice_par_chunked
  <2> QED
    BY <1>2, <1>3, <1>4, <2>2
<1>5. CASE ~Decision.use_parallel
  <2>1. Work(code_single_slice(input), Values(<<input>>, 1))
    BY <1>1, <1>3, OneJobIsWhole DEF code_single_slice
  <2> QED
    BY <1>2, <1>3, <1>5, <2>1
<1> QED
  BY <1>4, <1>5

\* For every code, machine and length of a shard: the jobs that a call cuts its
\* work into do all of it, none of it twice, no two of them write the same byte,
\* and each byte gets its inputs in their order.
THEOREM EveryCallIsWhole == Spec => WorkIsWhole
<1> DEFINE Whole == call = Idle /\ call' # Idle =>
             IsWhole(tasks', IF call'.input = 0 THEN 1 .. data_shard_count ELSE {call'.input})
<1>1. SharedInv /\ [Next]_vars => [Whole]_vars
  <2> SUFFICES ASSUME SharedInv, Next, call = Idle, call' # Idle
               PROVE  IsWhole(tasks', IF call'.input = 0 THEN 1 .. data_shard_count ELSE {call'.input})
    OBVIOUS
  <2>1. CASE encode_sep
    BY <2>1, EncodeSepIsWhole DEF Work
  <2>2. CASE encode_sep_par
    BY <2>2, EncodeSepParIsWhole DEF Work
  <2>3. ASSUME NEW input \in 1 .. data_shard_count, encode_single_sep_par(input)
        PROVE  IsWhole(tasks', IF call'.input = 0 THEN 1 .. data_shard_count ELSE {call'.input})
    <3>1. input # 0
      BY StripeShape DEF SharedInv
    <3> QED
      BY <2>3, <3>1, EncodeSingleIsWhole DEF Work
  <2>4. encode_sep \/ encode_sep_par
        \/ \E input \in 1 .. data_shard_count : encode_single_sep_par(input)
    BY DEF Next, SetOverride, CodeSlice, Return
  <2> QED
    BY <2>1, <2>2, <2>3, <2>4
<1> QED
  BY <1>1, SharedInit, SharedNext, PTL DEF Spec, WorkIsWhole

----------------------------------------------------------------------------
(* What the jobs add up to.                                                  *)

\* The kernels compute the product of the field, wherever in a slice the byte is.
LEMMA KernelsMultiply ==
  ASSUME NEW b \in Backends \cup Generated, NEW c \in Byte, NEW x \in Byte, NEW i, NEW n
  PROVE  Product(b, c, i, n, x) = CarrylessProduct(c, x, 29)
<1> DEFINE product == CarrylessProduct(c, x, 29)
<1>1. /\ MUL_TABLE[c][x] = product /\ mul_slice_pure_rust(c, x) = product
      /\ NibbleProduct(c, x) = product /\ GfniProduct(c, x) = product
  BY ProductsAssumption
<1>2. \A y : y = product => Shortcut(c, x, y) = product
  BY <1>1 DEF Shortcut, mul_slice_pure_rust
<1> HIDE DEF product
<1>3. \A width : gfni(width, c, i, n, x) = product
  BY <1>1, <1>2 DEF gfni
<1>4. /\ simd_c(c, i, n, x) = product
      /\ generated_avx2(c, i, n, x) = product
      /\ generated_neon(c, i, n, x) = product
  BY <1>1 DEF simd_c, generated_avx2, generated_neon
<1>5. /\ ssse3(c, i, n, x) = product
      /\ avx2(c, i, n, x) = product
      /\ avx512(c, i, n, x) = product
      /\ neon(c, i, n, x) = product
      /\ vsx(c, i, n, x) = product
  BY <1>1, <1>2 DEF ssse3, avx2, avx512, neon, vsx
<1>6. Product(b, c, i, n, x) = product
  BY <1>1, <1>3, <1>4, <1>5 DEF Product, Backends, Generated
<1> QED
  BY <1>6 DEF product

\* The sums of the first products for one byte of the parity.
Sums(s, r, b) ==
  CHOOSE sum : sum =
    [i \in 0 .. Len(s.data) |->
       IF i = 0 THEN 0
       ELSE ByteXor(sum[i - 1], CarrylessProduct(s.rows[r][i], s.data[i][b], 29))]

\* There are such sums: those of the first inputs go on to the next one.
LEMMA SumsExist ==
  ASSUME NEW s, NEW r, NEW b, Len(s.data) \in Nat
  PROVE  Sums(s, r, b) =
           [i \in 0 .. Len(s.data) |->
              IF i = 0 THEN 0
              ELSE ByteXor(Sums(s, r, b)[i - 1], CarrylessProduct(s.rows[r][i], s.data[i][b], 29))]
<1> DEFINE n == Len(s.data)
           Next1(x, i) == ByteXor(x, CarrylessProduct(s.rows[r][i], s.data[i][b], 29))
           good == {k \in 0 .. n :
                      \E f : f = [i \in 0 .. k |-> IF i = 0 THEN 0 ELSE Next1(f[i - 1], i)]}
<1> SUFFICES \E f : f = [i \in 0 .. n |-> IF i = 0 THEN 0 ELSE Next1(f[i - 1], i)]
  BY DEF Sums
<1> HIDE DEF Next1
<1>1. 0 \in good
  <2> DEFINE f == [i \in 0 .. 0 |-> 0]
  <2>1. f = [i \in 0 .. 0 |-> IF i = 0 THEN 0 ELSE Next1(f[i - 1], i)]
    OBVIOUS
  <2>2. 0 \in 0 .. n
    OBVIOUS
  <2> HIDE DEF f, n
  <2> QED
    BY <2>1, <2>2
<1>2. ASSUME NEW k \in 0 .. n - 1, k \in good
      PROVE  k + 1 \in good
  <2>1. PICK f : f = [i \in 0 .. k |-> IF i = 0 THEN 0 ELSE Next1(f[i - 1], i)]
    BY <1>2
  <2> DEFINE g == [i \in 0 .. k + 1 |-> IF i = k + 1 THEN Next1(f[k], k + 1) ELSE f[i]]
  <2>2. ASSUME NEW i \in 0 .. k + 1
        PROVE  g[i] = IF i = 0 THEN 0 ELSE Next1(g[i - 1], i)
    <3>1. CASE i = 0
      BY <2>1, <3>1
    <3>2. CASE i = k + 1
      <4>1. i - 1 = k /\ k \in 0 .. k + 1 /\ k # k + 1 /\ i # 0
        BY <3>2
      <4>2. g[k] = f[k]
        BY <4>1
      <4> QED
        BY <3>2, <4>1, <4>2
    <3>3. CASE i \in 1 .. k
      <4>1. i - 1 \in 0 .. k /\ i - 1 # k + 1 /\ i # k + 1 /\ i # 0
        BY <3>3
      <4>2. g[i] = f[i] /\ g[i - 1] = f[i - 1]
        BY <4>1
      <4> QED
        BY <2>1, <3>3, <4>1, <4>2
    <3> QED
      BY <3>1, <3>2, <3>3
  <2>3. g = [i \in 0 .. k + 1 |-> g[i]]
    OBVIOUS
  <2> HIDE DEF g
  <2>4. g = [i \in 0 .. k + 1 |-> IF i = 0 THEN 0 ELSE Next1(g[i - 1], i)]
    BY <2>2, <2>3
  <2>5. k + 1 \in 0 .. n
    BY <1>2
  <2> QED
    BY <2>4, <2>5
<1>3. n \in good
  <2> HIDE DEF good
  <2>1. n \in Nat /\ n \in 0 .. n
    OBVIOUS
  <2> HIDE DEF n
  <2> QED
    BY <1>1, <1>2, <2>1, UpTo
<1> QED
  BY <1>3

LEMMA StripeBytes ==
  ASSUME stripe \in Stripes, NEW r \in AllRows, NEW i \in 1 .. data_shard_count,
         NEW b \in 1 .. shard_len
  PROVE  stripe.rows[r][i] \in Byte /\ stripe.data[i][b] \in Byte
<1>1. /\ stripe.rows \in Seq(Seq(Byte)) /\ stripe.data \in Seq(Seq(Byte))
      /\ \A q \in DOMAIN stripe.rows : Len(stripe.rows[q]) = Len(stripe.data)
      /\ \A q \in DOMAIN stripe.data : Len(stripe.data[q]) = Len(stripe.data[1])
  BY StripeAssumption
<1>2. r \in DOMAIN stripe.rows /\ i \in DOMAIN stripe.data
  BY <1>1, LenProperties DEF AllRows, parity_shard_count, data_shard_count
<1>3. stripe.rows[r] \in Seq(Byte) /\ stripe.data[i] \in Seq(Byte)
  BY <1>1, <1>2, LenProperties, ElementOfSeq
<1>4. i \in 1 .. Len(stripe.rows[r]) /\ b \in 1 .. Len(stripe.data[i])
  BY <1>1, <1>2 DEF data_shard_count, shard_len
<1> QED
  BY <1>3, <1>4, ElementOfSeq

LEMMA SumsStep ==
  ASSUME stripe \in Stripes, NEW r \in AllRows, NEW b \in 1 .. shard_len,
         NEW i \in 1 .. data_shard_count
  PROVE  LET product == CarrylessProduct(stripe.rows[r][i], stripe.data[i][b], 29)
         IN /\ product \in Byte
            /\ i = 1 => Sums(stripe, r, b)[i] = product
            /\ Sums(stripe, r, b)[i] = ByteXor(Sums(stripe, r, b)[i - 1], product)
<1> DEFINE sum == Sums(stripe, r, b)
           product(k) == CarrylessProduct(stripe.rows[r][k], stripe.data[k][b], 29)
<1>1. data_shard_count \in Nat /\ data_shard_count = Len(stripe.data)
  BY StripeShape DEF data_shard_count
<1>2. sum = [k \in 0 .. data_shard_count |-> IF k = 0 THEN 0 ELSE ByteXor(sum[k - 1], product(k))]
  BY <1>1, SumsExist
<1>3. product(i) \in Byte
  BY StripeBytes, ProductsAssumption
<1> HIDE DEF sum, product
<1>4. sum[0] = 0 /\ sum[i] = ByteXor(sum[i - 1], product(i))
  BY <1>1, <1>2
<1>5. i = 1 => sum[i] = product(i)
  BY <1>3, <1>4, ProductsAssumption
<1> QED
  BY <1>3, <1>4, <1>5 DEF sum, product

LEMMA ParityIsTheLastSum ==
  ASSUME NEW r, NEW b
  PROVE  ParityByte(r, b) = Sums(stripe, r, b)[data_shard_count]
BY DEF ParityByte, Sums, data_shard_count

\* Job t has taken its first slice.
IsNext(after, jobs, t) ==
  /\ DOMAIN after = DOMAIN jobs /\ after[t] = Tail(jobs[t])
  /\ \A v \in DOMAIN jobs : v # t => after[v] = jobs[v]

\* A job takes its first slice: what it then has still to do for a byte is the
\* same, or one input less, and that input was the lowest.
LEMMA MatterAfter ==
  ASSUME NEW jobs, NEW t \in DOMAIN jobs, jobs[t] \in Seq(SliceSet), jobs[t] # <<>>,
         data_shard_count \in Nat,
         NEW u \in DOMAIN jobs, NEW lo \in Nat, NEW hi \in Nat, NEW r, NEW b,
         IsMatterOf(u, jobs, lo .. hi, r, b),
         NEW after, IsNext(after, jobs, t)
  PROVE  /\ ~Codes(Head(jobs[t]), r, b) => IsMatterOf(u, after, lo .. hi, r, b)
         /\ Codes(Head(jobs[t]), r, b) =>
              /\ u = t /\ lo <= hi /\ Head(jobs[t]).input = lo
              /\ IsMatterOf(u, after, lo + 1 .. hi, r, b)
<1> DEFINE job == jobs[t]
           len == Len(job)
           rest == Tail(job)
<1>1. /\ len \in Nat \ {0} /\ DOMAIN job = 1 .. len /\ Head(job) = job[1]
      /\ rest \in Seq(SliceSet) /\ Len(rest) = len - 1 /\ DOMAIN rest = 1 .. len - 1
      /\ \A k \in 1 .. len - 1 : rest[k] = job[k + 1]
      /\ \A k \in 1 .. len : job[k].input \in Nat
  <2>1. len \in Nat \ {0} /\ DOMAIN job = 1 .. len
    BY EmptySeq, LenProperties
  <2>2. rest \in Seq(SliceSet) /\ Len(rest) = len - 1 /\ \A k \in 1 .. Len(rest) : rest[k] = job[k + 1]
    BY HeadTailProperties
  <2>3. DOMAIN rest = 1 .. Len(rest)
    BY <2>2, LenProperties
  <2>4. \A k \in 1 .. len : job[k] \in SliceSet
    BY ElementOfSeq
  <2>5. \A k \in 1 .. len : job[k].input \in Nat
    BY <2>4 DEF SliceSet
  <2>6. Head(job) = job[1]
    BY HeadTailProperties
  <2> HIDE DEF job, len, rest
  <2> QED
    BY <2>1, <2>2, <2>3, <2>5, <2>6
<1>2. /\ DOMAIN after = DOMAIN jobs /\ after[t] = rest
      /\ \A v \in DOMAIN jobs : v # t => after[v] = jobs[v]
  BY DEF IsNext
<1>3. job = jobs[t]
  OBVIOUS
<1>m. /\ \A i \in lo .. hi : \E k \in DOMAIN jobs[u] : Codes(jobs[u][k], r, b) /\ jobs[u][k].input = i
      /\ \A v \in DOMAIN jobs : \A k \in DOMAIN jobs[v] :
           Codes(jobs[v][k], r, b) => v = u /\ jobs[v][k].input \in lo .. hi
      /\ \A k, l \in DOMAIN jobs[u] :
           /\ Codes(jobs[u][k], r, b) /\ Codes(jobs[u][l], r, b)
           /\ jobs[u][k].input <= jobs[u][l].input
           => k <= l
  BY DEF IsMatterOf
<1> HIDE DEF job, len, rest
\* What remains of the jobs is a part of them, in the same order.
<1>4. ASSUME NEW v \in DOMAIN after, NEW k \in DOMAIN after[v]
      PROVE  LET was == IF v = t THEN k + 1 ELSE k
             IN v \in DOMAIN jobs /\ was \in DOMAIN jobs[v] /\ after[v][k] = jobs[v][was]
  <2>1. CASE v = t
    BY <1>1, <1>2, <1>3, <1>4, <2>1
  <2>2. CASE v # t
    BY <1>2, <1>4, <2>2
  <2> QED
    BY <2>1, <2>2
<1>5. ASSUME NEW k \in DOMAIN after[u], NEW l \in DOMAIN after[u],
             Codes(after[u][k], r, b), Codes(after[u][l], r, b),
             after[u][k].input <= after[u][l].input
      PROVE  k <= l
  <2>1. CASE u = t
    <3>1. /\ k \in 1 .. len - 1 /\ l \in 1 .. len - 1
          /\ k + 1 \in DOMAIN jobs[u] /\ l + 1 \in DOMAIN jobs[u]
          /\ after[u][k] = jobs[u][k + 1] /\ after[u][l] = jobs[u][l + 1]
      BY <1>1, <1>2, <1>3, <1>5, <2>1
    <3>2. k + 1 <= l + 1
      BY <1>5, <1>m, <3>1
    <3> QED
      BY <1>1, <3>1, <3>2
  <2>2. CASE u # t
    BY <1>2, <1>5, <1>m, <2>2
  <2> QED
    BY <2>1, <2>2
<1>6. ASSUME NEW v \in DOMAIN after, NEW k \in DOMAIN after[v], Codes(after[v][k], r, b)
      PROVE  v = u /\ after[v][k].input \in lo .. hi
  BY <1>4, <1>6, <1>m
<1>7. ASSUME ~Codes(Head(job), r, b)
      PROVE  IsMatterOf(u, after, lo .. hi, r, b)
  <2>1. ASSUME NEW i \in lo .. hi
        PROVE  \E k \in DOMAIN after[u] : Codes(after[u][k], r, b) /\ after[u][k].input = i
    <3>1. PICK k \in DOMAIN jobs[u] : Codes(jobs[u][k], r, b) /\ jobs[u][k].input = i
      BY <1>m
    <3>2. CASE u = t
      <4>1. k \in 1 .. len /\ k # 1
        BY <1>1, <1>3, <1>7, <3>1, <3>2
      <4>2. k - 1 \in 1 .. len - 1 /\ (k - 1) + 1 = k
        BY <1>1, <4>1
      <4>3. k - 1 \in DOMAIN after[u] /\ after[u][k - 1] = jobs[u][k]
        BY <1>1, <1>2, <1>3, <3>2, <4>2
      <4> QED
        BY <3>1, <4>3
    <3>3. CASE u # t
      BY <1>2, <3>1, <3>3
    <3> QED
      BY <3>2, <3>3
  <2> QED
    BY <1>5, <1>6, <2>1 DEF IsMatterOf
<1>8. ASSUME Codes(Head(job), r, b)
      PROVE  /\ u = t /\ lo <= hi /\ Head(job).input = lo
             /\ IsMatterOf(u, after, lo + 1 .. hi, r, b)
  <2>1. 1 \in DOMAIN jobs[t] /\ jobs[t][1] = Head(job)
    BY <1>1, <1>3
  <2>2. u = t /\ Head(job).input \in lo .. hi
    BY <1>8, <1>m, <2>1
  <2>3. lo \in lo .. hi
    BY <2>2
  <2>4. PICK k \in DOMAIN jobs[u] : Codes(jobs[u][k], r, b) /\ jobs[u][k].input = lo
    BY <1>m, <2>3
  <2>5. k = 1
    <3>1. k \in 1 .. len
      BY <1>1, <1>3, <2>2
    <3>2. jobs[u][k].input <= jobs[u][1].input
      BY <2>1, <2>2, <2>4
    <3>3. k <= 1
      BY <1>8, <1>m, <2>1, <2>2, <2>4, <3>2
    <3> QED
      BY <3>1, <3>3
  <2>6. Head(job).input = lo
    BY <2>1, <2>2, <2>4, <2>5
  <2>7. ASSUME NEW i \in lo + 1 .. hi
        PROVE  \E l \in DOMAIN after[u] : Codes(after[u][l], r, b) /\ after[u][l].input = i
    <3>1. i \in lo .. hi /\ i # lo
      OBVIOUS
    <3>2. PICK l \in DOMAIN jobs[u] : Codes(jobs[u][l], r, b) /\ jobs[u][l].input = i
      BY <1>m, <3>1
    <3>3. l \in 1 .. len /\ l # 1
      BY <1>1, <1>3, <2>1, <2>2, <2>6, <3>1, <3>2
    <3>4. l - 1 \in 1 .. len - 1 /\ (l - 1) + 1 = l
      BY <1>1, <3>3
    <3>5. l - 1 \in DOMAIN after[u] /\ after[u][l - 1] = jobs[u][l]
      BY <1>1, <1>2, <1>3, <2>2, <3>4
    <3> QED
      BY <3>2, <3>5
  <2>8. ASSUME NEW v \in DOMAIN after, NEW l \in DOMAIN after[v], Codes(after[v][l], r, b)
        PROVE  v = u /\ after[v][l].input \in lo + 1 .. hi
    <3>1. v = u /\ after[v][l].input \in lo .. hi
      BY <1>6, <2>8
    <3>2. l \in 1 .. len - 1 /\ l + 1 \in DOMAIN jobs[u] /\ after[v][l] = jobs[u][l + 1]
      BY <1>1, <1>2, <1>3, <2>2, <2>8, <3>1
    <3>3. after[v][l].input # lo
      <4>1. SUFFICES ASSUME after[v][l].input = lo
                     PROVE  FALSE
        OBVIOUS
      <4>2. jobs[u][l + 1].input <= jobs[u][1].input
        BY <2>1, <2>2, <2>6, <3>2, <4>1
      <4>3. l + 1 <= 1
        BY <1>8, <1>m, <2>1, <2>2, <2>8, <3>2, <4>2
      <4> QED
        BY <1>1, <3>2, <4>3
    <3> QED
      BY <3>1, <3>3
  <2>9. IsMatterOf(u, after, lo + 1 .. hi, r, b)
    BY <1>5, <2>7, <2>8 DEF IsMatterOf
  <2>10. lo <= hi
    BY <2>3
  <2> QED
    BY <2>2, <2>6, <2>9, <2>10
<1> QED
  BY <1>3, <1>7, <1>8

First == IF call.input = 0 THEN 1 ELSE call.input
Last  == IF call.input = 0 THEN data_shard_count ELSE call.input

\* A byte holds the sum of the first m products; with m = 0, anything.
AddedUp(out, r, b, m) == m # 0 => out[r][b] = Sums(stripe, r, b)[m]

\* A byte that is the matter of a running call: the first m inputs are in it,
\* and one job has yet to add the others.
IsUnderWay(r, b, m) ==
  /\ m \in First - 1 .. Last
  /\ AddedUp(outputs, r, b, m)
  /\ \E t \in DOMAIN tasks : IsMatterOf(t, tasks, m + 1 .. Last, r, b)

CodingInv ==
  /\ TypeOK
  /\ host \in Hosts /\ stripe \in Stripes
  /\ call.input \in 0 .. data_shard_count
  /\ \A t \in DOMAIN tasks : tasks[t] \in Seq(SliceSet)
  /\ call = Idle =>
       /\ tasks = <<>>
       /\ \A r \in AllRows : \A b \in 1 .. shard_len : AddedUp(outputs, r, b, fed)
  /\ call # Idle =>
       \A r \in AllRows : \A b \in 1 .. shard_len : \E m : IsUnderWay(r, b, m)

\* The types of the slices.
LEMMA SlicesOK ==
  ASSUME NEW jobs, \A t \in DOMAIN jobs : jobs[t] \in Seq(SliceSet), shard_len \in Nat
  PROVE  \A t \in DOMAIN jobs : \A k \in DOMAIN jobs[t] :
           /\ jobs[t][k].rows \subseteq AllRows
           /\ jobs[t][k].input \in 1 .. data_shard_count
           /\ jobs[t][k].chunk.from \in 0 .. jobs[t][k].chunk.to - 1
           /\ jobs[t][k].chunk.to <= shard_len
<1> SUFFICES ASSUME NEW t \in DOMAIN jobs, NEW k \in DOMAIN jobs[t]
             PROVE  /\ jobs[t][k].rows \subseteq AllRows
                    /\ jobs[t][k].input \in 1 .. data_shard_count
                    /\ jobs[t][k].chunk.from \in 0 .. jobs[t][k].chunk.to - 1
                    /\ jobs[t][k].chunk.to <= shard_len
  OBVIOUS
<1>1. jobs[t] \in Seq(SliceSet)
  OBVIOUS
<1>2. jobs[t][k] \in SliceSet
  BY <1>1, LenProperties, ElementOfSeq
<1> QED
  BY <1>2 DEF SliceSet, ChunkSet

LEMMA CodingInit == Init => CodingInv
<1> SUFFICES ASSUME Init
             PROVE  CodingInv
  OBVIOUS
<1>1. /\ stripe \in Stripes /\ host \in Hosts
      /\ shard_len \in Nat /\ data_shard_count \in Nat
  BY StripeShape DEF Init
<1>2. DOMAIN tasks = {}
  BY DEF Init
<1>3. outputs \in [AllRows -> [1 .. shard_len -> Byte]]
  BY JunkAssumption DEF Init
<1>4. TypeOK
  BY <1>1, <1>2, <1>3 DEF Init, TypeOK
<1>5. call.input = 0
  BY DEF Init, Idle
<1>6. \A r, b : AddedUp(outputs, r, b, fed)
  BY DEF Init, AddedUp
<1>7. call = Idle /\ tasks = <<>>
  BY DEF Init
<1> QED
  BY <1>1, <1>2, <1>4, <1>5, <1>6, <1>7 DEF CodingInv

LEMMA SameStripe ==
  ASSUME stripe' = stripe
  PROVE  /\ AllRows' = AllRows /\ shard_len' = shard_len
         /\ data_shard_count' = data_shard_count /\ SliceSet' = SliceSet
         /\ \A out, r, b, m : AddedUp(out, r, b, m)' <=> AddedUp(out, r, b, m)
<1>1. /\ AllRows' = AllRows /\ shard_len' = shard_len
      /\ data_shard_count' = data_shard_count
  BY DEF AllRows, shard_len, data_shard_count, parity_shard_count
<1>2. ChunkSet' = ChunkSet
  BY <1>1 DEF ChunkSet
<1>3. SliceSet' = SliceSet
  BY <1>1, <1>2 DEF SliceSet
<1>4. \A out, r, b, m : AddedUp(out, r, b, m)' <=> AddedUp(out, r, b, m)
  BY DEF AddedUp
<1> QED
  BY <1>1, <1>3, <1>4

\* The input after those that were fed, if any was and another is left.
LEMMA NextInput ==
  ASSUME NEW d \in Nat \ {0}, NEW last \in 0 .. d, (last % d) + 1 # 1
  PROVE  last % d = last /\ last # 0
<1> DEFINE q == last \div d
<1>1. last \in Nat
  OBVIOUS
<1>2. q \in Nat /\ d * q <= last /\ last < d * q + d
  BY <1>1, DivBounds
<1>3. last % d = last - d * q
  BY <1>1, ModIs
<1> HIDE DEF q
<1>4. q = 0 \/ q = 1 \/ q >= 2
  BY <1>2
<1>5. q >= 2 => d * q >= d + d
  BY <1>2
<1>6. q # 1
  BY <1>1, <1>2, <1>3
<1>7. q = 0
  BY <1>1, <1>2, <1>4, <1>5, <1>6
<1> QED
  BY <1>1, <1>3, <1>7

\* A call that begins has all of its work before it.
LEMMA BeginCoding ==
  ASSUME CodingInv, call = Idle, call' # Idle,
         UNCHANGED <<host, stripe, active_backend, outputs, fed, ran>>,
         generated_allowed' \in {{}, {TRUE}, {FALSE}},
         call'.input \in 0 .. data_shard_count,
         call'.input # 0 => call'.input = (fed % data_shard_count) + 1,
         Work(tasks', IF call'.input = 0 THEN 1 .. data_shard_count ELSE {call'.input})
  PROVE  CodingInv'
<1>1. /\ shard_len \in Nat \ {0} /\ data_shard_count \in Nat \ {0}
      /\ fed \in 0 .. data_shard_count
  BY StripeShape DEF CodingInv, TypeOK
<1>2. /\ AllRows' = AllRows /\ shard_len' = shard_len
      /\ data_shard_count' = data_shard_count /\ SliceSet' = SliceSet
      /\ \A out, r, b, m : AddedUp(out, r, b, m)' <=> AddedUp(out, r, b, m)
  BY SameStripe
<1>3. \A t \in DOMAIN tasks' : tasks'[t] \in Seq(SliceSet)'
  BY <1>2 DEF Work
<1>4. TypeOK'
  <2>1. \A t \in DOMAIN tasks' : \A k \in DOMAIN tasks'[t] :
           /\ tasks'[t][k].rows \subseteq AllRows'
           /\ tasks'[t][k].input \in 1 .. data_shard_count'
           /\ tasks'[t][k].chunk.from \in 0 .. tasks'[t][k].chunk.to - 1
           /\ tasks'[t][k].chunk.to <= shard_len'
    BY <1>1, <1>2, <1>3, SlicesOK
  <2> QED
    BY <1>2, <2>1 DEF CodingInv, TypeOK
<1>5. ASSUME NEW r \in AllRows, NEW b \in 1 .. shard_len
      PROVE  \E m : IsUnderWay(r, b, m)'
  <2>m. PICK m : m = IF call'.input = 0 THEN 0 ELSE call'.input - 1
    OBVIOUS
  <2>2. First' = m + 1 /\ Last' \in Nat /\ m \in Nat /\ m + 1 <= Last'
        /\ (IF call'.input = 0 THEN 1 .. data_shard_count ELSE {call'.input}) = m + 1 .. Last'
    <3>1. CASE call'.input = 0
      BY <1>1, <1>2, <2>m, <3>1 DEF First, Last
    <3>2. CASE call'.input # 0
      <4>1. call'.input \in Nat \ {0} /\ First' = call'.input /\ Last' = call'.input
        BY <1>1, <3>2 DEF First, Last
      <4>2. m = call'.input - 1
        BY <2>m, <3>2
      <4>3. \A i \in Nat \ {0} : {i} = (i - 1) + 1 .. i /\ i - 1 \in Nat /\ (i - 1) + 1 = i
        OBVIOUS
      <4> QED
        BY <3>2, <4>1, <4>2, <4>3
    <3> QED
      BY <3>1, <3>2
  <2>1. PICK t \in DOMAIN tasks' : IsMatterOf(t, tasks', m + 1 .. Last', r, b)
    BY <2>2 DEF Work, IsWhole
  <2>3. AddedUp(outputs, r, b, m)
    <3>1. CASE m = 0
      BY <3>1 DEF AddedUp
    <3>2. CASE m # 0
      <4>1. m = fed
        <5>1. call'.input # 0 /\ m = call'.input - 1
          BY <2>m, <3>2
        <5>2. call'.input = (fed % data_shard_count) + 1
          BY <5>1
        <5>3. fed % data_shard_count \in Int
          BY <1>1
        <5>4. m = fed % data_shard_count /\ (fed % data_shard_count) + 1 # 1
          BY ONLY <3>2, <5>1, <5>2, <5>3
        <5> QED
          BY <1>1, <5>4, NextInput
      <4> QED
        BY <4>1 DEF CodingInv
    <3> QED
      BY <3>1, <3>2
  <2>4. AddedUp(outputs, r, b, m)'
    BY <2>3 DEF AddedUp
  <2>5. m \in First' - 1 .. Last'
    BY <2>2
  <2>6. IsUnderWay(r, b, m)'
    BY <2>1, <2>4, <2>5 DEF IsUnderWay
  <2> QED
    BY <2>6
<1> QED
  BY <1>1, <1>2, <1>3, <1>4, <1>5 DEF CodingInv

\* What a kernel makes of a byte of the parity.
LEMMA CodedByte ==
  ASSUME stripe \in Stripes, NEW kernel \in Backends \cup Generated, NEW slice \in SliceSet,
         NEW r \in AllRows, outputs[r] \in [1 .. shard_len -> Byte]
  PROVE  /\ Coded(kernel, r, slice) \in [1 .. shard_len -> Byte]
         /\ \A b \in 1 .. shard_len :
              LET product == CarrylessProduct(stripe.rows[r][slice.input], stripe.data[slice.input][b], 29)
              IN Coded(kernel, r, slice)[b] =
                   IF ~InChunk(slice.chunk, b) THEN outputs[r][b]
                   ELSE IF slice.input = 1 THEN product
                   ELSE ByteXor(outputs[r][b], product)
<1> DEFINE product(b) == CarrylessProduct(stripe.rows[r][slice.input], stripe.data[slice.input][b], 29)
           of(b) == Product(kernel, stripe.rows[r][slice.input], b - slice.chunk.from,
                            slice.chunk.to - slice.chunk.from, stripe.data[slice.input][b])
<1>1. /\ slice.input \in 1 .. data_shard_count
      /\ slice.chunk.from \in Nat /\ slice.chunk.to \in Nat
      /\ shard_len \in Nat
  BY StripeShape DEF SliceSet, ChunkSet
<1>2. \A b \in 1 .. shard_len : of(b) = product(b) /\ product(b) \in Byte
  <2> SUFFICES ASSUME NEW b \in 1 .. shard_len
               PROVE  of(b) = product(b) /\ product(b) \in Byte
    OBVIOUS
  <2>1. stripe.rows[r][slice.input] \in Byte /\ stripe.data[slice.input][b] \in Byte
    BY <1>1, StripeBytes
  <2> QED
    BY <2>1, KernelsMultiply, ProductsAssumption
<1>3. Coded(kernel, r, slice) =
        [b \in 1 .. shard_len |->
           CASE b <= slice.chunk.from \/ b > slice.chunk.to -> outputs[r][b]
             [] b > slice.chunk.from /\ b <= slice.chunk.to /\ slice.input = 1 -> of(b)
             [] OTHER -> ByteXor(outputs[r][b], of(b))]
  BY DEF Coded
<1> HIDE DEF of, product
<1>4. ASSUME NEW b \in 1 .. shard_len
      PROVE  /\ Coded(kernel, r, slice)[b] =
                  IF ~InChunk(slice.chunk, b) THEN outputs[r][b]
                  ELSE IF slice.input = 1 THEN product(b)
                  ELSE ByteXor(outputs[r][b], product(b))
             /\ Coded(kernel, r, slice)[b] \in Byte
  <2>1. Coded(kernel, r, slice)[b] =
           CASE b <= slice.chunk.from \/ b > slice.chunk.to -> outputs[r][b]
             [] b > slice.chunk.from /\ b <= slice.chunk.to /\ slice.input = 1 -> product(b)
             [] OTHER -> ByteXor(outputs[r][b], product(b))
    BY <1>2, <1>3
  <2>2. outputs[r][b] \in Byte /\ product(b) \in Byte /\ ByteXor(outputs[r][b], product(b)) \in Byte
    BY <1>2, ProductsAssumption
  <2>3. CASE b <= slice.chunk.from \/ b > slice.chunk.to
    BY <1>1, <2>1, <2>2, <2>3 DEF InChunk
  <2>4. CASE ~(b <= slice.chunk.from \/ b > slice.chunk.to) /\ slice.input = 1
    BY <1>1, <2>1, <2>2, <2>4 DEF InChunk
  <2>5. CASE ~(b <= slice.chunk.from \/ b > slice.chunk.to) /\ slice.input # 1
    BY <1>1, <2>1, <2>2, <2>5 DEF InChunk
  <2> QED
    BY <2>3, <2>4, <2>5
<1>5. Coded(kernel, r, slice) \in [1 .. shard_len -> Byte]
  BY <1>3, <1>4
<1> QED
  BY <1>4, <1>5 DEF product

\* The kernel that a slice is coded by.
KernelOfSlice ==
  IF call.kernel # NoBackend THEN call.kernel
  ELSE IF active_backend = Unresolved THEN runtime_select_backend(host, environment)
  ELSE active_backend

LEMMA KernelOfSliceIsOne ==
  ASSUME ChoiceInv
  PROVE  KernelOfSlice \in Backends \cup Generated
<1>1. CASE call.kernel # NoBackend
  BY <1>1 DEF KernelOfSlice, ChoiceInv, KernelOfCallIsOfHeld
<1>2. CASE call.kernel = NoBackend /\ active_backend = Unresolved
  BY <1>2, RuntimeSelectFits DEF KernelOfSlice, ChoiceInv
<1>3. CASE call.kernel = NoBackend /\ active_backend # Unresolved
  BY <1>3 DEF KernelOfSlice, ChoiceInv, BackendIsOfHeld
<1> QED
  BY <1>1, <1>2, <1>3

\* A slice adds the next product to the bytes that it codes, and leaves the
\* others alone.
LEMMA CodeSliceCoding ==
  ASSUME ChoiceInv, CodingInv, NEW t \in DOMAIN tasks, CodeSlice(t)
  PROVE  CodingInv'
<1> DEFINE slice  == Head(tasks[t])
           kernel == KernelOfSlice
<1>1. /\ tasks[t] # <<>>
      /\ outputs' = [r \in AllRows |-> IF r \in slice.rows THEN Coded(kernel, r, slice) ELSE outputs[r]]
      /\ ran' = ran \cup {kernel}
      /\ active_backend' = active_backend \/ active_backend' = kernel
      /\ call.kernel # NoBackend => active_backend' = active_backend
      /\ tasks' = [tasks EXCEPT ![t] = Tail(@)]
      /\ UNCHANGED <<host, stripe, generated_allowed, call, fed>>
  BY DEF CodeSlice, KernelOfSlice
<1>2. /\ shard_len \in Nat \ {0} /\ data_shard_count \in Nat \ {0}
      /\ stripe \in Stripes
      /\ outputs \in [AllRows -> [1 .. shard_len -> Byte]]
      /\ tasks[t] \in Seq(SliceSet)
  BY StripeShape DEF CodingInv, TypeOK
<1>3. /\ AllRows' = AllRows /\ shard_len' = shard_len
      /\ data_shard_count' = data_shard_count /\ SliceSet' = SliceSet
  BY <1>1, SameStripe
<1>4. kernel \in Backends \cup Generated
  BY KernelOfSliceIsOne
<1>5. slice \in SliceSet /\ Tail(tasks[t]) \in Seq(SliceSet)
  BY <1>1, <1>2, HeadTailProperties
<1>6. /\ DOMAIN tasks' = DOMAIN tasks
      /\ \A u \in DOMAIN tasks' : tasks'[u] \in Seq(SliceSet)
  BY <1>1, <1>5 DEF CodingInv
<1> HIDE DEF kernel, slice
<1>7. \A r \in AllRows :
        /\ Coded(kernel, r, slice) \in [1 .. shard_len -> Byte]
        /\ \A b \in 1 .. shard_len :
              LET product == CarrylessProduct(stripe.rows[r][slice.input], stripe.data[slice.input][b], 29)
              IN Coded(kernel, r, slice)[b] =
                   IF ~InChunk(slice.chunk, b) THEN outputs[r][b]
                   ELSE IF slice.input = 1 THEN product
                   ELSE ByteXor(outputs[r][b], product)
  BY <1>2, <1>4, <1>5, CodedByte
<1>8. outputs' \in [AllRows -> [1 .. shard_len -> Byte]]
  BY <1>1, <1>2, <1>7
<1>9. TypeOK'
  <2>1. \A u \in DOMAIN tasks' : \A k \in DOMAIN tasks'[u] :
           /\ tasks'[u][k].rows \subseteq AllRows
           /\ tasks'[u][k].input \in 1 .. data_shard_count
           /\ tasks'[u][k].chunk.from \in 0 .. tasks'[u][k].chunk.to - 1
           /\ tasks'[u][k].chunk.to <= shard_len
    BY <1>2, <1>6, SlicesOK
  <2>2. ran' \subseteq Backends \cup Generated /\ ran \subseteq Backends \cup Generated
    BY <1>1, <1>4 DEF CodingInv, TypeOK, Generated
  <2>3. active_backend' \in Backends \cup {Unresolved}
    <3>1. CASE call.kernel # NoBackend
      BY <1>1, <3>1 DEF CodingInv, TypeOK
    <3>2. CASE call.kernel = NoBackend
      <4>1. kernel \in Backends \cup {Unresolved}
        BY <3>2, RuntimeSelectFits DEF kernel, KernelOfSlice, ChoiceInv, CodingInv, TypeOK
      <4> QED
        BY <1>1, <4>1 DEF CodingInv, TypeOK
    <3> QED
      BY <3>1, <3>2
  <2>4. /\ generated_allowed' \in {{}, {TRUE}, {FALSE}} /\ fed' \in 0 .. data_shard_count'
    BY <1>1, <1>3 DEF CodingInv, TypeOK
  <2>5. outputs' \in [AllRows' -> [1 .. shard_len' -> Byte]]
    BY <1>3, <1>8
  <2>6. ran' \subseteq Backends \cup {"generated-avx2", "generated-neon"}
    BY <2>2 DEF Generated
  <2>7. \A u \in DOMAIN tasks' : \A k \in DOMAIN tasks'[u] :
           /\ tasks'[u][k].rows \subseteq AllRows'
           /\ tasks'[u][k].input \in 1 .. data_shard_count'
           /\ tasks'[u][k].chunk.from \in 0 .. tasks'[u][k].chunk.to - 1
           /\ tasks'[u][k].chunk.to <= shard_len'
    BY <1>3, <2>1
  <2> QED
    BY <2>3, <2>4, <2>5, <2>6, <2>7 DEF TypeOK
<1>10. call # Idle
  BY DEF CodingInv
\* A byte that the slice is about gets its next product; any other keeps its sum.
<1>11. ASSUME NEW r \in AllRows, NEW b \in 1 .. shard_len
       PROVE  \E m : IsUnderWay(r, b, m)'
  <2>1. PICK m : IsUnderWay(r, b, m)
    BY <1>10 DEF CodingInv
  <2>2. PICK u \in DOMAIN tasks : IsMatterOf(u, tasks, m + 1 .. Last, r, b)
    BY <2>1 DEF IsUnderWay
  <2>3. /\ First' = First /\ Last' = Last
        /\ First \in Nat \ {0} /\ Last \in Nat /\ Last <= data_shard_count
        /\ m \in First - 1 .. Last /\ m \in Nat
    <3>1. call.input \in 0 .. data_shard_count
      BY DEF CodingInv
    <3>2. First' = First /\ Last' = Last
      BY <1>1, <1>3 DEF First, Last
    <3>3. First \in Nat \ {0} /\ Last \in Nat /\ Last <= data_shard_count
      BY <1>2, <3>1 DEF First, Last
    <3>4. m \in First - 1 .. Last
      BY <2>1 DEF IsUnderWay
    <3> QED
      BY <3>2, <3>3, <3>4
  <2>4. /\ ~Codes(slice, r, b) => IsMatterOf(u, tasks', m + 1 .. Last, r, b)
        /\ Codes(slice, r, b) =>
             /\ u = t /\ m + 1 <= Last /\ slice.input = m + 1
             /\ IsMatterOf(u, tasks', (m + 1) + 1 .. Last, r, b)
    <3>1. /\ tasks[t] \in Seq(SliceSet) /\ tasks[t] # <<>> /\ data_shard_count \in Nat
          /\ m + 1 \in Nat /\ Last \in Nat
          /\ IsNext(tasks', tasks, t)
      BY <1>1, <1>2, <2>3 DEF IsNext
    <3> QED
      BY <2>2, <3>1, MatterAfter DEF slice
  <2>5. CASE ~Codes(slice, r, b)
    <3>1. outputs'[r][b] = outputs[r][b]
      BY <1>1, <1>7, <2>5 DEF Codes
    <3>2. AddedUp(outputs, r, b, m)'
      BY <1>1, <2>1, <3>1 DEF IsUnderWay, AddedUp
    <3>3. IsUnderWay(r, b, m)'
      BY <1>6, <2>3, <2>4, <2>5, <3>2 DEF IsUnderWay
    <3> QED
      BY <3>3
  <2>6. CASE Codes(slice, r, b)
    <3>1. /\ m + 1 \in 1 .. data_shard_count /\ slice.input = m + 1
          /\ m + 1 \in First - 1 .. Last
      BY <1>2, <2>3, <2>4, <2>6
    <3>2. outputs'[r][b] = Sums(stripe, r, b)[m + 1]
      <4> DEFINE product == CarrylessProduct(stripe.rows[r][m + 1], stripe.data[m + 1][b], 29)
      <4>1. outputs'[r][b] = IF m + 1 = 1 THEN product ELSE ByteXor(outputs[r][b], product)
        BY <1>1, <1>7, <2>6, <3>1 DEF Codes
      <4>2. /\ m + 1 = 1 => Sums(stripe, r, b)[m + 1] = product
            /\ Sums(stripe, r, b)[m + 1] = ByteXor(Sums(stripe, r, b)[(m + 1) - 1], product)
        BY <1>2, <3>1, SumsStep
      <4>3. (m + 1) - 1 = m /\ (m + 1 # 1 => m # 0)
        BY <2>3
      <4>4. m # 0 => outputs[r][b] = Sums(stripe, r, b)[m]
        BY <2>1 DEF IsUnderWay, AddedUp
      <4> HIDE DEF product
      <4> QED
        BY <4>1, <4>2, <4>3, <4>4
    <3>3. AddedUp(outputs, r, b, m + 1)'
      BY <1>1, <3>2 DEF AddedUp
    <3>4. IsUnderWay(r, b, m + 1)'
      BY <1>6, <2>3, <2>4, <2>6, <3>1, <3>3 DEF IsUnderWay
    <3> QED
      BY <3>4
  <2> QED
    BY <2>5, <2>6
<1>12. call'.input \in 0 .. data_shard_count' /\ call' # Idle
  BY <1>1, <1>3, <1>10 DEF CodingInv
<1>13. host' \in Hosts /\ stripe' \in Stripes
  BY <1>1 DEF CodingInv
<1> QED
  BY <1>3, <1>6, <1>9, <1>11, <1>12, <1>13 DEF CodingInv

\* When every job is done each byte has its sum.
LEMMA ReturnCoding ==
  ASSUME CodingInv, Return
  PROVE  CodingInv'
<1>1. /\ call # Idle /\ \A t \in DOMAIN tasks : tasks[t] = <<>>
      /\ call' = Idle /\ tasks' = <<>>
      /\ fed' = Last
      /\ UNCHANGED <<host, stripe, active_backend, generated_allowed, outputs, ran>>
  BY DEF Return, Last
<1>2. /\ shard_len \in Nat \ {0} /\ data_shard_count \in Nat \ {0}
      /\ call.input \in 0 .. data_shard_count
  BY StripeShape DEF CodingInv
<1>3. /\ AllRows' = AllRows /\ shard_len' = shard_len
      /\ data_shard_count' = data_shard_count /\ SliceSet' = SliceSet
  BY <1>1, SameStripe
<1>4. First \in Nat \ {0} /\ Last \in 0 .. data_shard_count
  BY <1>2 DEF First, Last
<1>5. DOMAIN tasks' = {} /\ call'.input = 0
  BY <1>1 DEF Idle
<1>6. TypeOK'
  BY <1>1, <1>3, <1>4, <1>5 DEF CodingInv, TypeOK
<1>7. ASSUME NEW r \in AllRows, NEW b \in 1 .. shard_len
      PROVE  AddedUp(outputs, r, b, fed)'
  <2>1. PICK m : IsUnderWay(r, b, m)
    BY <1>1 DEF CodingInv
  <2>2. PICK t \in DOMAIN tasks : IsMatterOf(t, tasks, m + 1 .. Last, r, b)
    BY <2>1 DEF IsUnderWay
  <2>3. m \in First - 1 .. Last
    BY <2>1 DEF IsUnderWay
  <2>4. DOMAIN tasks[t] = {}
    BY <1>1
  <2>5. m + 1 \notin m + 1 .. Last
    BY <2>2, <2>4 DEF IsMatterOf
  <2>6. m = Last
    BY <1>4, <2>3, <2>5
  <2> QED
    BY <1>1, <2>1, <2>6 DEF IsUnderWay, AddedUp
<1> QED
  BY <1>1, <1>2, <1>3, <1>5, <1>6, <1>7 DEF CodingInv

LEMMA CodingNext == ChoiceInv /\ SharedInv /\ CodingInv /\ [Next]_vars => CodingInv'
<1> SUFFICES ASSUME ChoiceInv, SharedInv, CodingInv, [Next]_vars
             PROVE  CodingInv'
  OBVIOUS
<1>1. data_shard_count \in Nat \ {0}
  BY StripeShape DEF CodingInv
<1>2. ASSUME UNCHANGED <<host, stripe, active_backend, generated_allowed, call, tasks, outputs, fed, ran>>
      PROVE  CodingInv'
  <2>1. /\ AllRows' = AllRows /\ shard_len' = shard_len
        /\ data_shard_count' = data_shard_count /\ SliceSet' = SliceSet
        /\ First' = First /\ Last' = Last
    BY <1>2, SameStripe DEF First, Last
  <2>2. TypeOK'
    BY <1>2, <2>1 DEF CodingInv, TypeOK
  <2>3. \A r, b, m : AddedUp(outputs, r, b, m) => AddedUp(outputs, r, b, m)'
    BY <1>2 DEF AddedUp
  <2>5. \A r, b : AddedUp(outputs, r, b, fed) => AddedUp(outputs, r, b, fed)'
    BY <1>2 DEF AddedUp
  <2>6. \A r, b, m : IsUnderWay(r, b, m) => IsUnderWay(r, b, m)'
    BY <1>2, <2>1, <2>3 DEF IsUnderWay
  <2> QED
    BY <1>2, <2>1, <2>2, <2>5, <2>6 DEF CodingInv
<1>3. ASSUME NEW value \in Overrides, SetOverride(value) PROVE CodingInv'
  BY <1>2, <1>3 DEF SetOverride
<1>4. CASE encode_sep
  <2>1. call'.input = 0 /\ Work(tasks', 1 .. data_shard_count)
    BY <1>4, EncodeSepIsWhole
  <2>2. generated_allowed' \in {{}, {TRUE}, {FALSE}}
    <3> DEFINE allowed == IF generated_allowed = {}
                          THEN generated_encode_allowed(host, environment)
                          ELSE TRUE \in generated_allowed
    <3>1. generated_allowed' = {allowed}
      BY <1>4 DEF encode_sep
    <3>2. allowed \in BOOLEAN
      <4>1. generated_encode_allowed(host, environment) \in BOOLEAN
        BY Zenon DEF generated_encode_allowed
      <4>2. (TRUE \in generated_allowed) \in BOOLEAN
        OBVIOUS
      <4>3. CASE generated_allowed = {}
        BY <4>1, <4>3
      <4>4. CASE generated_allowed # {}
        BY <4>2, <4>4
      <4> QED
        BY <4>3, <4>4
    <3>3. \A x \in BOOLEAN : {x} \in {{}, {TRUE}, {FALSE}}
      OBVIOUS
    <3> HIDE DEF allowed
    <3> QED
      BY <3>1, <3>2, <3>3
  <2>3. call = Idle /\ call' # Idle
        /\ UNCHANGED <<host, stripe, active_backend, outputs, fed, ran>>
    BY <1>4 DEF encode_sep, Begin, Idle
  <2>4. /\ call'.input \in 0 .. data_shard_count
        /\ call'.input # 0 => call'.input = (fed % data_shard_count) + 1
        /\ Work(tasks', IF call'.input = 0 THEN 1 .. data_shard_count ELSE {call'.input})
    BY <1>1, <2>1
  <2> QED
    BY <2>2, <2>3, <2>4, BeginCoding
<1>5. CASE encode_sep_par
  <2>1. call'.input = 0 /\ Work(tasks', 1 .. data_shard_count)
    BY <1>5, EncodeSepParIsWhole
  <2>2. generated_allowed' \in {{}, {TRUE}, {FALSE}}
    BY <1>5 DEF encode_sep_par, CodingInv, TypeOK
  <2>3. call = Idle /\ call' # Idle
        /\ UNCHANGED <<host, stripe, active_backend, outputs, fed, ran>>
    BY <1>5 DEF encode_sep_par, Begin, Idle
  <2>4. /\ call'.input \in 0 .. data_shard_count
        /\ call'.input # 0 => call'.input = (fed % data_shard_count) + 1
        /\ Work(tasks', IF call'.input = 0 THEN 1 .. data_shard_count ELSE {call'.input})
    BY <1>1, <2>1
  <2> QED
    BY <2>2, <2>3, <2>4, BeginCoding
<1>6. ASSUME NEW input \in 1 .. data_shard_count, encode_single_sep_par(input) PROVE CodingInv'
  <2>1. call'.input = input /\ Work(tasks', {input})
    BY <1>6, EncodeSingleIsWhole
  <2>2. generated_allowed' \in {{}, {TRUE}, {FALSE}}
    BY <1>6 DEF encode_single_sep_par, CodingInv, TypeOK
  <2>3. call = Idle /\ call' # Idle /\ input = (fed % data_shard_count) + 1
        /\ UNCHANGED <<host, stripe, active_backend, outputs, fed, ran>>
    BY <1>6 DEF encode_single_sep_par, Begin, Idle
  <2>4. input # 0 /\ input \in 0 .. data_shard_count
    BY <1>1
  <2> QED
    BY <2>1, <2>2, <2>3, <2>4, BeginCoding
<1>7. ASSUME NEW t \in DOMAIN tasks, CodeSlice(t) PROVE CodingInv'
  BY <1>7, CodeSliceCoding
<1>8. CASE Return
  BY <1>8, ReturnCoding
<1>9. CASE UNCHANGED vars
  BY <1>2, <1>9 DEF vars
<1> QED
  BY <1>3, <1>4, <1>5, <1>6, <1>7, <1>8, <1>9 DEF Next

LEMMA CodingAlways == Spec => [](ChoiceInv /\ SharedInv /\ CodingInv)
<1>1. Init => ChoiceInv /\ SharedInv /\ CodingInv
  BY ChoiceInit, SharedInit, CodingInit
<1>2. ChoiceInv /\ SharedInv /\ CodingInv /\ [Next]_vars => (ChoiceInv /\ SharedInv /\ CodingInv)'
  BY ChoiceNext, SharedNext, CodingNext
<1> QED
  BY <1>1, <1>2, PTL DEF Spec

\* The types of the cells, the jobs and the parity, for every code and machine.
THEOREM TypeCorrect == Spec => []TypeOK
<1>1. CodingInv => TypeOK
  BY DEF CodingInv
<1> QED
  BY <1>1, CodingAlways, PTL

\* For every code, length of a shard, policy and machine, whichever kernels run
\* and however the jobs of a call interleave: once all data shards are coded the
\* parity is the product of the matrix and the data.
THEOREM ParityIsTheProduct == Spec => []OutputsAreTheProduct
<1>1. CodingInv => OutputsAreTheProduct
  <2> SUFFICES ASSUME CodingInv, call = Idle, fed = data_shard_count,
                      NEW r \in AllRows, NEW b \in 1 .. shard_len
               PROVE  outputs[r][b] = ParityByte(r, b)
    BY DEF OutputsAreTheProduct
  <2>1. data_shard_count # 0
    BY StripeShape DEF CodingInv
  <2>2. AddedUp(outputs, r, b, fed)
    BY DEF CodingInv
  <2> QED
    BY <2>1, <2>2, ParityIsTheLastSum DEF AddedUp
<1> QED
  BY <1>1, CodingAlways, PTL
=============================================================================
