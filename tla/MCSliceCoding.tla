--------------------------- MODULE MCSliceCoding ----------------------------
EXTENDS SliceCoding

Host(arch, std, compiled, baseline, cpu, policy, available) ==
  [arch |-> arch, std |-> std, compiled |-> compiled, baseline |-> baseline, cpu |-> cpu,
   policy |-> policy, available |-> available]

Policy(min_parallel, min_bytes, max_jobs, l2) ==
  [min_parallel_shard_bytes |-> min_parallel, min_bytes_per_job |-> min_bytes,
   max_jobs |-> max_jobs, l2_cache_bytes |-> l2]

Lowest == Policy(1, 0, 0, 12)     \* threads even for short shards
Bounded == Policy(5, 8, 2, 0)     \* no cache known, two jobs at most
Higher == Policy(5, 12, 0, 16)   \* jobs by the size of the cache only

X86 == {"ssse3", "avx2", "avx512", "gfni"}

(* Processors with all there is, without AVX-512, with half of it, and so on.  *)
MCHosts ==
  {Host("x86_64", TRUE, X86, TRUE, {"sse2", "ssse3", "avx2", "avx512f", "avx512bw", "gfni"}, Lowest, 3),
   Host("x86_64", TRUE, X86, TRUE, {"sse2", "ssse3", "avx2", "gfni"}, Higher, 2),
   Host("x86_64", TRUE, X86 \ {"gfni"}, TRUE, {"sse2", "ssse3", "avx2", "avx512f"}, Bounded, 4),
   Host("x86_64", TRUE, {"avx512"}, FALSE, {"sse2", "ssse3", "avx2", "avx512f", "avx512bw"}, Lowest, 2),
   Host("x86_64", TRUE, X86, FALSE, {"sse2", "ssse3"}, Bounded, 1),
   Host("x86_64", TRUE, X86, TRUE, {"sse2"}, Bounded, 3),
   Host("x86_64", FALSE, {"avx2"}, TRUE, {"sse2", "ssse3", "avx2"}, Lowest, 1),
   Host("aarch64", TRUE, {"neon"}, TRUE, {"neon"}, Higher, 4),
   Host("powerpc64", TRUE, {"vsx"}, TRUE, {"vsx"}, Lowest, 1),
   Host("riscv64", TRUE, {"avx2", "neon"}, TRUE, {}, Bounded, 2)}

MCOverrides == {"unset", "scalar", "simd-c", "rust-avx512"}

Byte255(i, k) == (i * 91 + k * 37) % 256

Shards(count, len) == [i \in 1 .. count |-> [k \in 1 .. len |-> Byte255(i, k)]]

MCStripes ==
  {[rows |-> <<<<1, 0, 142, 3>>, <<0, 1, 2, 255>>>>, data |-> Shards(4, 9)],
   [rows |-> <<<<7, 29>>>>,                          data |-> Shards(2, 11)],
   [rows |-> <<<<71, 0>>, <<1, 200>>>>,              data |-> Shards(2, 6)],
   [rows |-> <<<<1, 1>>, <<2, 3>>, <<4, 5>>>>,       data |-> Shards(2, 7)],
   [rows |-> <<<<9>>>>,                              data |-> Shards(1, 1)]}
=============================================================================
