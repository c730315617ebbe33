---------------------------- MODULE SliceKernels -----------------------------
(* The kernels that multiply slices of bytes (galois_8: scalar.rs, x86, ppc64, *)
(* aarch64, legacy, and the encoders that build.rs generates) and the choice   *)
(* among them (galois_8/backend.rs).                                           *)
(*                                                                             *)
(* A machine is what the crate was built for and what it runs on: [arch, std,  *)
(* compiled, baseline, cpu], where compiled is the set of the SIMD features of *)
(* the build, baseline says that the C kernels were built without -march, and  *)
(* cpu is the set of the instruction sets that the processor is known to have: *)
(* those detected when the program runs, and without std, which cannot detect  *)
(* any, those that the target of the build promises.                           *)
EXTENDS ClassicField, FiniteSets, Sequences

CONSTANT VECTOR   \* the bytes of the smallest vector register, 16 in the program

ASSUME VectorAssumption == VECTOR \in Nat \ {0}

(* ------------------------------ the choice ------------------------------- *)

Backends == {"scalar", "simd-c", "rust-ssse3", "rust-avx2", "rust-avx512", "rust-gfni-avx2",
             "rust-gfni-avx512", "rust-neon", "rust-vsx"}

(* What parse_backend_override recognises; anything else is as good as unset. *)
Recognised == Backends \cup {"auto"}

NoBackend == "none"

Simd(m) ==
  m.compiled \cap (CASE m.arch = "x86_64"    -> {"ssse3", "avx2", "avx512", "gfni"}
                     [] m.arch = "aarch64"   -> {"neon"}
                     [] m.arch = "powerpc64" -> {"vsx"}
                     [] OTHER                -> {})

(* The instructions that a backend is made of.                               *)
Needs ==
  [b \in Backends |->
     CASE b = "scalar"           -> {}
       [] b = "simd-c"           -> {}
       [] b = "rust-ssse3"       -> {"ssse3"}
       [] b = "rust-avx2"        -> {"avx2"}
       [] b = "rust-avx512"      -> {"avx512f", "avx512bw"}
       [] b = "rust-gfni-avx2"   -> {"gfni", "avx2"}
       [] b = "rust-gfni-avx512" -> {"gfni", "avx512f", "avx512bw"}
       [] b = "rust-neon"        -> {"neon"}
       [] b = "rust-vsx"         -> {"vsx"}]

(* supports_simd_c_x86, supports_simd_c_aarch64: C code built for another     *)
(* processor than the baseline one is not trusted to run on this one.         *)
SupportsSimdC(m) ==
  /\ Simd(m) # {} /\ m.baseline
  /\ \/ m.arch = "x86_64" /\ "sse2" \in m.cpu
     \/ m.arch = "aarch64" /\ "neon" \in m.cpu

CompiledFor ==
  [b \in Backends \ {"scalar", "simd-c"} |->
     CASE b = "rust-ssse3"  -> "ssse3"
       [] b = "rust-avx2"   -> "avx2"
       [] b = "rust-avx512" -> "avx512"
       [] b \in {"rust-gfni-avx2", "rust-gfni-avx512"} -> "gfni"
       [] b = "rust-neon"   -> "neon"
       [] b = "rust-vsx"    -> "vsx"]

(* rust_ssse3_backend and its siblings: built in, and the processor has it.   *)
Supports(m, b) ==
  CASE b = "scalar" -> TRUE
    [] b = "simd-c" -> SupportsSimdC(m)
    [] OTHER        -> CompiledFor[b] \in Simd(m) /\ Needs[b] \subseteq m.cpu

(* select_x86_backend, select_aarch64_backend, select_powerpc_backend.        *)
Priority ==
  <<"rust-gfni-avx512", "rust-gfni-avx2", "rust-avx2", "rust-avx512", "rust-ssse3",
    "rust-neon", "rust-vsx", "simd-c", "scalar">>

auto_select_backend(m) ==
  LET first == CHOOSE i \in DOMAIN Priority :
                 Supports(m, Priority[i]) /\ \A j \in 1 .. i - 1 : ~Supports(m, Priority[j])
  IN IF m.std THEN Priority[first] ELSE "scalar"

(* select_override_backend: a backend asked for by name, if it can be had.    *)
select_override_backend(m, env) ==
  IF env \in Backends /\ Supports(m, env) THEN env ELSE NoBackend

(* A mutant: an override is taken at its word.                               *)
SelectUnchecked(m, env) ==
  IF m.std /\ env \in Backends THEN env ELSE auto_select_backend(m)

(* runtime_select_backend: what the override asks for, or else the best there *)
(* is.  A build without SIMD has the scalar kernels only.                     *)
runtime_select_backend(m, env) ==
  LET asked == IF m.std THEN select_override_backend(m, env) ELSE NoBackend
  IN CASE Simd(m) = {}                      -> "scalar"
       [] Simd(m) # {} /\ asked # NoBackend -> asked
       [] OTHER                             -> auto_select_backend(m)

(* generated_encode_allowed: an override by name asks for no generated code,  *)
(* even where the backend it names cannot be had.                             *)
generated_encode_allowed(m, env) == m.std => env \notin Backends

(* try_encode_codegen: the encoder that build.rs has generated for this code  *)
(* and machine, if any.  AVX2 is looked for once more; NEON is taken for       *)
(* granted.                                                                    *)
GENERATED_CONFIGS == {<<10, 4>>, <<12, 4>>, <<8, 3>>, <<8, 4>>, <<6, 3>>, <<4, 2>>}

try_encode_codegen(m, d, p) ==
  CASE <<d, p>> \in GENERATED_CONFIGS /\ "avx2" \in Simd(m) /\ "avx2" \in m.cpu -> "generated-avx2"
    [] <<d, p>> \in GENERATED_CONFIGS /\ "neon" \in Simd(m)                     -> "generated-neon"
    [] OTHER -> NoBackend

(* ------------------------------ the kernels ------------------------------ *)

(* The product of polynomials over GF(2), reduced by x^8 + polynomial.        *)
CarrylessProduct(a, b, polynomial) ==
  LET Double(x) == IF 2 * x >= 256 THEN ByteXor(2 * x - 256, polynomial) ELSE 2 * x
      sum[k \in 0 .. 8, x \in Byte, acc \in Byte] ==
        IF k = 8 THEN acc
        ELSE sum[k + 1, Double(x), IF (b \div 2^k) % 2 = 1 THEN ByteXor(acc, x) ELSE acc]
  IN sum[0, a, 0]

(* The product as the shuffles make it: one lookup for each nibble.           *)
NibbleProduct(c, x) == ByteXor(MUL_TABLE_LOW[c][x % 16], MUL_TABLE_HIGH[c][x \div 16])

(* gf2p8affine by the isomorphism: bit i of the result is the parity of the   *)
(* bits that row i selects.                                                   *)
GFNI_ISOMORPHISM_ROWS == <<255, 170, 204, 136, 240, 160, 192, 128>>

Isomorphism ==
  [x \in Byte |->
     LET Bit(n, k) == (n \div 2^k) % 2
         Selected(i) == {k \in 0 .. 7 : Bit(GFNI_ISOMORPHISM_ROWS[i + 1], k) * Bit(x, k) = 1}
         sum[i \in 0 .. 8] ==
           IF i = 0 THEN 0 ELSE sum[i - 1] + (Cardinality(Selected(i - 1)) % 2) * 2^(i - 1)
     IN sum[8]]

(* GFNI multiplies modulo x^8 + x^4 + x^3 + x + 1, and the same affine map     *)
(* leads to that field and back.                                              *)
GfniProduct(c, x) == Isomorphism[CarrylessProduct(Isomorphism[x], Isomorphism[c], 27)]

(* What a kernel makes of the byte x at position i of n, multiplied by c.      *)
mul_slice_pure_rust(c, x) ==
  CASE c = 0 -> 0
    [] c = 1 -> x
    [] OTHER -> MUL_TABLE[c][x]

(* bytes_done: whole vectors only; the scalar kernel does the rest.            *)
InVectors(width, i, n) == i <= n - (n % width)

(* All but the C kernels leave early for the coefficients 0 and 1.             *)
Shortcut(c, x, product) ==
  CASE c = 0 -> 0
    [] c = 1 -> x
    [] OTHER -> product

ssse3(c, i, n, x) ==
  Shortcut(c, x, IF InVectors(VECTOR, i, n) THEN NibbleProduct(c, x) ELSE mul_slice_pure_rust(c, x))

avx2(c, i, n, x) ==
  Shortcut(c, x, IF InVectors(2 * VECTOR, i, n) THEN NibbleProduct(c, x) ELSE mul_slice_pure_rust(c, x))

avx512(c, i, n, x) ==
  Shortcut(c, x, IF InVectors(4 * VECTOR, i, n) THEN NibbleProduct(c, x) ELSE mul_slice_pure_rust(c, x))

(* Both widths of GFNI differ in what is left to the scalar kernel only.       *)
gfni(width, c, i, n, x) ==
  Shortcut(c, x, IF InVectors(width, i, n) THEN GfniProduct(c, x) ELSE mul_slice_pure_rust(c, x))

(* Four vectors at a time and then one at a time: the rest is that of one.     *)
neon(c, i, n, x) ==
  Shortcut(c, x, IF InVectors(VECTOR, i, n) THEN NibbleProduct(c, x) ELSE mul_slice_pure_rust(c, x))

vsx(c, i, n, x) ==
  Shortcut(c, x, IF InVectors(VECTOR, i, n) THEN NibbleProduct(c, x) ELSE mul_slice_pure_rust(c, x))

simd_c(c, i, n, x) ==
  IF InVectors(VECTOR, i, n) THEN NibbleProduct(c, x) ELSE mul_slice_pure_rust(c, x)

(* The generated encoders know no special coefficients and do their own rest.  *)
generated_avx2(c, i, n, x) ==
  IF InVectors(2 * VECTOR, i, n) THEN NibbleProduct(c, x) ELSE MUL_TABLE[c][x]

generated_neon(c, i, n, x) ==
  IF InVectors(VECTOR, i, n) THEN NibbleProduct(c, x) ELSE MUL_TABLE[c][x]

(* The kernels of a backend.                                                  *)
Product(b, c, i, n, x) ==
  CASE b = "scalar"           -> mul_slice_pure_rust(c, x)
    [] b = "simd-c"           -> simd_c(c, i, n, x)
    [] b = "rust-ssse3"       -> ssse3(c, i, n, x)
    [] b = "rust-avx2"        -> avx2(c, i, n, x)
    [] b = "rust-avx512"      -> avx512(c, i, n, x)
    [] b = "rust-gfni-avx2"   -> gfni(2 * VECTOR, c, i, n, x)
    [] b = "rust-gfni-avx512" -> gfni(4 * VECTOR, c, i, n, x)
    [] b = "rust-neon"        -> neon(c, i, n, x)
    [] b = "rust-vsx"         -> vsx(c, i, n, x)
    [] b = "generated-avx2"   -> generated_avx2(c, i, n, x)
    [] b = "generated-neon"   -> generated_neon(c, i, n, x)

(* All ways to multiply two bytes agree.  The statement has no constants in    *)
(* it, and TLC evaluates it for all of the 65536 products.                     *)
ASSUME ProductsAssumption ==
  /\ \A x \in Byte : ByteXor(0, x) = x
  /\ \A x, y \in Byte : ByteXor(x, y) \in Byte
  /\ \A c, x \in Byte :
       LET product == CarrylessProduct(c, x, 29)
       IN /\ product \in Byte
          /\ MUL_TABLE[c][x] = product
          /\ mul_slice_pure_rust(c, x) = product
          /\ NibbleProduct(c, x) = product
          /\ GfniProduct(c, x) = product
=============================================================================
