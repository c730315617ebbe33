------------------------------ MODULE DecodeIdx ------------------------------
(* Progressive decoding (decode_idx in galois_8/policy.rs).  Several nodes     *)
(* recover lost shards of one codeword.  A node adds the contributions of the  *)
(* shards that have reached it to its destination buffers, in as many calls as *)
(* it takes, and adds the partial results of another node in merge mode.       *)
(*                                                                             *)
(* What a buffer may have been fed is followed next to the program, as sets of *)
(* shards: each arrival of a shard flips its membership.  A merge that fails   *)
(* leaves two possibilities for every buffer.                                  *)
EXTENDS ClassicMatrix, Sequences

CONSTANTS Nodes,
          Codecs,          \* [d, p, mode, custom]: custom is used in mode "Custom"
          Expectations(_), \* the sets of shards that a codec's callers expect as input
          Allocations(_),  \* the buffers a node starts with, for a codec: zeroed, or Absent
          Arrivals(_),     \* the sets of shards that one call may be given
          ShardLen,        \* bytes of a shard
          Data,            \* the data that is encoded: those of a codec's data shards, and more
          MaxCalls         \* bound on the calls

Absent == <<>>

Total(c) == c.d + c.p
Shards(c) == 0 .. Total(c) - 1

EncodingMatrix ==
  [c \in Codecs |->
     IF c.mode = "Custom" THEN build_custom_matrix(c.d, Total(c), c.custom)
     ELSE build_matrix_with_options(c.d, Total(c), c.mode)]

(* What the callers hand over: as many shards as the field has elements, at    *)
(* most; rows of bytes; shards that the codec has; zeroed buffers.            *)
ASSUME IdxAssumption ==
  /\ ShardLen \in Nat \ {0}
  /\ MaxCalls \in Nat
  /\ Data \in [Byte -> [1 .. ShardLen -> Byte]]
  /\ \A c \in Codecs :
       /\ c.d \in Nat \ {0} /\ c.p \in Nat \ {0} /\ Total(c) <= FIELD_SIZE
       /\ c.mode \in {"Vandermonde", "Cauchy", "JerasureLike", "Custom"}
       /\ c.mode = "Custom" =>
            /\ IsFiniteSet(DOMAIN c.custom) /\ DOMAIN c.custom = 0 .. Rows(c.custom) - 1
            /\ \A r \in DOMAIN c.custom :
                 LET row == c.custom[r]
                 IN /\ IsFiniteSet(DOMAIN row)
                    /\ DOMAIN row = 0 .. Cardinality(DOMAIN row) - 1
                    /\ \A k \in DOMAIN row : row[k] \in Byte
       /\ Expectations(c) \subseteq SUBSET Shards(c)
       /\ Arrivals(c) \subseteq SUBSET Shards(c)
       /\ Allocations(c) \subseteq [Shards(c) -> Seq({0})]

(* The codeword.                                                             *)
Shard ==
  [c \in Codecs |-> [i \in Shards(c) |-> [b \in 1 .. ShardLen |->
     Dot(c.d, EncodingMatrix[c][i], [j \in 0 .. c.d - 1 |-> Data[j][b]])]]]

VARIABLES codec, expect,
          partial,  \* [Nodes -> [Shards -> a buffer, or Absent]]
          fed,      \* [Nodes -> [Shards -> the sets that it may have been fed]]
          answer, calls

vars == <<codec, expect, partial, fed, answer, calls>>

TypeOK ==
  /\ codec \in Codecs
  /\ expect \in Expectations(codec)
  /\ \A n \in Nodes :
       /\ DOMAIN partial[n] = Shards(codec)
       /\ \A i \in Shards(codec) :
            /\ partial[n][i] \in Seq(Byte)
            /\ fed[n][i] \in (SUBSET SUBSET Shards(codec)) \ {{}}
  /\ answer \in {"none", "ok", "TooFewShards", "TooFewShardsPresent", "IncorrectShardSize",
                 "InvalidCustomMatrix"}
  /\ calls \in 0 .. MaxCalls

Init ==
  /\ codec \in Codecs
  /\ expect \in Expectations(codec)
  /\ partial \in [Nodes -> Allocations(codec)]
  /\ fed = [n \in Nodes |-> [i \in Shards(codec) |-> {{}}]]
  /\ answer = "none"
  /\ calls = 0

(* The member of the finite set S of numbers with k smaller ones.            *)
Nth(S, k) == CHOOSE i \in S : Cardinality({j \in S : j < i}) = k

(* The shards that decoding uses: the first d that are expected.             *)
FirstExpected(c, E) == {i \in E : Cardinality({j \in E : j < i}) < c.d}

SelectedRows(c, E) == [k \in 0 .. c.d - 1 |-> EncodingMatrix[c][Nth(E, k)]]

(* The choices of as many rows as there are data shards.                     *)
Selections(c) == {S \in SUBSET Shards(c) : Cardinality(S) = c.d}

(* get_data_decode_matrix, of every choice of rows, computed once.           *)
DecodeMatrix ==
  [c \in Codecs |-> [E \in Selections(c) |-> invert(SelectedRows(c, E))]]

(* A mutant: the parity row is applied to the inputs as they are.            *)
ReducedRowUncomposed(c, E, i, col) ==
  IF i < c.d THEN DecodeMatrix[c][E][i][col] ELSE EncodingMatrix[c][i][col]

(* What a byte of the input at position col adds to output i: the decode      *)
(* matrix for a data shard, and a parity row of the encoding matrix through   *)
(* it for a parity shard.                                                     *)
ReducedRow(c, E, i, col) ==
  LET Entry(inverse) ==
        IF i < c.d THEN inverse[i][col]
        ELSE Dot(c.d, EncodingMatrix[c][i], [j \in 0 .. c.d - 1 |-> inverse[j][col]])
  IN Entry(DecodeMatrix[c][E])

(* A mutant: the k-th input of the call is taken for the k-th expected shard. *)
AccumulatedInArrivalOrder(buffer, i, arrived) ==
  LET used == arrived \cap FirstExpected(codec, expect)
      add_column[k \in 0 .. codec.d, out \in Seq(Nat)] ==
        IF k = Cardinality(used) THEN out
        ELSE add_column[k + 1, mul_slice_xor(ReducedRow(codec, expect, i, k),
                                             Shard[codec][Nth(used, k)], out)]
  IN add_column[0, buffer]

(* decode_idx_accumulate_reduced_outputs, of the input columns below col, to  *)
(* one output.                                                                *)
Accumulated(buffer, i, arrived) ==
  LET Column(out, col) ==
        IF Nth(expect, col) \notin arrived THEN out
        ELSE mul_slice_xor(ReducedRow(codec, expect, i, col), Shard[codec][Nth(expect, col)], out)
      add_column[col \in 0 .. codec.d] ==
        IF col = 0 THEN buffer ELSE Column(add_column[col - 1], col - 1)
  IN add_column[codec.d]

Toggled(S, T) == (S \ T) \cup (T \ S)

Buffers(n) == {i \in Shards(codec) : partial[n][i] # Absent}

(* The length that every other one must have: of the first input, or of the   *)
(* first buffer when there is no input.                                       *)
SessionLen(n, arrived) ==
  IF arrived # {} THEN ShardLen ELSE Len(partial[n][Nth(Buffers(n), 0)])

(* What decode_idx finds wrong with a call before it touches a buffer, in the *)
(* order of its checks; "ok" when there is nothing to do.                     *)
Verdict(n, arrived) ==
  CASE Cardinality(expect) < codec.d -> "TooFewShardsPresent"
    [] Cardinality(expect) >= codec.d /\ arrived = {} /\ Buffers(n) = {} ->
         "TooFewShardsPresent"
    [] OTHER ->
         IF \E i \in Buffers(n) : Len(partial[n][i]) # SessionLen(n, arrived)
         THEN "IncorrectShardSize"
         ELSE IF Buffers(n) = {} \/ arrived \cap FirstExpected(codec, expect) = {}
         THEN "ok"
         ELSE IF Cardinality(expect) # codec.d THEN "TooFewShardsPresent"
         ELSE IF DecodeMatrix[codec][expect] = Singular THEN "InvalidCustomMatrix"
         ELSE "work"

(* A call with expect_input: node n adds the shards that arrived.            *)
Accumulate(n, arrived) ==
  /\ calls < MaxCalls
  /\ calls' = calls + 1
  /\ UNCHANGED <<codec, expect>>
  /\ \/ /\ Verdict(n, arrived) # "work"
        /\ answer' = Verdict(n, arrived)
        /\ UNCHANGED <<partial, fed>>
     \/ /\ Verdict(n, arrived) = "work"
        /\ answer' = "ok"
        /\ partial' = [partial EXCEPT ![n] = [i \in Shards(codec) |->
             IF i \in Buffers(n) THEN Accumulated(@[i], i, arrived) ELSE Absent]]
        /\ fed' = [fed EXCEPT ![n] = [i \in Shards(codec) |->
             {Toggled(S, arrived \cap expect) : S \in @[i]}]]

(* Merge mode reads the buffers of two nodes in step and stops at the first   *)
(* index where they do not fit; what it did before that index stays.          *)
Misfit(n, m) ==
  {i \in Buffers(m) : i \notin Buffers(n) \/ Len(partial[n][i]) # Len(partial[m][i])}

MergeStop(n, m) == IF Misfit(n, m) = {} THEN Total(codec) ELSE Nth(Misfit(n, m), 0)

MergeAnswer(n, m) ==
  IF Misfit(n, m) = {} THEN "ok"
  ELSE IF MergeStop(n, m) \in Buffers(n) THEN "IncorrectShardSize" ELSE "TooFewShards"

Merge(n, m) ==
  /\ n # m
  /\ calls < MaxCalls
  /\ calls' = calls + 1
  /\ answer' = MergeAnswer(n, m)
  /\ partial' = [partial EXCEPT ![n] = [i \in Shards(codec) |->
       IF i \in Buffers(n) \cap Buffers(m) /\ i < MergeStop(n, m)
       THEN mul_slice_xor(1, partial[m][i], @[i]) ELSE @[i]]]
  /\ fed' = [fed EXCEPT ![n] = [i \in Shards(codec) |->
       IF i \notin Buffers(n) \cap Buffers(m) THEN @[i]
       ELSE {Toggled(S, T) : S \in @[i], T \in fed[m][i]}
            \cup (IF answer' = "ok" THEN {} ELSE @[i])]]
  /\ UNCHANGED <<codec, expect>>

Next ==
  \/ \E n \in Nodes : \E arrived \in Arrivals(codec) : Accumulate(n, arrived)
  \/ \E n, m \in Nodes : Merge(n, m)

Spec == Init /\ [][Next]_vars

(* ------------------------------ properties ------------------------------- *)

(* By Cramer's rule, shard i is the sum over the used shards s of this        *)
(* multiple of s.                                                             *)
Cramer(rows, row, k) == div(Det([rows EXCEPT ![k] = row]), Det(rows))

Coefficient ==
  [c \in Codecs |-> [E \in Selections(c) |-> [i \in Shards(c) |-> [k \in 0 .. c.d - 1 |->
     Cramer(SelectedRows(c, E), EncodingMatrix[c][i], k)]]]]

(* The part of shard i that the shards S make up.                            *)
PartOf(i, S) ==
  [b \in 1 .. ShardLen |->
     Dot(codec.d,
         [k \in 0 .. codec.d - 1 |->
            IF Nth(expect, k) \in S THEN Coefficient[codec][expect][i][k] ELSE 0],
         [k \in 0 .. codec.d - 1 |-> Shard[codec][Nth(expect, k)][b]])]

Sound(n, i) == Len(partial[n][i]) = ShardLen /\ expect \in Selections(codec)

(* A buffer holds the sum of the parts of the shards that reached it an odd   *)
(* number of times, in whatever order, through whichever node, and whatever   *)
(* failed in between (decode_idx, galois_8/policy.rs: accumulation and merge  *)
(* mode); buffers are never fed from an expectation that cannot be decoded.   *)
SlotsAreOfTheFed ==
  \A n \in Nodes : \A i \in Buffers(n) :
    IF Sound(n, i) /\ Det(SelectedRows(codec, expect)) # 0
    THEN \E S \in fed[n][i] : partial[n][i] = PartOf(i, S)
    ELSE \A b \in DOMAIN partial[n][i] : partial[n][i][b] = 0

(* A buffer that every expected shard reached once holds the lost shard, data *)
(* or parity: the promise of docs/task-13-progressive-decode-idx.md:220.      *)
CompleteIsTheShard ==
  \A n \in Nodes : \A i \in Buffers(n) :
    Sound(n, i) /\ fed[n][i] = {expect} => partial[n][i] = Shard[codec][i]

Decodes(c, rows, inverse) ==
  /\ c.mode # "Custom" => inverse # Singular
  /\ inverse = Singular <=> Det(rows) = 0
  /\ inverse # Singular => multiply(rows, inverse) = identity(c.d)

(* Any d rows of a matrix that the library builds (core/codec.rs) can be      *)
(* inverted, and of a caller's matrix exactly those whose determinant is not  *)
(* zero; the elimination (matrix.rs) then returns the inverse.  The codecs are *)
(* judged where a behaviour starts.                                           *)
DecodesWhatItCan ==
  calls = 0 =>
    /\ EncodingMatrix[codec] # InvalidCustomMatrix
    /\ \A E \in Selections(codec) :
         Decodes(codec, SelectedRows(codec, E), DecodeMatrix[codec][E])
=============================================================================
