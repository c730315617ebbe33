-------------------------- MODULE StreamEncodeProofs --------------------------
(***************************************************************************)
(* Proofs about encode_stream, for every number of streams, every block size *)
(* and streams of any lengths that fail or fill up anywhere: what has been   *)
(* written is the beginning of the whole parity, and the result says how the *)
(* call ended.                                                              *)
(***************************************************************************)
EXTENDS StreamEncode, WellFoundedInduction, SequenceTheorems, TLAPS

(* ------------------------ facts about the naturals ----------------------- *)

\* A set of naturals that is not empty has a least element.
LEMMA LeastNat ==
  ASSUME NEW S, S \subseteq Nat, S # {}
  PROVE  \E m \in S : \A k \in S : m <= k
<1> DEFINE less == OpToRel(<, Nat)
<1>1. IsWellFoundedOn(less, Nat)
  BY NatLessThanWellFounded, Zenon
<1>2. \A j, k \in Nat : j < k => <<j, k>> \in less
  BY DEF OpToRel
<1> HIDE DEF less
<1>3. PICK m \in S : \A k \in S : <<k, m>> \notin less
  BY <1>1, WFMin
<1>4. m \in Nat /\ \A k \in S : k \in Nat
  OBVIOUS
<1>5. \A k \in S : ~(k < m)
  BY <1>2, <1>3, <1>4
<1> QED
  BY <1>4, <1>5

\* What holds of 0, and of k + 1 when it holds of k, holds up to n.
LEMMA UpTo ==
  ASSUME NEW n \in Nat, NEW S, 0 \in S,
         \A k \in 0 .. n - 1 : k \in S => k + 1 \in S
  PROVE  \A k \in 0 .. n : k \in S
<1> SUFFICES ASSUME (0 .. n) \ S # {}
             PROVE  FALSE
  OBVIOUS
<1>1. PICK m \in (0 .. n) \ S : \A k \in (0 .. n) \ S : m <= k
  <2>1. (0 .. n) \ S \subseteq Nat
    OBVIOUS
  <2> QED
    BY <2>1, LeastNat
<1>2. m \in 1 .. n
  BY <1>1
<1>3. m - 1 \in 0 .. n - 1 /\ (m - 1) + 1 = m
  BY <1>2
<1>4. m - 1 \in S
  BY <1>1, <1>3
<1> QED
  BY <1>1, <1>3, <1>4

\* A function on an interval has a greatest value.
LEMMA GreatestValue ==
  ASSUME NEW n \in Nat, NEW f, \A k \in 0 .. n : f[k] \in Nat
  PROVE  \E m \in 0 .. n : \A k \in 0 .. n : f[k] <= f[m]
<1> DEFINE good == {k \in 0 .. n : \E m \in 0 .. k : \A j \in 0 .. k : f[j] <= f[m]}
<1>1. 0 \in good
  OBVIOUS
<1>2. ASSUME NEW k \in 0 .. n - 1, k \in good
      PROVE  k + 1 \in good
  <2>1. PICK m \in 0 .. k : \A j \in 0 .. k : f[j] <= f[m]
    BY <1>2
  <2>2. k + 1 \in 0 .. n /\ m \in 0 .. k + 1 /\ k + 1 \in 0 .. k + 1
    OBVIOUS
  <2>3. \A j \in 0 .. k + 1 : j = k + 1 \/ j \in 0 .. k
    OBVIOUS
  <2>4. \A j \in 0 .. k + 1 : f[j] \in Nat
    BY <2>2
  <2>5. CASE f[k + 1] <= f[m]
    <3>1. \A j \in 0 .. k + 1 : f[j] <= f[m]
      BY <2>1, <2>3, <2>5
    <3> QED
      BY <2>2, <3>1
  <2>6. CASE ~(f[k + 1] <= f[m])
    <3>1. \A j \in 0 .. k + 1 : f[j] <= f[k + 1]
      BY <2>1, <2>2, <2>3, <2>4, <2>6
    <3> QED
      BY <2>2, <3>1
  <2> QED
    BY <2>5, <2>6
<1> HIDE DEF good
<1>3. \A k \in 0 .. n : k \in good
  BY <1>1, <1>2, UpTo
<1>4. n \in good
  BY <1>3
<1> QED
  BY <1>4 DEF good

\* Column k of the whole parity, the streams that are shorter padded.
ColumnAt(k) == [i \in Readers |-> IF k <= io.len[i] THEN k ELSE 0]
Columns == [Readers -> Nat]

\* The columns that every parity stream had when the current block began.
Base == Len(out[0]) - (IF phase = "write" THEN sent[0] ELSE 0)

\* How far a block that ends at column b has read stream i.
ReadUpTo(b, i) == IF b < io.len[i] THEN b ELSE io.len[i]

\* Between and while reading, b columns are written everywhere; each buffer
\* holds the bytes after them, as many as were got.
ReadingFrom(b) ==
  /\ \A p \in Writers : Len(out[p]) = b /\ writer[p] = "done"
  /\ \A i \in Readers :
       /\ pos[i] = ReadUpTo(b, i) + got[i]
       /\ \A o \in 1 .. got[i] : buf[i][o] = b + o
       /\ reader[i] = "done" => got[i] = BlockSize \/ pos[i] = io.len[i]

\* While writing, the block is the columns after b, and each parity stream has
\* as many of them as its task has sent.
WritingFrom(b) ==
  /\ b + Len(block) <= LongestStream
  /\ \A o \in 1 .. Len(block) : block[o] = ColumnAt(b + o)
  /\ \A p \in Writers :
       /\ Len(out[p]) = b + sent[p]
       /\ sent[p] <= Len(block)
       /\ writer[p] = "done" => sent[p] = Len(block)
  /\ \A i \in Readers : pos[i] = ReadUpTo(b + Len(block), i)

\* The shapes of the buffers and the streams.
Shapes ==
  /\ pos \in [Readers -> Nat]
  /\ buf \in [Readers -> [Offsets -> Nat]]
  /\ block \in Seq(Columns)
  /\ out \in [Writers -> Seq(Columns)]

\* What a parity stream holds is columns of the whole parity in order, and no
\* stream is more than a block ahead of another.
Prefixes ==
  /\ \A p \in Writers :
       /\ Len(out[p]) <= LongestStream
       /\ \A k \in 1 .. Len(out[p]) : out[p][k] = ColumnAt(k)
  /\ \A p, q \in Writers : Len(out[p]) - Len(out[q]) <= BlockSize

\* The recorded error is the first of those that there were.
FirstIsLeast ==
  IF Failures(writer) = {} THEN first = NoError
  ELSE first \in Failures(writer) /\ \A p \in Failures(writer) : first <= p

\* The inductive invariant.
IInv ==
  /\ TypeOK /\ Shapes /\ Prefixes /\ FirstIsLeast /\ ErrorIsOfAFailure
  /\ Base \in Nat
  /\ phase = "read" => ReadingFrom(Base)
  /\ phase = "write" => WritingFrom(Base)
  /\ phase # "returned" => result = Pending
  /\ result = Ok => \A p \in Writers : Len(out[p]) = LongestStream

----------------------------------------------------------------------------
(* Facts about the operators.                                                *)

LEMMA ConstantFacts ==
  /\ 0 \in Readers /\ 0 \in Writers
  /\ DataShards \in Nat \ {0} /\ BlockSize \in Nat \ {0} /\ ParityShards \in Nat \ {0}
  /\ \A n \in Lengths : n \in Nat
  /\ \A n \in Rooms : n \in Nat
BY StreamAssumption DEF Readers, Writers

LEMMA IoTypes ==
  ASSUME TypeOK
  PROVE  /\ \A i \in Readers : io.len[i] \in Nat
         /\ \A p \in Writers : io.room[p] \in Nat
<1>1. io \in Streams
  BY DEF TypeOK
<1>2. io.len \in [Readers -> Lengths] /\ io.room \in [Writers -> Rooms]
  BY <1>1 DEF Streams
<1> QED
  BY <1>2, ConstantFacts

\* The greatest value that the readers have of something.
LEMMA GreatestOfReaders ==
  ASSUME NEW f, \A i \in Readers : f[i] \in Nat
  PROVE  /\ Max({f[i] : i \in Readers}) \in Nat
         /\ \A i \in Readers : f[i] <= Max({f[i_1] : i_1 \in Readers})
         /\ \E i \in Readers : f[i] = Max({f[i_1] : i_1 \in Readers})
<1> DEFINE values == {f[i] : i \in Readers}
<1>1. DataShards - 1 \in Nat /\ Readers = 0 .. DataShards - 1
  BY ConstantFacts DEF Readers
<1>2. \E m \in Readers : \A i \in Readers : f[i] <= f[m]
  BY <1>1, GreatestValue
<1>3. \E x \in values : \A y \in values : x >= y
  BY <1>2
<1>4. Max(values) \in values /\ \A y \in values : Max(values) >= y
  <2> HIDE DEF values
  <2> QED
    BY <1>3 DEF Max
<1>5. PICK m \in Readers : f[m] = Max(values)
  BY <1>4
<1>6. \A i \in Readers : f[i] \in values
  OBVIOUS
<1> QED
  BY <1>4, <1>5, <1>6

LEMMA LongestIsGreatest ==
  ASSUME TypeOK
  PROVE  /\ LongestStream \in Nat
         /\ \A i \in Readers : io.len[i] <= LongestStream
         /\ \E i \in Readers : io.len[i] = LongestStream
BY IoTypes, GreatestOfReaders DEF LongestStream

LEMMA ActualIsGreatest ==
  ASSUME TypeOK
  PROVE  /\ ActualLen \in 0 .. BlockSize
         /\ \A i \in Readers : got[i] <= ActualLen /\ got[i] \in 0 .. BlockSize
         /\ \E i \in Readers : got[i] = ActualLen
<1>1. \A i \in Readers : got[i] \in 0 .. BlockSize
  BY DEF TypeOK
<1>2. \A i \in Readers : got[i] \in Nat
  BY <1>1, ConstantFacts
<1> QED
  BY <1>1, <1>2, GreatestOfReaders, ConstantFacts DEF ActualLen

LEMMA ColumnTypes == \A k \in Nat : ColumnAt(k) \in Columns
BY DEF ColumnAt, Columns

----------------------------------------------------------------------------
(* The invariant holds initially, and reading keeps it.                      *)

LEMMA InitInvariant == Init => IInv
<1> SUFFICES ASSUME Init
             PROVE  IInv
  OBVIOUS
<1>1. \A i \in Readers : io.len[i] \in Nat
  <2>1. io.len \in [Readers -> Lengths]
    BY DEF Init, Streams
  <2> QED
    BY <2>1, ConstantFacts
<1>2. \A p \in Writers : io.room[p] \in Nat
  <2>1. io.room \in [Writers -> Rooms]
    BY DEF Init, Streams
  <2> QED
    BY <2>1, ConstantFacts
<1>3. block = <<>> /\ Len(block) = 0 /\ block \in Seq(Columns)
  BY EmptySeq DEF Init
<1>4. /\ out = [p \in Writers |-> <<>>] /\ Len(<<>>) = 0
      /\ <<>> \in Seq(Columns)
  BY EmptySeq DEF Init
<1>5. \A p \in Writers : Len(out[p]) = 0
  BY <1>4
<1>6. TypeOK
  <2>1. io \in Streams /\ phase = "read" /\ first = NoError /\ result \in Results
    BY DEF Init, Results
  <2>2. reader \in [Readers -> Tasks] /\ writer \in [Writers -> Tasks]
    BY DEF Init, Tasks
  <2>3. got \in [Readers -> 0 .. BlockSize] /\ sent \in [Writers -> 0 .. BlockSize]
    BY ConstantFacts DEF Init
  <2>4. \A i \in Readers : pos[i] \in 0 .. io.len[i]
    BY <1>1 DEF Init
  <2>5. \A i \in Readers : buf[i] \in [Offsets -> 0 .. io.len[i]]
    BY <1>1 DEF Init
  <2>6. Len(block) <= BlockSize
    BY <1>3, ConstantFacts
  <2>7. \A p \in Writers : Len(out[p]) <= io.room[p]
    BY <1>2, <1>5
  <2> QED
    BY <2>1, <2>2, <2>3, <2>4, <2>5, <2>6, <2>7 DEF TypeOK
<1>7. Shapes
  <2>1. pos \in [Readers -> Nat] /\ buf \in [Readers -> [Offsets -> Nat]]
    BY DEF Init
  <2>2. out \in [Writers -> Seq(Columns)]
    BY <1>4
  <2> QED
    BY <1>3, <2>1, <2>2 DEF Shapes
<1>8. Prefixes
  BY <1>5, <1>6, LongestIsGreatest, ConstantFacts DEF Prefixes
<1>9. FirstIsLeast
  <2>1. Failures(writer) = {}
    BY DEF Init, Failures
  <2> QED
    BY <2>1 DEF Init, FirstIsLeast
<1>10. ErrorIsOfAFailure /\ result = Pending
  BY DEF Init, ErrorIsOfAFailure, Pending
<1>11. Base = 0 /\ phase = "read"
  BY <1>5, ConstantFacts DEF Base, Init
<1>12. ReadingFrom(0)
  BY <1>1, <1>5, ConstantFacts DEF ReadingFrom, ReadUpTo, Init
<1>13. result # Ok
  BY <1>10 DEF Pending, Ok
<1> QED
  BY <1>6, <1>7, <1>8, <1>9, <1>10, <1>11, <1>12, <1>13 DEF IInv

\* The bounds that hold whatever the call is doing.
LEMMA BaseFacts ==
  ASSUME IInv
  PROVE  Base \in Nat /\ (phase # "returned" => Base <= LongestStream)
<1>1. \A p \in Writers : Len(out[p]) \in Nat /\ Len(out[p]) <= LongestStream
  BY LenProperties DEF IInv, Shapes, Prefixes
<1>2. Base \in Nat /\ (phase = "write" => 0 <= sent[0]) /\ sent[0] \in 0 .. BlockSize
  BY ConstantFacts DEF IInv, TypeOK
<1> QED
  BY <1>1, <1>2, LongestIsGreatest, ConstantFacts DEF Base, IInv

\* What has been written is judged by the streams, which stay.
LEMMA SameWhole ==
  ASSUME io' = io
  PROVE  LongestStream' = LongestStream /\ WholeParity' = WholeParity
BY DEF LongestStream, WholeParity

LEMMA PrefixesStay ==
  ASSUME Prefixes, UNCHANGED <<io, out>>
  PROVE  Prefixes'
<1>1. \A k \in Nat : ColumnAt(k)' = ColumnAt(k)
  BY DEF ColumnAt
<1>2. \A p \in Writers : \A k \in 1 .. Len(out[p]) : out'[p][k] = [i \in Readers |-> IF k <= io'.len[i] THEN k ELSE 0]
  BY DEF Prefixes, ColumnAt
<1> QED
  BY <1>2, SameWhole DEF Prefixes, ColumnAt

\* A step of a reading task changes the state of reading only.
LEMMA ReadingKeeps ==
  ASSUME IInv, phase = "read", UNCHANGED <<io, phase, block, writeVars, result>>,
         reader' \in [Readers -> Tasks], pos' \in [Readers -> Nat],
         got' \in [Readers -> 0 .. BlockSize],
         \A i \in Readers :
           /\ pos'[i] <= io.len[i]
           /\ buf'[i] \in [Offsets -> 0 .. io.len[i]]
           /\ pos'[i] = ReadUpTo(Base, i) + got'[i]
           /\ \A o \in 1 .. got'[i] : buf'[i][o] = Base + o
           /\ reader'[i] = "done" => got'[i] = BlockSize \/ pos'[i] = io.len[i],
         buf' \in [Readers -> [Offsets -> Nat]]
  PROVE  IInv'
<1> USE DEF writeVars
<1>1. TypeOK'
  BY IoTypes DEF TypeOK, IInv
<1>2. Shapes'
  BY DEF Shapes, IInv
<1>3. Prefixes'
  BY PrefixesStay DEF IInv
<1>4. FirstIsLeast'
  BY DEF FirstIsLeast, IInv, Failures
<1>5. Base' = Base /\ Base \in Nat
  BY DEF Base, IInv
<1>6. result' = Pending
  BY DEF IInv
<1>7. ErrorIsOfAFailure' /\ result' # Ok
  BY <1>6 DEF ErrorIsOfAFailure, Pending, Ok
<1>8. ReadingFrom(Base)
  BY DEF IInv
<1>9. ReadingFrom(Base)'
  <2> HIDE DEF Base
  <2> QED
    BY <1>5, <1>8 DEF ReadingFrom, ReadUpTo
<1> QED
  BY <1>1, <1>2, <1>3, <1>4, <1>5, <1>6, <1>7, <1>9 DEF IInv

LEMMA ReadSomeKeeps ==
  ASSUME IInv, NEW i \in Readers, NEW n \in Offsets, ReadSome(i, n)
  PROVE  IInv'
<1>1. phase = "read" /\ UNCHANGED <<io, phase, block, writeVars, result>>
  BY DEF ReadSome
<1>2. n \in Nat \ {0}
  BY ConstantFacts DEF Offsets
<1>3. \A j \in Readers : io.len[j] \in Nat /\ pos[j] \in 0 .. io.len[j] /\ got[j] \in 0 .. BlockSize
  BY IoTypes DEF IInv, TypeOK
<1>4. Base \in Nat /\ ReadingFrom(Base)
  BY <1>1 DEF IInv
<1>5. got[i] + n \in 0 .. BlockSize /\ pos[i] + n \in 0 .. io.len[i]
  BY <1>2, <1>3, ConstantFacts DEF ReadSome
<1>6. /\ got' \in [Readers -> 0 .. BlockSize]
      /\ got'[i] = got[i] + n /\ \A j \in Readers \ {i} : got'[j] = got[j]
  BY <1>5 DEF ReadSome, IInv, TypeOK
<1>7. /\ pos' \in [Readers -> Nat]
      /\ pos'[i] = pos[i] + n /\ \A j \in Readers \ {i} : pos'[j] = pos[j]
  BY <1>3, <1>5 DEF ReadSome, IInv, Shapes
<1>8. /\ reader' \in [Readers -> Tasks]
      /\ reader'[i] = IF got'[i] = BlockSize THEN "done" ELSE "running"
      /\ \A j \in Readers \ {i} : reader'[j] = reader[j]
  <2>1. reader \in [Readers -> Tasks]
    BY DEF IInv, TypeOK
  <2>2. (IF got'[i] = BlockSize THEN "done" ELSE "running") \in Tasks
    BY DEF Tasks
  <2> QED
    BY <2>1, <2>2 DEF ReadSome
<1> DEFINE filled == [o \in Offsets |->
             IF o \in got[i] + 1 .. got[i] + n THEN pos[i] + o - got[i] ELSE buf[i][o]]
<1>9. buf' = [buf EXCEPT ![i] = filled] /\ buf \in [Readers -> [Offsets -> Nat]]
  BY DEF ReadSome, IInv, Shapes
<1>10. \A o \in Offsets : o \in Nat
  BY ConstantFacts DEF Offsets
<1>11. filled \in [Offsets -> 0 .. io.len[i]]
  <2>1. buf[i] \in [Offsets -> 0 .. io.len[i]]
    BY DEF IInv, TypeOK
  <2>2. ASSUME NEW o \in Offsets, o \in got[i] + 1 .. got[i] + n
        PROVE  pos[i] + o - got[i] \in 0 .. io.len[i]
    BY <1>2, <1>3, <1>5, <1>10, <2>2
  <2> QED
    BY <2>1, <2>2
<1>12. \A k \in 0 .. io.len[i] : k \in Nat
  BY <1>3
<1>13. filled \in [Offsets -> Nat]
  BY <1>11, <1>12
<1>14. /\ buf' \in [Readers -> [Offsets -> Nat]]
       /\ buf'[i] = filled /\ \A j \in Readers \ {i} : buf'[j] = buf[j]
  <2> HIDE DEF filled
  <2> QED
    BY <1>9, <1>13
<1>15. ReadUpTo(Base, i) = Base
  <2> HIDE DEF Base
  <2>1. pos[i] = ReadUpTo(Base, i) + got[i]
    BY <1>4 DEF ReadingFrom
  <2> QED
    BY <2>1, <1>2, <1>3, <1>4, <1>5 DEF ReadUpTo
<1>16. \A o \in 1 .. got[i] + n : filled[o] = Base + o
  <2> HIDE DEF Base
  <2>1. pos[i] = Base + got[i] /\ \A o \in 1 .. got[i] : buf[i][o] = Base + o
    BY <1>4, <1>15 DEF ReadingFrom
  <2>2. ASSUME NEW o \in 1 .. got[i] + n
        PROVE  filled[o] = Base + o
    <3>1. o \in Offsets
      BY <1>3, <1>5, ConstantFacts DEF Offsets
    <3>2. o \in got[i] + 1 .. got[i] + n \/ o \in 1 .. got[i]
      BY <1>2, <1>3
    <3>3. CASE o \in got[i] + 1 .. got[i] + n
      BY <1>3, <1>4, <2>1, <3>1, <3>3
    <3>4. CASE o \in 1 .. got[i]
      BY <1>3, <2>1, <3>1, <3>4
    <3> QED
      BY <3>2, <3>3, <3>4
  <2> QED
    BY <2>2
<1> HIDE DEF filled
<1>17. ASSUME NEW j \in Readers
       PROVE  /\ pos'[j] <= io.len[j]
              /\ buf'[j] \in [Offsets -> 0 .. io.len[j]]
              /\ pos'[j] = ReadUpTo(Base, j) + got'[j]
              /\ \A o \in 1 .. got'[j] : buf'[j][o] = Base + o
              /\ reader'[j] = "done" => got'[j] = BlockSize \/ pos'[j] = io.len[j]
  <2>1. CASE j = i
    <3> HIDE DEF Base
    <3>1. pos[i] = Base + got[i]
      BY <1>4, <1>15 DEF ReadingFrom
    <3>2. pos'[i] = ReadUpTo(Base, i) + got'[i]
      BY <3>1, <1>2, <1>3, <1>4, <1>6, <1>7, <1>15
    <3> QED
      BY <2>1, <3>2, <1>5, <1>6, <1>7, <1>8, <1>11, <1>14, <1>16
  <2>2. CASE j # i
    <3> HIDE DEF Base
    <3>1. pos'[j] = pos[j] /\ got'[j] = got[j] /\ buf'[j] = buf[j] /\ reader'[j] = reader[j]
      BY <2>2, <1>6, <1>7, <1>8, <1>14
    <3>2. buf[j] \in [Offsets -> 0 .. io.len[j]]
      BY DEF IInv, TypeOK
    <3> QED
      BY <3>1, <3>2, <1>3, <1>4 DEF ReadingFrom
  <2> QED
    BY <2>1, <2>2
<1> QED
  BY <1>1, <1>6, <1>7, <1>8, <1>14, <1>17, ReadingKeeps

LEMMA ReadEndsOrFailsKeeps ==
  ASSUME IInv, NEW i \in Readers, ReadEnds(i) \/ ReadFails(i)
  PROVE  IInv'
<1>1. /\ phase = "read" /\ UNCHANGED <<io, phase, block, writeVars, result>>
      /\ UNCHANGED <<pos, got, buf>>
      /\ reader' \in [Readers -> Tasks]
      /\ reader'[i] = "done" => pos[i] = io.len[i]
      /\ \A j \in Readers \ {i} : reader'[j] = reader[j]
  <2>1. reader \in [Readers -> Tasks]
    BY DEF IInv, TypeOK
  <2>2. "done" \in Tasks /\ "failed" \in Tasks
    BY DEF Tasks
  <2> QED
    BY <2>1, <2>2 DEF ReadEnds, ReadFails
<1>2. \A j \in Readers : /\ io.len[j] \in Nat /\ pos[j] \in 0 .. io.len[j]
                         /\ buf[j] \in [Offsets -> 0 .. io.len[j]]
  BY IoTypes DEF IInv, TypeOK
<1>3. ReadingFrom(Base)
  BY <1>1 DEF IInv
<1>4. /\ pos \in [Readers -> Nat] /\ got \in [Readers -> 0 .. BlockSize]
      /\ buf \in [Readers -> [Offsets -> Nat]]
  BY DEF IInv, TypeOK, Shapes
<1>5. ASSUME NEW j \in Readers
      PROVE  /\ pos'[j] <= io.len[j]
             /\ buf'[j] \in [Offsets -> 0 .. io.len[j]]
             /\ pos'[j] = ReadUpTo(Base, j) + got'[j]
             /\ \A o \in 1 .. got'[j] : buf'[j][o] = Base + o
             /\ reader'[j] = "done" => got'[j] = BlockSize \/ pos'[j] = io.len[j]
  <2> HIDE DEF Base
  <2> QED
    BY <1>1, <1>2, <1>3 DEF ReadingFrom
<1> QED
  BY <1>1, <1>4, <1>5, ReadingKeeps

----------------------------------------------------------------------------
(* The block is encoded, or the call returns.                                *)

\* A call that returns writes nothing more.
LEMMA ReturningKeeps ==
  ASSUME IInv, phase # "returned", phase' = "returned",
         UNCHANGED <<io, readVars, block, writeVars>>,
         result' \in Results, ErrorIsOfAFailure',
         result' = Ok => \A p \in Writers : Len(out[p]) = LongestStream
  PROVE  IInv'
<1> USE DEF readVars, writeVars
<1>1. TypeOK'
  <2> USE DEF IInv, TypeOK
  <2>1. (io \in Streams)' /\ phase' \in {"read", "write", "returned"} /\ result' \in Results
    OBVIOUS
  <2>2. (reader \in [Readers -> Tasks] /\ writer \in [Writers -> Tasks])'
    OBVIOUS
  <2>3. (\A i \in Readers : pos[i] \in 0 .. io.len[i])'
    OBVIOUS
  <2>4. (got \in [Readers -> 0 .. BlockSize] /\ sent \in [Writers -> 0 .. BlockSize])'
    OBVIOUS
  <2>5. (\A i \in Readers : buf[i] \in [Offsets -> 0 .. io.len[i]])'
    OBVIOUS
  <2>6. (Len(block) <= BlockSize /\ first \in Writers \cup {NoError})'
    OBVIOUS
  <2>7. (\A p \in Writers : Len(out[p]) <= io.room[p])'
    OBVIOUS
  <2> QED
    BY <2>1, <2>2, <2>3, <2>4, <2>5, <2>6, <2>7
<1>2. Shapes'
  BY DEF Shapes, IInv
<1>3. Prefixes'
  BY PrefixesStay DEF IInv
<1>4. FirstIsLeast'
  BY DEF FirstIsLeast, IInv, Failures
<1>5. Base' \in Nat
  <2>1. Len(out[0]) \in Nat
    BY ConstantFacts, LenProperties DEF IInv, Shapes
  <2> QED
    BY <2>1 DEF Base
<1>6. LongestStream' = LongestStream
  BY SameWhole
<1> QED
  BY <1>1, <1>2, <1>3, <1>4, <1>5, <1>6 DEF IInv

LEMMA ReturnReadErrorKeeps ==
  ASSUME IInv, ReturnReadError
  PROVE  IInv'
<1>1. PICK i \in Failures(reader) : result' = Failed("read", i)
  BY DEF ReturnReadError
<1>2. i \in Readers
  BY DEF Failures, IInv, TypeOK
<1>3. result' \in Results
  BY <1>1, <1>2 DEF Results
<1>4. ErrorIsOfAFailure'
  <2>1. reader' = reader
    BY DEF ReturnReadError, readVars
  <2> QED
    BY <1>1, <2>1 DEF ErrorIsOfAFailure, Failed, Failures
<1>5. result' # Ok
  BY <1>1 DEF Failed, Ok
<1> QED
  BY <1>3, <1>4, <1>5, ReturningKeeps DEF ReturnReadError

\* Nothing was got from any stream, so that each has been read to its end and
\* written out: the call stops exactly when the parity is whole.
LEMMA ReturnOkKeeps ==
  ASSUME IInv, ReturnOk
  PROVE  IInv'
<1>1. ReadingFrom(Base) /\ AllDone(reader) /\ phase = "read"
  BY DEF IInv, ReturnOk
<1>2. Base \in Nat /\ Base <= LongestStream
  BY <1>1, BaseFacts
<1>3. PICK l \in Readers : io.len[l] = LongestStream /\ LongestStream \in Nat
  BY LongestIsGreatest DEF IInv
<1>4. got[l] = 0
  BY ActualIsGreatest DEF IInv, ReturnOk
<1>5. reader[l] = "done"
  BY <1>1 DEF AllDone, IInv, TypeOK
<1>6. Base = LongestStream
  <2> HIDE DEF Base
  <2>1. pos[l] = ReadUpTo(Base, l) /\ pos[l] = io.len[l]
    <3>1. pos[l] = ReadUpTo(Base, l) + 0 /\ pos[l] = io.len[l]
      BY <1>1, <1>4, <1>5, ConstantFacts DEF ReadingFrom
    <3> QED
      BY <1>2, <1>3, <3>1 DEF ReadUpTo
  <2> QED
    BY <1>2, <1>3, <2>1 DEF ReadUpTo
<1>7. \A p \in Writers : Len(out[p]) = LongestStream
  BY <1>1, <1>6 DEF ReadingFrom
<1>8. result' = Ok /\ result' \in Results /\ ErrorIsOfAFailure'
  BY DEF ReturnOk, Results, ErrorIsOfAFailure, Ok
<1> QED
  BY <1>7, <1>8, ReturningKeeps DEF ReturnOk

LEMMA ReturnWriteErrorKeeps ==
  ASSUME IInv, ReturnWriteError
  PROVE  IInv'
<1>1. first \in Failures(writer) /\ \A p \in Failures(writer) : first <= p
  BY DEF ReturnWriteError, IInv, FirstIsLeast
<1>2. \A p \in Failures(writer) : p \in Nat /\ p \in Writers
  BY DEF Failures, IInv, TypeOK, Writers
<1>3. Min(Failures(writer)) = first
  <2>1. \A p \in Failures(writer) : (\A q \in Failures(writer) : p <= q) => p = first
    BY <1>1, <1>2
  <2> QED
    BY <1>1, <2>1 DEF Min
<1>4. result' = Failed("write", DataShards + first) /\ writer' = writer
  BY DEF ReturnWriteError, writeVars
<1>5. result' \in Results
  BY <1>1, <1>2, <1>4 DEF Results
<1>6. ErrorIsOfAFailure'
  <2>1. Failures(writer)' = Failures(writer)
    BY <1>4 DEF Failures
  <2>2. result'.kind = "write" /\ result'.shard = DataShards + first
    BY <1>4 DEF Failed
  <2>3. Min(Failures(writer))' = first
    BY <1>3, <2>1
  <2> QED
    BY <1>1, <2>1, <2>2, <2>3 DEF ErrorIsOfAFailure
<1>7. result' # Ok
  BY <1>4 DEF Failed, Ok
<1> QED
  BY <1>5, <1>6, <1>7, ReturningKeeps DEF ReturnWriteError

\* What a padded buffer holds is the stream's bytes of the columns after the
\* last block, with zeros after its end.
LEMMA PaddedIsColumn ==
  ASSUME IInv, phase = "read", AllDone(reader), NEW i \in Readers, NEW o \in 1 .. ActualLen
  PROVE  Padded(i)[o] = IF Base + o <= io.len[i] THEN Base + o ELSE 0
<1>1. ReadingFrom(Base) /\ Base \in Nat
  BY DEF IInv
<1>2. io.len[i] \in Nat /\ pos[i] \in 0 .. io.len[i] /\ got[i] \in 0 .. BlockSize
  BY IoTypes DEF IInv, TypeOK
<1>3. ActualLen \in 0 .. BlockSize /\ o \in Nat /\ o \in Offsets
  BY ActualIsGreatest, ConstantFacts DEF IInv, Offsets
<1>4. Padded(i)[o] = IF o \in got[i] + 1 .. ActualLen THEN 0 ELSE buf[i][o]
  BY <1>3 DEF Padded
<1> HIDE DEF Base
<1>5. pos[i] = ReadUpTo(Base, i) + got[i] /\ \A k \in 1 .. got[i] : buf[i][k] = Base + k
  BY <1>1 DEF ReadingFrom
<1>6. got[i] = BlockSize \/ pos[i] = io.len[i]
  BY <1>1 DEF ReadingFrom, AllDone, IInv, TypeOK
<1>7. CASE o <= got[i]
  BY <1>1, <1>2, <1>3, <1>4, <1>5, <1>7 DEF ReadUpTo
<1>8. CASE o > got[i]
  BY <1>1, <1>2, <1>3, <1>4, <1>5, <1>6, <1>8, ConstantFacts DEF ReadUpTo
<1> QED
  BY <1>2, <1>3, <1>7, <1>8

LEMMA EncodeBlockKeeps ==
  ASSUME IInv, EncodeBlock
  PROVE  IInv'
<1>1. /\ phase = "read" /\ phase' = "write" /\ AllDone(reader) /\ ActualLen > 0
      /\ UNCHANGED <<io, reader, pos, got, out, first, result>>
      /\ writer' = [p \in Writers |-> "todo"] /\ sent' = [p \in Writers |-> 0]
      /\ buf' = [i \in Readers |-> Padded(i)]
      /\ block' = [o \in 1 .. ActualLen |-> [i \in Readers |-> buf'[i][o]]]
  BY DEF EncodeBlock
<1>2. ReadingFrom(Base) /\ Base \in Nat /\ result = Pending
  BY <1>1 DEF IInv
<1>3. ActualLen \in 1 .. BlockSize /\ ActualLen \in Nat
  BY <1>1, ActualIsGreatest, ConstantFacts DEF IInv
<1>4. \A i \in Readers : io.len[i] \in Nat /\ pos[i] \in 0 .. io.len[i] /\ got[i] \in 0 .. BlockSize
  BY IoTypes DEF IInv, TypeOK
<1>5. ASSUME NEW i \in Readers
      PROVE  buf'[i] \in [Offsets -> 0 .. io.len[i]]
  <2>1. buf[i] \in [Offsets -> 0 .. io.len[i]]
    BY DEF IInv, TypeOK
  <2>2. 0 \in 0 .. io.len[i]
    BY <1>4
  <2> QED
    BY <1>1, <2>1, <2>2 DEF Padded
<1>6. buf' \in [Readers -> [Offsets -> Nat]]
  <2>1. \A i \in Readers : \A k \in 0 .. io.len[i] : k \in Nat
    BY <1>4
  <2>2. \A i \in Readers : buf'[i] \in [Offsets -> Nat]
    BY <1>5, <2>1
  <2> QED
    BY <1>1, <2>2
<1>7. \A o \in 1 .. ActualLen : block'[o] = ColumnAt(Base + o)
  <2>1. ASSUME NEW o \in 1 .. ActualLen
        PROVE  block'[o] = ColumnAt(Base + o)
    <3>1. \A i \in Readers : buf'[i][o] = IF Base + o <= io.len[i] THEN Base + o ELSE 0
      BY <1>1, PaddedIsColumn
    <3>2. block'[o] = [i \in Readers |-> buf'[i][o]]
      BY <1>1
    <3> QED
      BY <3>1, <3>2 DEF ColumnAt
  <2> QED
    BY <2>1
<1>8. block' \in Seq(Columns) /\ Len(block') = ActualLen
  <2>1. \A o \in 1 .. ActualLen : ColumnAt(Base + o) \in Columns
    BY <1>2, <1>3, ColumnTypes
  <2>2. block' = [o \in 1 .. ActualLen |-> ColumnAt(Base + o)]
    BY <1>1, <1>7
  <2> QED
    BY <1>3, <2>1, <2>2
<1>9. \A i \in Readers : pos[i] = ReadUpTo(Base + ActualLen, i)
  <2> SUFFICES ASSUME NEW i \in Readers
               PROVE  pos[i] = ReadUpTo(Base + ActualLen, i)
    OBVIOUS
  <2>1. reader[i] = "done"
    BY <1>1 DEF AllDone, IInv, TypeOK
  <2>2. got[i] <= ActualLen
    BY ActualIsGreatest DEF IInv
  <2> HIDE DEF Base
  <2>3. pos[i] = ReadUpTo(Base, i) + got[i] /\ (got[i] = BlockSize \/ pos[i] = io.len[i])
    BY <1>2, <2>1 DEF ReadingFrom
  <2>4. CASE Base < io.len[i]
    BY <1>2, <1>3, <1>4, <2>2, <2>3, <2>4 DEF ReadUpTo
  <2>5. CASE ~(Base < io.len[i])
    BY <1>2, <1>3, <1>4, <2>3, <2>5 DEF ReadUpTo
  <2> QED
    BY <2>4, <2>5
<1>10. Base + ActualLen <= LongestStream
  <2>1. PICK i \in Readers : got[i] = ActualLen
    BY ActualIsGreatest DEF IInv
  <2>2. io.len[i] <= LongestStream /\ LongestStream \in Nat
    BY LongestIsGreatest DEF IInv
  <2> HIDE DEF Base
  <2> QED
    BY <1>2, <1>3, <1>4, <2>1, <2>2 DEF ReadingFrom, ReadUpTo
<1>11. Base' = Base
  <2>1. Base = Len(out[0]) - 0 /\ Base' = Len(out[0]) - 0
    BY <1>1, ConstantFacts DEF Base
  <2> QED
    BY <2>1
<1>12. \A p \in Writers : Len(out[p]) = Base
  BY <1>2 DEF ReadingFrom
<1>13. WritingFrom(Base)'
  <2> HIDE DEF Base
  <2>1. LongestStream' = LongestStream
    BY <1>1, SameWhole
  <2>2. \A o \in 1 .. ActualLen : block'[o] = [i \in Readers |-> IF Base + o <= io'.len[i] THEN Base + o ELSE 0]
    BY <1>1, <1>7 DEF ColumnAt
  <2>3. \A i \in Readers :
          pos'[i] = IF Base + ActualLen < io'.len[i] THEN Base + ActualLen ELSE io'.len[i]
    BY <1>1, <1>9 DEF ReadUpTo
  <2>4. \A p \in Writers : /\ Len(out'[p]) = Base + sent'[p]
                          /\ sent'[p] <= Len(block')
                          /\ writer'[p] # "done"
    BY <1>1, <1>2, <1>3, <1>8, <1>12
  <2> QED
    BY <1>8, <1>10, <1>11, <2>1, <2>2, <2>3, <2>4 DEF WritingFrom, ColumnAt, ReadUpTo
<1>14. TypeOK'
  <2> USE DEF IInv, TypeOK
  <2>1. (io \in Streams)' /\ phase' \in {"read", "write", "returned"} /\ result' \in Results
    BY <1>1
  <2>2. (reader \in [Readers -> Tasks] /\ writer \in [Writers -> Tasks])'
    BY <1>1 DEF Tasks
  <2>3. (\A i \in Readers : pos[i] \in 0 .. io.len[i])'
    BY <1>1
  <2>4. (got \in [Readers -> 0 .. BlockSize] /\ sent \in [Writers -> 0 .. BlockSize])'
    BY <1>1, ConstantFacts
  <2>5. (\A i \in Readers : buf[i] \in [Offsets -> 0 .. io.len[i]])'
    BY <1>1, <1>5
  <2>6. (Len(block) <= BlockSize /\ first \in Writers \cup {NoError})'
    BY <1>1, <1>3, <1>8
  <2>7. (\A p \in Writers : Len(out[p]) <= io.room[p])'
    BY <1>1
  <2> HIDE DEF IInv
  <2> QED
    BY <2>1, <2>2, <2>3, <2>4, <2>5, <2>6, <2>7
<1>15. Shapes'
  BY <1>1, <1>6, <1>8 DEF IInv, Shapes
<1>16. Prefixes'
  BY <1>1, PrefixesStay DEF IInv
<1>17. FirstIsLeast'
  <2>1. \A p \in Writers : writer[p] # "failed"
    BY <1>2 DEF ReadingFrom
  <2>2. Failures(writer) = {} /\ Failures(writer)' = {}
    BY <1>1, <2>1 DEF Failures, IInv, TypeOK
  <2> QED
    BY <1>1, <2>2 DEF IInv, FirstIsLeast
<1>18. ErrorIsOfAFailure' /\ result' # Ok /\ result' = Pending
  BY <1>1, <1>2 DEF ErrorIsOfAFailure, Pending, Ok
<1> QED
  BY <1>1, <1>2, <1>11, <1>13, <1>14, <1>15, <1>16, <1>17, <1>18 DEF IInv

----------------------------------------------------------------------------
(* The block is written.                                                     *)

\* While a block is written, Base is where every parity stream began it.
LEMMA WritingFacts ==
  ASSUME IInv, phase = "write"
  PROVE  /\ WritingFrom(Base) /\ Base \in Nat /\ result = Pending
         /\ block \in Seq(Columns) /\ Len(block) \in 0 .. BlockSize
         /\ \A q \in Writers : /\ sent[q] \in 0 .. Len(block)
                              /\ Len(out[q]) = Base + sent[q]
                              /\ out[q] \in Seq(Columns)
<1>1. WritingFrom(Base) /\ Base \in Nat /\ result = Pending /\ block \in Seq(Columns)
  BY DEF IInv, Shapes
<1>2. Len(block) \in Nat /\ Len(block) <= BlockSize
  BY <1>1, LenProperties DEF IInv, TypeOK
<1>3. \A q \in Writers : sent[q] \in 0 .. BlockSize /\ out[q] \in Seq(Columns)
  BY DEF IInv, TypeOK, Shapes
<1>4. \A q \in Writers : Len(out[q]) = Base + sent[q] /\ sent[q] <= Len(block)
  <2> HIDE DEF Base
  <2> QED
    BY <1>1 DEF WritingFrom
<1> QED
  BY <1>1, <1>2, <1>3, <1>4, ConstantFacts

\* A step of a writing task: the streams it leaves have as much of the block as
\* their tasks have sent.
LEMMA WritingKeeps ==
  ASSUME IInv, phase = "write", UNCHANGED <<io, phase, readVars, block, result>>,
         writer' \in [Writers -> Tasks], sent' \in [Writers -> 0 .. BlockSize],
         out' \in [Writers -> Seq(Columns)],
         first' \in Writers \cup {NoError}, FirstIsLeast',
         \A q \in Writers :
           /\ sent'[q] \in 0 .. Len(block)
           /\ Len(out'[q]) = Base + sent'[q]
           /\ Len(out'[q]) <= io.room[q]
           /\ \A k \in 1 .. Len(out'[q]) : out'[q][k] = ColumnAt(k)
           /\ writer'[q] = "done" => sent'[q] = Len(block)
  PROVE  IInv'
<1> USE DEF readVars
<1>1. WritingFrom(Base) /\ Base \in Nat /\ result = Pending /\ Len(block) \in 0 .. BlockSize
  BY WritingFacts
<1>2. TypeOK'
  <2> USE DEF IInv, TypeOK
  <2>1. (io \in Streams)' /\ phase' \in {"read", "write", "returned"} /\ result' \in Results
    OBVIOUS
  <2>2. (reader \in [Readers -> Tasks])'
    OBVIOUS
  <2>3. (\A i \in Readers : pos[i] \in 0 .. io.len[i])'
    OBVIOUS
  <2>4. (got \in [Readers -> 0 .. BlockSize])'
    OBVIOUS
  <2>5. (\A i \in Readers : buf[i] \in [Offsets -> 0 .. io.len[i]])'
    OBVIOUS
  <2>6. (Len(block) <= BlockSize)'
    OBVIOUS
  <2>7. (\A q \in Writers : Len(out[q]) <= io.room[q])'
    OBVIOUS
  <2> HIDE DEF IInv
  <2> QED
    BY <2>1, <2>2, <2>3, <2>4, <2>5, <2>6, <2>7
<1>3. Shapes'
  BY DEF Shapes, IInv
<1>4. LongestStream' = LongestStream /\ LongestStream \in Nat
  BY SameWhole, LongestIsGreatest DEF IInv
<1>5. Base' = Base
  <2>1. Base' = Len(out'[0]) - sent'[0]
    BY DEF Base
  <2>2. sent'[0] \in 0 .. Len(block) /\ Len(out'[0]) = Base + sent'[0]
    BY ConstantFacts
  <2> HIDE DEF Base
  <2> QED
    BY <1>1, <2>1, <2>2
<1> HIDE DEF Base
<1>6. Prefixes'
  <2>1. Base + Len(block) <= LongestStream
    BY <1>1 DEF WritingFrom
  <2>2. \A q \in Writers : Len(out'[q]) <= LongestStream
    BY <1>1, <1>4, <2>1
  <2>3. ASSUME NEW q \in Writers, NEW r \in Writers
        PROVE  Len(out'[q]) - Len(out'[r]) <= BlockSize
    <3>1. /\ Len(out'[q]) = Base + sent'[q] /\ sent'[q] \in 0 .. Len(block)
          /\ Len(out'[r]) = Base + sent'[r] /\ sent'[r] \in 0 .. Len(block)
      OBVIOUS
    <3>2. Base \in Nat /\ BlockSize \in Nat /\ Len(block) \in 0 .. BlockSize
      BY <1>1, ConstantFacts
    <3> QED
      BY ONLY <3>1, <3>2
  <2>4. \A q \in Writers : \A k \in 1 .. Len(out'[q]) :
          out'[q][k] = [i \in Readers |-> IF k <= io'.len[i] THEN k ELSE 0]
    <3>1. \A q \in Writers : \A k \in 1 .. Len(out'[q]) : out'[q][k] = ColumnAt(k)
      OBVIOUS
    <3>2. io' = io
      OBVIOUS
    <3> QED
      BY ONLY <3>1, <3>2 DEF ColumnAt
  <2> QED
    BY <1>4, <2>2, <2>3, <2>4 DEF Prefixes, ColumnAt
<1>7. WritingFrom(Base)'
  <2>1. \A i \in Readers : pos'[i] = ReadUpTo(Base + Len(block), i)
    BY <1>1 DEF WritingFrom
  <2>2. \A o \in 1 .. Len(block) : block[o] = ColumnAt(Base + o)
    BY <1>1 DEF WritingFrom
  <2>3. Base + Len(block) <= LongestStream
    BY <1>1 DEF WritingFrom
  <2> QED
    BY <1>1, <1>4, <1>5, <2>1, <2>2, <2>3 DEF WritingFrom, ReadUpTo, ColumnAt
<1>8. result' = Pending /\ ErrorIsOfAFailure' /\ result' # Ok
  BY <1>1 DEF ErrorIsOfAFailure, Pending, Ok
<1> QED
  BY <1>1, <1>2, <1>3, <1>5, <1>6, <1>7, <1>8 DEF IInv

LEMMA WriteSomeKeeps ==
  ASSUME IInv, NEW p \in Writers, NEW n \in Offsets, WriteSome(p, n)
  PROVE  IInv'
<1> DEFINE piece == SubSeq(block, sent[p] + 1, sent[p] + n)
<1>1. /\ phase = "write" /\ UNCHANGED <<io, phase, readVars, block, first, result>>
      /\ writer[p] \in {"todo", "running"}
      /\ sent[p] + n <= Len(block) /\ Len(out[p]) + n <= io.room[p]
      /\ out' = [out EXCEPT ![p] = @ \o piece]
      /\ sent' = [sent EXCEPT ![p] = @ + n]
      /\ writer' = [writer EXCEPT ![p] = IF sent'[p] = Len(block) THEN "done" ELSE "running"]
  BY DEF WriteSome, MayRun
<1>2. /\ WritingFrom(Base) /\ Base \in Nat
      /\ block \in Seq(Columns) /\ Len(block) \in 0 .. BlockSize
      /\ \A q \in Writers : /\ sent[q] \in 0 .. Len(block)
                           /\ Len(out[q]) = Base + sent[q]
                           /\ out[q] \in Seq(Columns)
  BY <1>1, WritingFacts
<1> HIDE DEF Base
<1>3. n \in Nat \ {0} /\ sent[p] + n \in 0 .. Len(block) /\ sent[p] + n \in 0 .. BlockSize
  BY <1>1, <1>2, ConstantFacts DEF Offsets
<1>4. /\ piece \in Seq(Columns) /\ Len(piece) = n
      /\ \A k \in 1 .. n : piece[k] = ColumnAt(Base + sent[p] + k)
  <2>1. \A k \in sent[p] + 1 .. sent[p] + n : k \in 1 .. Len(block) /\ block[k] \in Columns
    BY <1>2, <1>3, LenProperties
  <2>2. sent[p] + 1 \in Int /\ sent[p] + n \in Int
    BY <1>2, <1>3
  <2>3. /\ piece \in Seq(Columns)
        /\ Len(piece) = IF sent[p] + 1 <= sent[p] + n THEN (sent[p] + n) - (sent[p] + 1) + 1 ELSE 0
        /\ \A k \in 1 .. (sent[p] + n) - (sent[p] + 1) + 1 : piece[k] = block[(sent[p] + 1) + k - 1]
    <3> HIDE DEF Columns
    <3> QED
      BY ONLY <2>1, <2>2, SubSeqProperties
  <2> HIDE DEF piece
  <2>4. Len(piece) = n
    BY <1>2, <1>3, <2>3
  <2>5. ASSUME NEW k \in 1 .. n
        PROVE  piece[k] = ColumnAt(Base + sent[p] + k)
    <3>1. /\ k \in 1 .. (sent[p] + n) - (sent[p] + 1) + 1
          /\ (sent[p] + 1) + k - 1 = sent[p] + k /\ sent[p] + k \in 1 .. Len(block)
          /\ Base + (sent[p] + k) = Base + sent[p] + k
      <4>1. /\ Base \in Nat /\ sent[p] \in Nat /\ n \in Nat /\ Len(block) \in Nat
            /\ sent[p] + n <= Len(block)
        BY <1>2, <1>3
      <4>2. k \in Nat /\ 1 <= k /\ k <= n
        BY <1>3
      <4>3. k \in 1 .. (sent[p] + n) - (sent[p] + 1) + 1 /\ (sent[p] + 1) + k - 1 = sent[p] + k
        BY ONLY <4>1, <4>2
      <4>4. sent[p] + k \in 1 .. Len(block) /\ Base + (sent[p] + k) = Base + sent[p] + k
        BY ONLY <4>1, <4>2
      <4> QED
        BY ONLY <4>3, <4>4
    <3>2. piece[k] = block[sent[p] + k]
      BY <2>3, <3>1
    <3>3. block[sent[p] + k] = ColumnAt(Base + (sent[p] + k))
      BY <1>2, <3>1 DEF WritingFrom
    <3> QED
      BY <3>1, <3>2, <3>3
  <2> QED
    BY <2>3, <2>4, <2>5
<1> HIDE DEF piece
<1>5. /\ out[p] \o piece \in Seq(Columns)
      /\ Len(out[p] \o piece) = Len(out[p]) + n
      /\ \A k \in 1 .. Len(out[p]) + n : (out[p] \o piece)[k] =
            IF k <= Len(out[p]) THEN out[p][k] ELSE piece[k - Len(out[p])]
  BY <1>2, <1>4, ConcatProperties
<1>6. /\ out' \in [Writers -> Seq(Columns)] /\ out'[p] = out[p] \o piece
      /\ \A q \in Writers \ {p} : out'[q] = out[q]
  <2>1. out \in [Writers -> Seq(Columns)]
    BY DEF IInv, Shapes
  <2> QED
    BY <1>1, <1>5, <2>1
<1>7. /\ sent' \in [Writers -> 0 .. BlockSize] /\ sent'[p] = sent[p] + n
      /\ \A q \in Writers \ {p} : sent'[q] = sent[q]
  <2>1. sent \in [Writers -> 0 .. BlockSize]
    BY DEF IInv, TypeOK
  <2> QED
    BY <1>1, <1>3, <2>1
<1>8. /\ writer' \in [Writers -> Tasks]
      /\ writer'[p] = IF sent'[p] = Len(block) THEN "done" ELSE "running"
      /\ \A q \in Writers \ {p} : writer'[q] = writer[q]
  <2>1. writer \in [Writers -> Tasks]
    BY DEF IInv, TypeOK
  <2>2. (IF sent'[p] = Len(block) THEN "done" ELSE "running") \in Tasks
    BY DEF Tasks
  <2> QED
    BY <1>1, <2>1, <2>2
<1>9. first' \in Writers \cup {NoError}
  BY <1>1 DEF IInv, TypeOK
<1>10. FirstIsLeast'
  <2>1. Failures(writer)' = Failures(writer)
    <3>1. DOMAIN writer' = Writers /\ DOMAIN writer = Writers
      BY <1>8 DEF IInv, TypeOK
    <3>2. \A q \in Writers : writer'[q] = "failed" <=> writer[q] = "failed"
      BY <1>1, <1>8
    <3> QED
      BY <3>1, <3>2 DEF Failures
  <2> QED
    BY <1>1, <2>1 DEF IInv, FirstIsLeast
<1>11. ASSUME NEW q \in Writers
       PROVE  /\ sent'[q] \in 0 .. Len(block)
              /\ Len(out'[q]) = Base + sent'[q]
              /\ Len(out'[q]) <= io.room[q]
              /\ \A k \in 1 .. Len(out'[q]) : out'[q][k] = ColumnAt(k)
              /\ writer'[q] = "done" => sent'[q] = Len(block)
  <2>1. /\ \A k \in 1 .. Len(out[q]) : out[q][k] = ColumnAt(k)
        /\ Len(out[q]) <= io.room[q]
    BY DEF IInv, Prefixes, TypeOK
  <2>2. CASE q # p
    BY <1>2, <1>6, <1>7, <1>8, <2>1, <2>2 DEF WritingFrom
  <2>3. CASE q = p
    <3>1. sent'[p] \in 0 .. Len(block) /\ (writer'[p] = "done" => sent'[p] = Len(block))
      BY <1>3, <1>7, <1>8
    <3>2. Len(out'[p]) = Len(out[p]) + n /\ Len(out[p]) = Base + sent[p]
      BY <1>2, <1>5, <1>6
    <3>3. ASSUME NEW k \in 1 .. Len(out[p]) + n
          PROVE  out'[p][k] = ColumnAt(k)
      <4>1. CASE k <= Len(out[p])
        BY <1>2, <1>5, <1>6, <2>1, <2>3, <3>2, <4>1
      <4>2. CASE ~(k <= Len(out[p]))
        <5>1. k - Len(out[p]) \in 1 .. n /\ Base + sent[p] + (k - Len(out[p])) = k
          <6>1. Base \in Nat /\ sent[p] \in Nat /\ Len(out[p]) = Base + sent[p] /\ n \in Nat
            BY <1>2, <1>3
          <6>2. k \in Nat /\ k > Len(out[p]) /\ k <= Len(out[p]) + n
            BY <4>2, <6>1
          <6>3. k - Len(out[p]) \in 1 .. n
            BY ONLY <6>1, <6>2
          <6>4. Base + sent[p] + (k - Len(out[p])) = k
            BY ONLY <6>1, <6>2
          <6> QED
            BY ONLY <6>3, <6>4
        <5>2. out'[p][k] = piece[k - Len(out[p])]
          <6>1. out'[p] = out[p] \o piece
            BY <1>6
          <6>2. (out[p] \o piece)[k] = piece[k - Len(out[p])]
            BY <1>5, <4>2
          <6> QED
            BY ONLY <6>1, <6>2
        <5> QED
          BY <1>4, <5>1, <5>2
      <4> QED
        BY <4>1, <4>2
    <3>4. Len(out'[p]) = Base + sent'[p] /\ Len(out'[p]) <= io.room[p]
      BY <1>1, <1>2, <1>3, <1>7, <3>2
    <3> QED
      BY <2>3, <3>1, <3>2, <3>3, <3>4
  <2> QED
    BY <2>2, <2>3
<1> QED
  BY <1>1, <1>6, <1>7, <1>8, <1>9, <1>10, <1>11, WritingKeeps

LEMMA WriteFailsKeeps ==
  ASSUME IInv, NEW p \in Writers, WriteFails(p)
  PROVE  IInv'
<1>1. /\ phase = "write" /\ UNCHANGED <<io, phase, readVars, block, sent, out, result>>
      /\ first' = RecordMin(p) /\ writer' = [writer EXCEPT ![p] = "failed"]
  BY DEF WriteFails
<1>2. /\ WritingFrom(Base)
      /\ \A q \in Writers : sent[q] \in 0 .. Len(block) /\ Len(out[q]) = Base + sent[q]
  BY <1>1, WritingFacts
<1>3. /\ writer' \in [Writers -> Tasks] /\ writer'[p] = "failed"
      /\ \A q \in Writers \ {p} : writer'[q] = writer[q]
  <2>1. writer \in [Writers -> Tasks] /\ "failed" \in Tasks
    BY DEF IInv, TypeOK, Tasks
  <2> QED
    BY <1>1, <2>1
<1>4. first' \in Writers \cup {NoError}
  BY <1>1 DEF RecordMin, IInv, TypeOK
<1>5. FirstIsLeast'
  <2>1. Failures(writer)' = Failures(writer) \cup {p}
    <3>1. DOMAIN writer' = Writers /\ DOMAIN writer = Writers
      BY <1>3 DEF IInv, TypeOK
    <3> QED
      BY <1>3, <3>1 DEF Failures
  <2>2. \A q \in Failures(writer) : q \in Nat /\ q # NoError
    BY DEF Failures, IInv, TypeOK, Writers, NoError
  <2>3. p \in Nat
    BY DEF Writers
  <2>4. first' \in Failures(writer) \cup {p} /\ \A q \in Failures(writer) \cup {p} : first' <= q
    <3>1. CASE Failures(writer) = {}
      BY <1>1, <2>3, <3>1 DEF IInv, FirstIsLeast, RecordMin
    <3>2. CASE Failures(writer) # {}
      <4>1. first \in Failures(writer) /\ \A q \in Failures(writer) : first <= q
        BY <3>2 DEF IInv, FirstIsLeast
      <4> QED
        BY <1>1, <2>2, <2>3, <4>1 DEF RecordMin
    <3> QED
      BY <3>1, <3>2
  <2> QED
    BY <2>1, <2>4 DEF FirstIsLeast
<1>6. /\ sent \in [Writers -> 0 .. BlockSize] /\ out \in [Writers -> Seq(Columns)]
      /\ \A q \in Writers : Len(out[q]) <= io.room[q]
      /\ \A q \in Writers : \A k \in 1 .. Len(out[q]) : out[q][k] = ColumnAt(k)
  BY DEF IInv, TypeOK, Shapes, Prefixes
<1>7. \A q \in Writers : writer'[q] = "done" => sent[q] = Len(block)
  <2> HIDE DEF Base
  <2> QED
    BY <1>2, <1>3 DEF WritingFrom
<1> HIDE DEF Base
<1> QED
  BY <1>1, <1>2, <1>3, <1>4, <1>5, <1>6, <1>7, WritingKeeps

LEMMA NextBlockKeeps ==
  ASSUME IInv, NextBlock
  PROVE  IInv'
<1>1. /\ phase = "write" /\ phase' = "read" /\ AllDone(writer)
      /\ reader' = [i \in Readers |-> "todo"] /\ got' = [i \in Readers |-> 0]
      /\ UNCHANGED <<io, pos, buf, block, writer, sent, out, first, result>>
  BY DEF NextBlock, writeVars
<1>2. /\ WritingFrom(Base) /\ Base \in Nat /\ result = Pending /\ Len(block) \in 0 .. BlockSize
      /\ \A q \in Writers : sent[q] \in 0 .. Len(block) /\ Len(out[q]) = Base + sent[q]
  BY <1>1, WritingFacts
<1>3. \A q \in Writers : writer[q] = "done"
  BY <1>1 DEF AllDone, IInv, TypeOK
<1>4. \A q \in Writers : Len(out[q]) = Base + Len(block)
  <2> HIDE DEF Base
  <2> QED
    BY <1>2, <1>3 DEF WritingFrom
<1>5. Base' = Base + Len(block)
  <2>1. Base' = Len(out[0]) - 0
    BY <1>1, ConstantFacts DEF Base
  <2>2. Len(out[0]) = Base + Len(block)
    BY <1>4, ConstantFacts
  <2> HIDE DEF Base
  <2> QED
    BY <1>2, <2>1, <2>2
<1>6. TypeOK'
  <2> USE DEF IInv, TypeOK
  <2>1. (io \in Streams)' /\ phase' \in {"read", "write", "returned"} /\ result' \in Results
    BY <1>1
  <2>2. (reader \in [Readers -> Tasks] /\ writer \in [Writers -> Tasks])'
    BY <1>1 DEF Tasks
  <2>3. (\A i \in Readers : pos[i] \in 0 .. io.len[i])'
    BY <1>1
  <2>4. (got \in [Readers -> 0 .. BlockSize] /\ sent \in [Writers -> 0 .. BlockSize])'
    BY <1>1, ConstantFacts
  <2>5. (\A i \in Readers : buf[i] \in [Offsets -> 0 .. io.len[i]])'
    BY <1>1
  <2>6. (Len(block) <= BlockSize /\ first \in Writers \cup {NoError})'
    BY <1>1
  <2>7. (\A p \in Writers : Len(out[p]) <= io.room[p])'
    BY <1>1
  <2> HIDE DEF IInv
  <2> QED
    BY <2>1, <2>2, <2>3, <2>4, <2>5, <2>6, <2>7
<1>7. Shapes'
  BY <1>1 DEF IInv, Shapes
<1>8. Prefixes'
  BY <1>1, PrefixesStay DEF IInv
<1>9. FirstIsLeast'
  BY <1>1 DEF IInv, FirstIsLeast, Failures
<1>10. result' = Pending /\ ErrorIsOfAFailure' /\ result' # Ok
  BY <1>1, <1>2 DEF ErrorIsOfAFailure, Pending, Ok
<1>11. ReadingFrom(Base)'
  <2> HIDE DEF Base
  <2>1. \A i \in Readers : pos[i] = ReadUpTo(Base + Len(block), i)
    BY <1>2 DEF WritingFrom
  <2>2. \A i \in Readers : io.len[i] \in Nat /\ pos[i] \in 0 .. io.len[i]
    BY IoTypes DEF IInv, TypeOK
  <2>3. \A i \in Readers : pos'[i] = ReadUpTo(Base + Len(block), i) + got'[i]
    BY <1>1, <2>1, <2>2
  <2>4. \A i \in Readers : \A o \in 1 .. got'[i] : FALSE
    BY <1>1
  <2>5. \A i \in Readers : reader'[i] # "done"
    BY <1>1
  <2> QED
    BY <1>1, <1>3, <1>4, <1>5, <2>3, <2>4, <2>5 DEF ReadingFrom, ReadUpTo
<1> QED
  BY <1>1, <1>2, <1>5, <1>6, <1>7, <1>8, <1>9, <1>10, <1>11 DEF IInv

----------------------------------------------------------------------------
(* The invariant and the theorems.                                           *)

LEMMA StutterKeeps ==
  ASSUME IInv, UNCHANGED vars
  PROVE  IInv'
<1> USE DEF vars
<1>1. TypeOK'
  BY DEF IInv, TypeOK
<1>2. Shapes' /\ FirstIsLeast' /\ ErrorIsOfAFailure'
  BY DEF IInv, Shapes, FirstIsLeast, ErrorIsOfAFailure, Failures
<1>3. Prefixes'
  BY PrefixesStay DEF IInv
<1>4. Base' = Base /\ LongestStream' = LongestStream
  BY SameWhole DEF Base
<1>5. (phase = "read" => ReadingFrom(Base))'
  <2> HIDE DEF Base
  <2> QED
    BY <1>4 DEF IInv, ReadingFrom, ReadUpTo
<1>6. (phase = "write" => WritingFrom(Base))'
  <2>1. \A b, i : ReadUpTo(b, i)' = IF b' < io.len[i'] THEN b' ELSE io.len[i']
    BY DEF ReadUpTo
  <2> HIDE DEF Base
  <2> QED
    BY <1>4 DEF IInv, WritingFrom, ReadUpTo, ColumnAt
<1> QED
  BY <1>1, <1>2, <1>3, <1>4, <1>5, <1>6 DEF IInv

\* No step of any task in any order breaks the invariant.
LEMMA Invariance == Spec => []IInv
<1>1. ASSUME IInv, [Next]_vars
      PROVE  IInv'
  BY <1>1, ReadSomeKeeps, ReadEndsOrFailsKeeps, ReturnReadErrorKeeps, ReturnOkKeeps,
     EncodeBlockKeeps, WriteSomeKeeps, WriteFailsKeeps, ReturnWriteErrorKeeps,
     NextBlockKeeps, StutterKeeps DEF Next
<1> QED
  BY <1>1, InitInvariant, PTL DEF Spec

\* Every variable keeps its type.
THEOREM TypeCorrect == Spec => []TypeOK
<1>1. IInv => TypeOK
  BY DEF IInv
<1> QED
  BY <1>1, Invariance, PTL

\* A prefix by its columns is a prefix of the sequence.
LEMMA PrefixOfWhole ==
  ASSUME IInv, NEW p \in Writers
  PROVE  out[p] = SubSeq(WholeParity, 1, Len(out[p]))
<1>1. LongestStream \in Nat /\ Len(out[p]) <= LongestStream /\ out[p] \in Seq(Columns)
  BY LongestIsGreatest DEF IInv, Prefixes, Shapes
<1>2. Len(out[p]) \in Nat
  BY <1>1, LenProperties
<1>3. \A k \in 1 .. LongestStream : WholeParity[k] = ColumnAt(k)
  BY DEF WholeParity, ColumnAt
<1>4. \A k \in 1 .. Len(out[p]) : WholeParity[k] = ColumnAt(k) /\ WholeParity[k] \in Columns
  BY <1>1, <1>2, <1>3, ColumnTypes
<1> DEFINE prefix == SubSeq(WholeParity, 1, Len(out[p]))
<1>5. /\ prefix \in Seq(Columns)
      /\ Len(prefix) = IF 1 <= Len(out[p]) THEN Len(out[p]) - 1 + 1 ELSE 0
      /\ \A k \in 1 .. Len(out[p]) - 1 + 1 : prefix[k] = WholeParity[1 + k - 1]
  BY ONLY <1>2, <1>4, SubSeqProperties
<1> HIDE DEF prefix
<1>6. Len(prefix) = Len(out[p])
  BY <1>2, <1>5
<1>7. \A k \in 1 .. Len(out[p]) : out[p][k] = prefix[k]
  <2>1. \A k \in 1 .. Len(out[p]) : k \in 1 .. Len(out[p]) - 1 + 1 /\ 1 + k - 1 = k
    BY <1>2
  <2>2. \A k \in 1 .. Len(out[p]) : out[p][k] = ColumnAt(k)
    BY DEF IInv, Prefixes
  <2> QED
    BY <1>4, <1>5, <2>1, <2>2
<1>8. out[p] = prefix
  BY <1>1, <1>5, <1>6, <1>7, SeqEqual
<1> QED
  BY <1>8 DEF prefix

\* Every parity stream always holds a prefix of the whole parity, and no stream
\* is more than a block ahead of another, however the tasks interleave, whatever
\* fails, and into whatever parts the streams divide what they read and write.
THEOREM ParityIsAlwaysAPrefix == Spec => []ParityIsPrefix
<1>1. IInv => ParityIsPrefix
  BY PrefixOfWhole DEF IInv, Prefixes, ParityIsPrefix
<1> QED
  BY <1>1, Invariance, PTL

\* Ok is returned only when every parity stream holds the whole parity.
THEOREM OkMeansComplete == Spec => []OkIsComplete
<1>1. ASSUME IInv, result = Ok, NEW p \in Writers
      PROVE  out[p] = WholeParity
  <2>1. Len(out[p]) = LongestStream
    BY <1>1 DEF IInv
  <2>2. LongestStream \in Nat
    BY <1>1, LongestIsGreatest DEF IInv
  <2>3. \A k \in 1 .. LongestStream : ColumnAt(k) \in Columns
    BY <2>2, ColumnTypes
  <2>4. WholeParity = [k \in 1 .. LongestStream |-> ColumnAt(k)]
    BY DEF WholeParity, ColumnAt
  <2>5. WholeParity \in Seq(Columns) /\ Len(WholeParity) = LongestStream
    BY <2>2, <2>3, <2>4
  <2>6. out[p] = SubSeq(WholeParity, 1, Len(WholeParity))
    BY <1>1, <2>1, <2>5, PrefixOfWhole
  <2> QED
    BY <2>5, <2>6, SubSeqFull
<1>2. IInv => OkIsComplete
  BY <1>1 DEF OkIsComplete
<1> QED
  BY <1>2, Invariance, PTL

\* The error that is returned is of a stream that failed in this call; of the
\* writers that failed it is the one with the least index.
THEOREM ErrorsAreOfFailures == Spec => []ErrorIsOfAFailure
<1>1. IInv => ErrorIsOfAFailure
  BY DEF IInv
<1> QED
  BY <1>1, Invariance, PTL

=============================================================================
