---------------------------- MODULE StreamVerify ----------------------------
(***************************************************************************)
(* verify_stream on the same cursors, between calls of reconstruct_stream.  *)
(*                                                                          *)
(* verify_stream takes readers, so it reads each cursor from where it        *)
(* stands: at its start when the caller has just made or rewound it, at its  *)
(* end after a call that read it. reconstruct_stream rewinds the cursors it  *)
(* reads and appends to the others without moving them.                     *)
(***************************************************************************)
EXTENDS StreamReconstruct

VARIABLES
  at,      \* where each cursor stands
  verdict  \* "reading" inside a call of verify_stream, then what it returned;
           \* "none" once the caller goes on

sessionVars == <<vars, at, verdict>>

----------------------------------------------------------------------------
(* reconstruct_stream and its caller, with the positions.                    *)

\* The caller puts a new cursor in place of a shard's.
Replace(i) ==
  /\ verdict # "reading"
  /\ Lose(i) \/ Fetch(i) \/ \E n \in 1 .. Full : Cut(i, n)
  /\ at' = [at EXCEPT ![i] = 0]
  /\ verdict' = "none"

Rewind ==
  /\ verdict # "reading" /\ phase = "idle"
  /\ at' = [i \in Shards |-> 0]
  /\ verdict' = "none"
  /\ Forgotten
  /\ UNCHANGED <<cursor, phase, blockSize>>

\* The present cursors are rewound after the checks, if there is work to do.
BeginReconstruct(size) ==
  /\ verdict # "reading"
  /\ Begin(size)
  /\ at' = [i \in Shards |-> IF phase' = "loop" /\ i \in present' THEN 0 ELSE at[i]]
  /\ verdict' = "none"

ReconstructStep ==
  /\ CallNext
  /\ at' = [i \in Shards |-> IF i \in present THEN at[i] + Taken(i) ELSE at[i]]
  /\ UNCHANGED verdict

----------------------------------------------------------------------------
(* verify_stream.                                                            *)

Unread(i) == SubSeq(cursor[i], at[i] + 1, Len(cursor[i]))

BeginVerify(size) ==
  /\ verdict # "reading" /\ phase = "idle"
  /\ verdict' = "reading"
  /\ blockSize' = size
  /\ before' = [i \in Shards |-> Unread(i)]
  /\ result' = "none" /\ present' = {} /\ pos' = 0
  /\ UNCHANGED <<cursor, phase, at>>

Read(i) == Min({blockSize, Len(Unread(i))})

\* Bug: the block is as long as the shortest read, so that nothing has to
\* be padded.
ShortestRead == Min({Read(i) : i \in Shards})

BlockLen == Max({Read(i) : i \in Shards})

\* A short read is padded with zeros to the length of the block.
Column(rest, k) == [i \in Shards |-> IF k <= Len(rest[i]) THEN rest[i][k] ELSE 0]

\* verify_par of one column: the bytes of one position of the codeword, or only
\* zeros; bytes of different positions have nothing to do with each other.
Valid(column) == \A i, j \in Shards : column[i] = column[j]

\* One turn of the loop: all_eof, an invalid block, or the next one.
VerifyBlock ==
  /\ verdict = "reading"
  /\ LET rest == [i \in Shards |-> Unread(i)]
     IN verdict' = CASE BlockLen = 0 -> "valid"
                     [] BlockLen # 0 /\ \E k \in 1 .. BlockLen : ~Valid(Column(rest, k)) ->
                          "invalid"
                     [] OTHER -> "reading"
  /\ at' = [i \in Shards |-> at[i] + Read(i)]
  /\ UNCHANGED vars

----------------------------------------------------------------------------

SessionInit ==
  /\ Init
  /\ at = [i \in Shards |-> 0]
  /\ verdict = "none"

SessionStep == ReconstructStep \/ VerifyBlock

SessionNext ==
  \/ \E i \in Shards : Replace(i)
  \/ Rewind
  \/ \E size \in BlockSizes : BeginReconstruct(size) \/ BeginVerify(size)
  \/ SessionStep

\* A call that runs is not suspended for ever.
SessionSpec == SessionInit /\ [][SessionNext]_sessionVars /\ WF_sessionVars(SessionStep)

----------------------------------------------------------------------------
(* Properties.                                                               *)

\* The verdict of verify_stream does not depend on the block size: it is that of
\* one verification of all that the cursors had left to read, the short ones
\* padded with zeros at their ends; reading stops early only at a bad block.
VerdictIsOfTheUnread ==
  verdict \in {"valid", "invalid"} =>
    (verdict = "valid" <=> \A k \in 1 .. Full : Valid(Column(before, k)))

\* Both calls return.
CallsReturn == (phase = "loop" \/ verdict = "reading") ~> (phase = "idle" /\ verdict # "reading")
=============================================================================
