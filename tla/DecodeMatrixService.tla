------------------------- MODULE DecodeMatrixService -------------------------
(***************************************************************************)
(* What get_data_decode_matrix promises its callers, with no cache in       *)
(* sight: a call for a set of present shards ends with the inverse of the   *)
(* sub-matrix of the first DataShards of them, or with the error of that    *)
(* sub-matrix, whatever other threads ask for meanwhile.                    *)
(***************************************************************************)
EXTENDS Codec

CONSTANT Threads

VARIABLES
  active,  \* the threads inside a call
  present, \* the present shards each thread last asked for
  result   \* what each thread's last finished call returned

serviceVars == <<active, present, result>>

NoAnswer == [status |-> "none", rows |-> {}]

Init ==
  /\ active = {}
  /\ present = [t \in Threads |-> {}]
  /\ result = [t \in Threads |-> NoAnswer]

Call(t) ==
  /\ t \notin active
  /\ active' = active \cup {t}
  /\ \E p \in Decodable : present' = [present EXCEPT ![t] = p]
  /\ UNCHANGED result

Return(t) ==
  /\ t \in active
  /\ active' = active \ {t}
  /\ result' = [result EXCEPT ![t] = Invert(FirstPresent(present[t]))]
  /\ UNCHANGED present

\* A caller that names more rows than there are data shards is turned away.
Reject(t) ==
  /\ t \notin active
  /\ result' = [result EXCEPT ![t] = Failure("TooFewShardsPresent")]
  /\ UNCHANGED <<active, present>>

Next == \E t \in Threads : Call(t) \/ Return(t) \/ Reject(t)

Spec == Init /\ [][Next]_serviceVars

=============================================================================
