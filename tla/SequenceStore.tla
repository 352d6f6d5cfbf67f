---------------------------- MODULE SequenceStore ---------------------------
(***************************************************************************)
(* What a growing container promises (include/arnm/bucket_vector.h): the   *)
(* elements are a sequence that is appended to and cut at its end, a call  *)
(* that fails adds nothing, and what is copied out is what it held.        *)
(***************************************************************************)
EXTENDS Integers, Sequences

CONSTANT Values

VARIABLES elements,
          out       \* what the last copying call wrote to the caller

Init == elements = << >> /\ out = << >>

Push(v) == elements' = Append(elements, v) /\ UNCHANGED out

Pop ==
  /\ elements # << >>
  /\ elements' = SubSeq(elements, 1, Len(elements) - 1)
  /\ UNCHANGED out

Update(i, v) == elements' = [elements EXCEPT ![i] = v] /\ UNCHANGED out

Clear == elements' = << >> /\ UNCHANGED out

CopyAll == out' = elements /\ UNCHANGED elements

Next ==
  \/ \E v \in Values : Push(v)
  \/ \E i \in 1..Len(elements), v \in Values : Update(i, v)
  \/ Pop \/ Clear \/ CopyAll

Spec == Init /\ [][Next]_<<elements, out>>
=============================================================================
