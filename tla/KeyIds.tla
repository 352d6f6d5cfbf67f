------------------------------- MODULE KeyIds -------------------------------
(***************************************************************************)
(* What a key map promises (include/arnm/key_map.h): keys become dense ids *)
(* 0, 1, 2, ... in the order they first arrive, and keep them until every  *)
(* key is forgotten at once.  A known key is always answered; a refused    *)
(* new one leaves every other id as it was.                                *)
(***************************************************************************)
EXTENDS Integers, Sequences

CONSTANTS Keys, Refusals,
          NOBODY       \* the key of a call that is about none

VARIABLES keys,     \* the key of id i at position i + 1
          answer    \* what the last call said, and of which key

Answer(key, kind, id) == [key |-> key, kind |-> kind, id |-> id]

Held == {keys[i] : i \in DOMAIN keys}

IdOf(k) == (CHOOSE i \in DOMAIN keys : keys[i] = k) - 1

Quiet == {Answer(NOBODY, kind, 0) : kind \in Refusals \cup {"DONE"}}

Init == keys = << >> /\ answer \in Quiet

Insert(k) ==
  \/ k \in Held /\ answer' = Answer(k, "FOUND", IdOf(k)) /\ UNCHANGED keys
  \/ k \notin Held /\ answer' = Answer(k, "INSERTED", Len(keys)) /\ keys' = Append(keys, k)
  \/ k \notin Held /\ (\E r \in Refusals : answer' = Answer(k, r, 0)) /\ UNCHANGED keys

Find(k) ==
  /\ answer' = IF k \in Held THEN Answer(k, "FOUND", IdOf(k)) ELSE Answer(k, "ABSENT", 0)
  /\ UNCHANGED keys

\* Calls about no key in particular: they forget every key, or none.
Manage == answer' \in Quiet /\ keys' \in {keys, << >>}

Next == (\E k \in Keys : Insert(k) \/ Find(k)) \/ Manage

Spec == Init /\ [][Next]_<<keys, answer>>
=============================================================================
