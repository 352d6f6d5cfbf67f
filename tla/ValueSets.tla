------------------------------ MODULE ValueSets -----------------------------
(***************************************************************************)
(* What arnm_roaring_bitmap and arnm_roaring_ops promise: every handle is  *)
(* a plain set of numbers.  A number is only ever added at the far end, an *)
(* operation fills an empty handle with set algebra cut to a closed range, *)
(* and a refused call changes no set.                                      *)
(***************************************************************************)
EXTENDS Integers

CONSTANTS Handles, Values,
          Calls,      \* <<out, a, b>> of the operations
          Ranges      \* <<min, max>>, both ends included

VARIABLES contents,   \* the numbers each handle holds
          answer      \* the call that succeeded, or why it was refused

Init == contents = [h \in Handles |-> {}] /\ answer = <<"freed">>

Invalid == answer' = <<"ERROR_INVALID_PARAM">> /\ UNCHANGED contents

Exhausted == answer' = <<"ERROR_RESOURCE_EXHAUSTED">> /\ UNCHANGED contents

Add(h, v) ==
  /\ answer' = <<"add", h, v>>
  /\ \A u \in contents[h] : u <= v
  /\ contents' = [contents EXCEPT ![h] = @ \cup {v}]

AddRefused(h, v) ==
  \/ Invalid /\ \E u \in contents[h] : v < u
  \/ Exhausted /\ \A u \in contents[h] : u < v

Algebra(op, a, b) ==
  CASE op = "and"    -> contents[a] \cap contents[b]
    [] op = "or"     -> contents[a] \cup contents[b]
    [] op = "andnot" -> contents[a] \ contents[b]
    [] op = "copy"   -> contents[a]

Fillable(c) == c[1] \notin {c[2], c[3]} /\ contents[c[1]] = {}

Combine(op, c, r) ==
  /\ answer' = <<op, c, r>>
  /\ Fillable(c)
  /\ contents' = [contents EXCEPT ![c[1]] = Algebra(op, c[2], c[3]) \cap r[1]..r[2]]

Free(h) == answer' = <<"freed">> /\ contents' = [contents EXCEPT ![h] = {}]

Next ==
  \/ \E h \in Handles, v \in Values : Add(h, v) \/ AddRefused(h, v)
  \/ \E h \in Handles : Free(h)
  \/ \E c \in Calls :
       IF Fillable(c)
       THEN Exhausted \/ \E op \in {"and", "or", "andnot", "copy"}, r \in Ranges : Combine(op, c, r)
       ELSE Invalid

Spec == Init /\ [][Next]_<<contents, answer>>
=============================================================================
