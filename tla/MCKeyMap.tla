------------------------------ MODULE MCKeyMap ------------------------------
(* Seven keys of three kinds.  Keys of one kind share their hash, so they  *)
(* are interchangeable; two kinds meet in one home slot of the small table *)
(* and part when it doubles, and one kind wraps at the end of both.        *)
EXTENDS KeyMap, TLC

CONSTANTS A, B, C

AllKeys == A \cup B \cup C

HashOf(a, b, c) == [k \in AllKeys |-> IF k \in A THEN a ELSE IF k \in B THEN b ELSE c]

TwoHashes == {HashOf(3, 7, 0), HashOf(7, 15, 6)}

Names == Permutations(A) \cup Permutations(B) \cup Permutations(C)
=============================================================================
