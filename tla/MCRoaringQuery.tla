---------------------------- MODULE MCRoaringQuery ----------------------------
(* Keys of six low parts in words of two: an edge word on each side and a  *)
(* word between.  Five values of one key make a bitmap, three values leave *)
(* the sparse form, the third key doubles the directory twice.             *)
EXTENDS RoaringQuery

ClientHandles == {"a", "b", "r"}

\* a passes every form; b meets it in both keys; r is built by operations and added to.
ClientOffers == [h \in ClientHandles |->
  CASE h = "a" -> {0, 1, 2, 3, 5, 7}
    [] h = "b" -> {1, 2, 3, 4, 5, 8}
    [] h = "r" -> {9, 14}]

\* b as a run of key 0, up to a bitmap, with key 1 or without.
ClientBuilds == [h \in ClientHandles |->
  IF h = "b" THEN {1..n : n \in 0..5} \cup {(1..n) \cup {8} : n \in {0, 1, 5}} ELSE SUBSET (0..17)]

ClientCalls == {<<"r", "a", "b">>, <<"r", "b", "a">>, <<"r", "r", "b">>}

ClientRanges == {<<0, 17>>, <<1, 4>>, <<2, 2>>, <<3, 8>>, <<6, 11>>, <<4, 3>>}

\* Unions, intersections and differences, a set asked twice, a NULL set.
ClientQueries ==
  LET Q(all, any, none) == [all |-> all, any |-> any, none |-> none] IN
  {Q(<<>>, <<"a", "b">>, <<>>), Q(<<"a", "b">>, <<>>, <<>>), Q(<<"a">>, <<>>, <<"b">>),
   Q(<<"a">>, <<"b", NULL>>, <<>>), Q(<<>>, <<"a">>, <<>>), Q(<<"b">>, <<"a", "b">>, <<NULL>>),
   Q(<<>>, <<"a", "b">>, <<"b">>), Q(<<"a", NULL>>, <<"b">>, <<>>)}

ClientPages == {<<0, 2>>, <<1, 1>>, <<3, 3>>, <<5, 4>>}

\* No action reads the answer: states that differ in it alone have the same steps.
WithoutAnswer == <<sets, lent>>
=============================================================================
