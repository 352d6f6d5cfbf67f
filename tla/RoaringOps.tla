----------------------------- MODULE RoaringOps ------------------------------
(***************************************************************************)
(* arnm_roaring_ops (src/roaring_ops.c) over the sets of RoaringBitmap:    *)
(* and, or, andnot and copy_range.  Each fills an empty set and gives back *)
(* everything it built when the pool refuses in the middle.                *)
(*                                                                         *)
(* A merge key by key is a fold over the keys it meets, stopped at the     *)
(* first refusal; a merge of two sorted arrays is what comes out of it.    *)
(***************************************************************************)
EXTENDS RoaringBitmap

CONSTANTS Handles,   \* the client's sets
          Offers,    \* Offers[h]: what the client adds to h
          Builds,    \* Builds[h]: the contents it lets h grow to
          Calls,     \* <<out, a, b>> the client asks for
          Ranges,    \* <<min, max>> it asks with
          Budgets    \* blocks the pool grants within one call

ASSUME OpsAssumption ==
  /\ IsFiniteSet(Handles)
  /\ \A h \in Handles : Offers[h] \subseteq Nat
  /\ Calls \subseteq Handles \X Handles \X Handles
  /\ Ranges \subseteq Nat \X Nat
  /\ Budgets \subseteq Nat

VARIABLES sets,      \* the client's sets
          lent,      \* blocks of each exponent the pool has handed out
          answer     \* the call that succeeded, or why it was refused

roaring_vars == <<sets, lent, answer>>

RoaringInit ==
  /\ sets = [h \in Handles |-> Zeroed]
  /\ lent = [log2 \in 0..LOG2_MAX |-> 0]
  /\ answer = <<"freed">>

-----------------------------------------------------------------------------
(* A set read key by key.                                                  *)

\* The containers of the range's keys; a sparse set is seen as array containers.
source(set, r) ==
  LET keys == key_of(r[1])..key_of(r[2])
      inRange == ascending(keys_of(set.values) \cap keys)
  IN IF arnm_roaring_is_sparse(set)
     THEN [i \in DOMAIN inRange |->
             LET lows == lows_of_key(set.values, inRange[i])
             IN Container(inRange[i], ARRAY, lows, Len(lows), 0)]
     ELSE at_places(set.containers, {i \in DOMAIN set.containers : set.containers[i].key \in keys})

keys_in(src) == {src[i].key : i \in DOMAIN src}

at_key(src, key) == src[CHOOSE i \in DOMAIN src : src[i].key = key]

-----------------------------------------------------------------------------
(* Two containers of one key, cut to [low, high].                          *)

clip(c, low, high) == between(c.lows, low, high)

emit_clip(s, c, low, high) ==
  IF c.kind = ARRAY THEN arnm_roaring_emit_array(s, c.key, clip(c, low, high))
  ELSE arnm_roaring_emit_words(s, c.key, clip_words(c.lows, low, high))

combine_words(s, key, words, low, high) ==
  arnm_roaring_emit_words(s, key, clip_words(words, low, high))

\* The low parts of array a that are in ys, or are not.
emit_sifted(s, a, ys, keep, low, high) ==
  LET xs == clip(a, low, high)
  IN arnm_roaring_emit_array(s, a.key, at_places(xs, {i \in DOMAIN xs : (xs[i] \in ys) = keep}))

and_arrays(s, a, b, low, high) == emit_sifted(s, a, ToSet(clip(b, low, high)), TRUE, low, high)

andnot_arrays(s, a, b, low, high) == emit_sifted(s, a, ToSet(clip(b, low, high)), FALSE, low, high)

\* Values of array a whose bit in bitmap b is set, or clear.
filter_array_by_words(s, a, b, keep, low, high) == emit_sifted(s, a, b.lows, keep, low, high)

\* Bitmap a with the values of array b set or cleared.
words_with_array(s, a, b, set, low, high) ==
  LET ys == ToSet(clip(b, low, high))
  IN combine_words(s, a.key, IF set THEN a.lows \cup ys ELSE a.lows \ ys, low, high)

or_arrays(s, a, b, low, high) ==
  LET xs == clip(a, low, high)
      ys == clip(b, low, high)
      both == ToSet(xs) \cup ToSet(ys)
  IN IF Len(xs) + Len(ys) > ARRAY_MAX THEN arnm_roaring_emit_words(s, a.key, both)
     ELSE arnm_roaring_emit_array(s, a.key, ascending(both))

and_containers(s, a, b, low, high) ==
  IF a.kind = ARRAY /\ b.kind = ARRAY THEN and_arrays(s, a, b, low, high)
  ELSE IF a.kind = ARRAY THEN filter_array_by_words(s, a, b, TRUE, low, high)
  ELSE IF b.kind = ARRAY THEN filter_array_by_words(s, b, a, TRUE, low, high)
  ELSE combine_words(s, a.key, a.lows \cap b.lows, low, high)

or_containers(s, a, b, low, high) ==
  IF a.kind = ARRAY /\ b.kind = ARRAY THEN or_arrays(s, a, b, low, high)
  ELSE IF a.kind = ARRAY THEN words_with_array(s, b, a, TRUE, low, high)
  ELSE IF b.kind = ARRAY THEN words_with_array(s, a, b, TRUE, low, high)
  ELSE combine_words(s, a.key, a.lows \cup b.lows, low, high)

andnot_containers(s, a, b, low, high) ==
  IF a.kind = ARRAY /\ b.kind = ARRAY THEN andnot_arrays(s, a, b, low, high)
  ELSE IF a.kind = ARRAY THEN filter_array_by_words(s, a, b, FALSE, low, high)
  ELSE IF b.kind = ARRAY THEN words_with_array(s, a, b, FALSE, low, high)
  ELSE combine_words(s, a.key, a.lows \ b.lows, low, high)

-----------------------------------------------------------------------------
(* The operations.                                                         *)

\* Mutant: the struct zeroed, its blocks kept.
finish_zeroing(s) == IF s.result = SUCCESS THEN s ELSE [s EXCEPT !.set = Zeroed]

finish(s) ==
  IF s.result = SUCCESS THEN s
  ELSE [s EXCEPT !.set = Zeroed, !.pool = arnm_roaring_free(s.set, @)]

\* The values of a sparse set in the range that the other has, or has not.
sparse_filter(s, sparse, other, keep, r) ==
  LET values == between(sparse.values, r[1], r[2])
  IN arnm_roaring_values_result(s, at_places(values,
       {i \in DOMAIN values : arnm_roaring_contains(other, values[i]) = keep}))

\* The step of each merge at one key that an input has.
and_key(s, sa, sb, r, key) ==
  IF s.result # SUCCESS THEN s
  ELSE and_containers(s, at_key(sa, key), at_key(sb, key), low_bound(key, r), high_bound(key, r))

or_key(s, sa, sb, r, key) ==
  LET low  == low_bound(key, r)
      high == high_bound(key, r)
  IN IF s.result # SUCCESS THEN s
     ELSE IF key \notin keys_in(sb) THEN emit_clip(s, at_key(sa, key), low, high)
     ELSE IF key \notin keys_in(sa) THEN emit_clip(s, at_key(sb, key), low, high)
     ELSE or_containers(s, at_key(sa, key), at_key(sb, key), low, high)

andnot_key(s, sa, sb, r, key) ==
  LET low  == low_bound(key, r)
      high == high_bound(key, r)
  IN IF s.result # SUCCESS THEN s
     ELSE IF key \notin keys_in(sb) THEN emit_clip(s, at_key(sa, key), low, high)
     ELSE andnot_containers(s, at_key(sa, key), at_key(sb, key), low, high)

copy_key(s, sa, r, key) ==
  IF s.result # SUCCESS THEN s
  ELSE emit_clip(s, at_key(sa, key), low_bound(key, r), high_bound(key, r))

arnm_roaring_and(s, a, b, r) ==
  LET sparseA == arnm_roaring_is_sparse(a)
      sparseB == arnm_roaring_is_sparse(b)
      read_a == sparseA /\ (~sparseB \/ a.cardinality <= b.cardinality)
      sa == source(a, r)
      sb == source(b, r)
  IN IF sparseA \/ sparseB
     THEN finish(sparse_filter(s, IF read_a THEN a ELSE b, IF read_a THEN b ELSE a, TRUE, r))
     ELSE finish(FoldLeft(LAMBDA t, key : and_key(t, sa, sb, r, key),
                          s, ascending(keys_in(sa) \cap keys_in(sb))))

arnm_roaring_or(s, a, b, r) ==
  LET merged == ascending(ToSet(between(a.values, r[1], r[2]))
                          \cup ToSet(between(b.values, r[1], r[2])))
      sa == source(a, r)
      sb == source(b, r)
  IN IF arnm_roaring_is_sparse(a) /\ arnm_roaring_is_sparse(b)
     THEN finish(arnm_roaring_values_result(s, merged))
     ELSE finish(FoldLeft(LAMBDA t, key : or_key(t, sa, sb, r, key),
                          s, ascending(keys_in(sa) \cup keys_in(sb))))

arnm_roaring_andnot(s, a, b, r) ==
  LET sa == source(a, r)
      sb == source(b, r)
  IN IF arnm_roaring_is_sparse(a) THEN finish(sparse_filter(s, a, b, FALSE, r))
     ELSE finish(FoldLeft(LAMBDA t, key : andnot_key(t, sa, sb, r, key),
                          s, ascending(keys_in(sa))))

arnm_roaring_copy_range(s, a, r) ==
  LET sa == source(a, r)
  IN IF arnm_roaring_is_sparse(a)
     THEN finish(arnm_roaring_values_result(s, between(a.values, r[1], r[2])))
     ELSE finish(FoldLeft(LAMBDA t, key : copy_key(t, sa, r, key), s, ascending(keys_in(sa))))

\* An operation fills an empty set that is none of its inputs; an empty range leaves it so.
check_operation(c) ==
  IF c[1] \in {c[2], c[3]} \/ sets[c[1]].block \/ sets[c[1]].cardinality > 0
  THEN INVALID_PARAM ELSE SUCCESS

-----------------------------------------------------------------------------
(* Actions.                                                                *)

\* What a set holds, whatever its form.
Contents(set) ==
  ToSet(set.values) \cup UNION {ToSet(values_of(set.containers[i])) : i \in DOMAIN set.containers}

\* The step s on handle h, asked by call.
Done(h, s, call) ==
  /\ sets' = [sets EXCEPT ![h] = s.set]
  /\ lent' = s.pool.lent
  /\ answer' = IF s.result = SUCCESS THEN call ELSE <<s.result>>

\* Bound: only a result is added to while a result stands.
Standing == {c[1] : c \in Calls} \cap {h \in Handles : sets[h] # Zeroed}

Add(h, v) ==
  /\ Standing \subseteq {h} /\ Contents(sets[h]) \cup {v} \in Builds[h]
  /\ \E left \in Budgets : Done(h, arnm_roaring_add(Step(sets[h], lent, left), v), <<"add", h, v>>)

Operation(op, c, r, left) ==
  LET s == Step(sets[c[1]], lent, left)
      a == sets[c[2]]
      b == sets[c[3]]
  IN IF r[1] > r[2] THEN s
     ELSE CASE op = "and"    -> arnm_roaring_and(s, a, b, r)
            [] op = "or"     -> arnm_roaring_or(s, a, b, r)
            [] op = "andnot" -> arnm_roaring_andnot(s, a, b, r)
            [] OTHER         -> arnm_roaring_copy_range(s, a, r)

Combine(op, c, r) ==
  /\ check_operation(c) = SUCCESS
  /\ \E left \in Budgets : Done(c[1], Operation(op, c, r, left), <<op, c, r>>)

CombineRefused(c) ==
  /\ check_operation(c) # SUCCESS
  /\ answer' = <<check_operation(c)>>
  /\ UNCHANGED <<sets, lent>>

Free(h) ==
  /\ sets' = [sets EXCEPT ![h] = Zeroed]
  /\ lent' = arnm_roaring_free(sets[h], [lent |-> lent, left |-> 0]).lent
  /\ answer' = <<"freed">>

RoaringNext ==
  \/ \E h \in Handles : Free(h) \/ \E v \in Offers[h] : Add(h, v)
  \/ \E c \in Calls :
       \/ CombineRefused(c)
       \/ \E op \in {"and", "or", "andnot", "copy"}, r \in Ranges : Combine(op, c, r)

RoaringSpec == RoaringInit /\ [][RoaringNext]_roaring_vars

-----------------------------------------------------------------------------
(* Properties.                                                             *)

\* An array is sorted, agrees with its stored count and stays inside its block.
ArrayHolds(array, count, size, log2) ==
  /\ \A i \in 1..(Len(array) - 1) : array[i] < array[i + 1]
  /\ Len(array) = count /\ count * size <= 2^log2

ContainerHolds(c) ==
  /\ (c.kind = ARRAY) = (c.cardinality <= ARRAY_MAX)
  /\ IF c.kind = ARRAY THEN ArrayHolds(c.lows, c.cardinality, LOW_SIZE, c.block_log2)
     ELSE Cardinality(c.lows) = c.cardinality /\ c.block_log2 = BITMAP_LOG2

\* However sets were added to, combined and refused: the stored counts
\* and maximum are those of the contents, keys ascend, a container's kind follows
\* its count, nothing lies outside its block, and a sparse set fits the buffers on
\* the stack that the fast paths copy it to (roaring_bitmap.c:10-20).
FormHolds ==
  \A h \in Handles :
    LET set == sets[h] IN
    /\ set.cardinality = Cardinality(Contents(set))
    /\ set.cardinality > 0 => set.maximum = Max(Contents(set))
    /\ set.block = (set.cardinality > 0)
    /\ IF arnm_roaring_is_sparse(set)
       THEN /\ set.cardinality <= SPARSE_MAX
            /\ set.block => ArrayHolds(set.values, set.cardinality, VALUE_SIZE, set.directory_log2)
       ELSE /\ \A i \in DOMAIN set.containers : ContainerHolds(set.containers[i])
            /\ ArrayHolds([i \in DOMAIN set.containers |-> set.containers[i].key],
                          Len(set.containers), ENTRY_SIZE, set.directory_log2)

\* How many blocks of an exponent a set names.
named(set, log2) ==
  Cardinality({i \in DOMAIN set.containers : set.containers[i].block_log2 = log2})
    + (IF set.block /\ set.directory_log2 = log2 THEN 1 ELSE 0)

\* Beside the form: the pool has lent exactly the blocks the sets name, under the exponents they
\* name them by: no path through a refusal keeps a block or gives one back twice.
BlocksAccounted ==
  /\ FormHolds
  /\ \A log2 \in DOMAIN lent :
       lent[log2] = SumFunctionOnSet([h \in Handles |-> named(sets[h], log2)], Handles)

\* Every reading call gives what it would give on the plain set: counts over all
\* ranges, ranks, membership, and pages from either end.
ReadsAgree ==
  \A h \in Handles :
    LET set == sets[h]
        n == set.cardinality
        listed == ascending(Contents(set))
    IN /\ n > 0 => arnm_roaring_minimum(set) = listed[1]
       /\ \A rank \in 0..(n - 1) : arnm_roaring_select(set, rank) = listed[rank + 1]
       /\ \A v \in UNION {Offers[g] : g \in Handles} :
            arnm_roaring_contains(set, v) = (v \in Contents(set))
       /\ \A r \in Ranges :
            arnm_roaring_range_cardinality(set, r) = Cardinality(Contents(set) \cap r[1]..r[2])
       /\ \A skip \in 0..n, size \in {1, 3} :
            LET to == Min({skip + size, n}) IN
            /\ arnm_roaring_page(set, skip, size, FALSE) = SubSeq(listed, skip + 1, to)
            /\ arnm_roaring_page(set, skip, size, TRUE)
                 = SubSeq(Reverse(listed), skip + 1, to)

Plain == INSTANCE ValueSets
  WITH contents <- [h \in Handles |-> Contents(sets[h])],
       Values <- UNION {Offers[h] : h \in Handles}

\* Every call is a step of plain sets of numbers: an operation that succeeds has
\* built exactly its set algebra within its range, one that is refused, at
\* whichever block, has changed no set.
IsValueSets == Plain!Spec
=============================================================================
