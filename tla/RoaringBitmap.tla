---------------------------- MODULE RoaringBitmap ----------------------------
(***************************************************************************)
(* arnm_roaring_bitmap (src/roaring_bitmap.c, src/roaring_intern.h): a set *)
(* of numbers, sparse -- one sorted array -- or a directory of containers, *)
(* one per key, each a sorted array of low parts or words of bits.         *)
(*                                                                         *)
(* Every call is a function from a step to a step: the set it works on,    *)
(* the pool, and the result so far.  The pool is GradedBlockPool seen from *)
(* here, blocks by exponent that it may refuse: `left` is how many more it *)
(* grants in this call.  Words are the set of their bits, an array is the  *)
(* sequence of its values; a stored count is kept beside them, as in C.    *)
(***************************************************************************)
EXTENDS ArenaOps, FiniteSets, SequencesExt

CONSTANTS LOWS,                    \* low parts of one key, 2^16
          WORD_BITS,               \* bits of one word, 64
          COUNT_MAX,               \* what a cardinality can say, UINT32_MAX
          ARRAY_MAX, SPARSE_MAX,   \* ARNM_ROARING_ARRAY_MAX, ..._SPARSE_MAX
          BITMAP_LOG2, FIRST_LOG2, \* blocks: of a bitmap, and the first of the others
          LOW_SIZE, VALUE_SIZE, ENTRY_SIZE,   \* bytes of an array value, a sparse one, an entry
          LOG2_MAX                 \* largest block of the pool

ASSUME RoaringAssumption ==
  /\ {LOWS, WORD_BITS, ARRAY_MAX, SPARSE_MAX, LOW_SIZE, VALUE_SIZE} \subseteq Nat \ {0}
  /\ COUNT_MAX \in Nat
  /\ {BITMAP_LOG2, FIRST_LOG2, LOG2_MAX} \subseteq 0..31
  /\ LOWS % WORD_BITS = 0
  /\ ENTRY_SIZE = 2^FIRST_LOG2 /\ LOW_SIZE <= ENTRY_SIZE /\ VALUE_SIZE <= ENTRY_SIZE
  /\ SPARSE_MAX < ARRAY_MAX /\ 2 * SPARSE_MAX <= ARRAY_MAX
  /\ ARRAY_MAX * LOW_SIZE = 2^BITMAP_LOG2 /\ SPARSE_MAX * VALUE_SIZE <= 2^BITMAP_LOG2

ARRAY == "ARRAY"
BITMAP == "BITMAP"

\* block is FALSE for a NULL pointer; one block holds the values or the containers.
Zeroed ==
  [block |-> FALSE, values |-> << >>, containers |-> << >>,
   cardinality |-> 0, maximum |-> 0, directory_log2 |-> 0]

arnm_roaring_is_sparse(set) == set.containers = << >>

key_of(value) == value \div LOWS
low_of(value) == value % LOWS
value_of(key, low) == key * LOWS + low

-----------------------------------------------------------------------------
(* Blocks.                                                                 *)

Step(set, lent, left) ==
  [set |-> set, pool |-> [lent |-> lent, left |-> left], result |-> SUCCESS]

refused(s) == [s EXCEPT !.result = EXHAUSTED]

grants(pool, log2) == pool.left > 0 /\ log2 <= LOG2_MAX
take(pool, log2) == [pool EXCEPT !.lent[log2] = @ + 1, !.left = @ - 1]
give(pool, log2) == [pool EXCEPT !.lent[log2] = @ - 1]

log2_for_bytes(bytes) ==
  CHOOSE e \in FIRST_LOG2..(FIRST_LOG2 + bytes) :
    bytes <= 2^e /\ (e = FIRST_LOG2 \/ 2^(e - 1) < bytes)

\* The containers' blocks, then the one block of the set; the caller zeroes it.
arnm_roaring_free(set, pool) ==
  LET p == FoldLeft(LAMBDA q, c : give(q, c.block_log2), pool, set.containers)
  IN IF set.block THEN give(p, set.directory_log2) ELSE p

\* Room for one more element of size bytes beside n: the set's block, doubled when full.
room_for(s, n, size) ==
  LET set == s.set
      log2 == IF set.block THEN set.directory_log2 + 1 ELSE FIRST_LOG2
      taken == take(s.pool, log2)
  IN IF set.block /\ n # 2^set.directory_log2 \div size THEN s
     ELSE IF ~grants(s.pool, log2) THEN refused(s)
     ELSE [s EXCEPT !.set.block = TRUE, !.set.directory_log2 = log2,
                    !.pool = IF set.block THEN give(taken, set.directory_log2) ELSE taken]

arnm_roaring_push_container(s, container) ==
  LET r == room_for(s, Len(s.set.containers), ENTRY_SIZE)
  IN IF r.result # SUCCESS THEN r
     ELSE [r EXCEPT !.set.containers = Append(@, container)]

-----------------------------------------------------------------------------
(* Result containers, and the change of form.                              *)

\* A container in a block of its own; top is its largest low part.
emit(s, container, top) ==
  LET log2 == container.block_log2
      p == arnm_roaring_push_container([s EXCEPT !.pool = take(@, log2)], container)
  IN IF s.set.cardinality > COUNT_MAX - container.cardinality \/ ~grants(s.pool, log2)
     THEN refused(s)
     ELSE IF p.result # SUCCESS THEN [p EXCEPT !.pool = give(@, log2)]
     ELSE [p EXCEPT !.set.cardinality = @ + container.cardinality,
                    !.set.maximum = value_of(container.key, top)]

Container(key, kind, lows, cardinality, log2) ==
  [key |-> key, kind |-> kind, lows |-> lows, cardinality |-> cardinality, block_log2 |-> log2]

arnm_roaring_emit_array(s, key, lows) ==
  IF lows = << >> THEN s
  ELSE emit(s, Container(key, ARRAY, lows, Len(lows), log2_for_bytes(Len(lows) * LOW_SIZE)),
            Last(lows))

\* A set of numbers in order: a scan of its words from the lowest bit.
ascending(S) ==
  [i \in 1..Cardinality(S) |-> CHOOSE x \in S : Cardinality({y \in S : y < x}) = i - 1]

\* What stands at some places of a sequence, in its order: a scan that keeps those.
at_places(array, places) ==
  LET order == ascending(places) IN [i \in 1..Cardinality(places) |-> array[order[i]]]

\* Array or bitmap by the count, whatever the inputs were.
arnm_roaring_emit_words(s, key, bits) ==
  LET n == Cardinality(bits)
  IN IF n <= ARRAY_MAX THEN arnm_roaring_emit_array(s, key, ascending(bits))
     ELSE emit(s, Container(key, BITMAP, bits, n, BITMAP_LOG2), Max(bits))

\* The low parts of one key of a sorted array of values.
lows_of_key(values, key) ==
  LET inKey == at_places(values, {i \in DOMAIN values : key_of(values[i]) = key})
  IN [i \in DOMAIN inKey |-> low_of(inKey[i])]

keys_of(values) == {key_of(values[i]) : i \in DOMAIN values}

\* One array per key, until one is refused.
values_key(s, values, key) ==
  IF s.result # SUCCESS THEN s
  ELSE arnm_roaring_emit_array(s, key, lows_of_key(values, key))

arnm_roaring_values_to_containers(s, values) ==
  FoldLeft(LAMBDA t, key : values_key(t, values, key), s, ascending(keys_of(values)))

sparse_to_containers(s) ==
  LET built == arnm_roaring_values_to_containers([s EXCEPT !.set = Zeroed], s.set.values)
  IN IF built.result = SUCCESS
     THEN [built EXCEPT !.pool = give(@, s.set.directory_log2)]
     ELSE [built EXCEPT !.set = s.set, !.pool = arnm_roaring_free(built.set, @)]

arnm_roaring_values_result(s, values) ==
  LET n == Len(values)
      log2 == log2_for_bytes(n * VALUE_SIZE)
  IN IF n = 0 THEN s
     ELSE IF n > SPARSE_MAX THEN arnm_roaring_values_to_containers(s, values)
     ELSE IF ~grants(s.pool, log2) THEN refused(s)
     ELSE [s EXCEPT !.pool = take(@, log2),
                    !.set.block = TRUE, !.set.directory_log2 = log2,
                    !.set.values = values, !.set.cardinality = n, !.set.maximum = Last(values)]

-----------------------------------------------------------------------------
(* arnm_roaring_add.                                                       *)

sparse_add(s, value) ==
  LET r == room_for(s, s.set.cardinality, VALUE_SIZE)
  IN IF r.result # SUCCESS THEN r
     ELSE [r EXCEPT !.set.values = Append(@, value), !.set.cardinality = @ + 1,
                    !.set.maximum = value]

\* The last container with low in it as well: grown, turned into a bitmap, or as it lies.
array_to_bitmap(last, low) ==
  [last EXCEPT !.kind = BITMAP, !.lows = ToSet(@) \cup {low}, !.cardinality = @ + 1,
               !.block_log2 = BITMAP_LOG2]

\* An array at its capacity moves into a block twice the size first.
append_low(last, low) ==
  [last EXCEPT !.lows = Append(@, low), !.cardinality = @ + 1,
               !.block_log2 = IF last.cardinality = 2^@ \div LOW_SIZE THEN @ + 1 ELSE @]

with_low(last, low) ==
  IF last.kind = BITMAP THEN [last EXCEPT !.lows = @ \cup {low}, !.cardinality = @ + 1]
  ELSE IF last.cardinality = ARRAY_MAX THEN array_to_bitmap(last, low)
  ELSE append_low(last, low)

\* A container that changes its block, or turns into words, takes the new one first.
add_to_last(s, low) ==
  LET n == Len(s.set.containers)
      last == s.set.containers[n]
      new == with_low(last, low)
      moves == new.block_log2 # last.block_log2 \/ new.kind # last.kind
  IN IF moves /\ ~grants(s.pool, new.block_log2) THEN refused(s)
     ELSE [s EXCEPT !.set.containers[n] = new,
                    !.pool = IF moves THEN give(take(@, new.block_log2), last.block_log2) ELSE @]

add_container(s, key, low) ==
  LET p == arnm_roaring_push_container([s EXCEPT !.pool = take(@, FIRST_LOG2)],
                                       Container(key, ARRAY, <<low>>, 1, FIRST_LOG2))
  IN IF ~grants(s.pool, FIRST_LOG2) THEN refused(s)
     ELSE IF p.result # SUCCESS THEN [p EXCEPT !.pool = give(@, FIRST_LOG2)]
     ELSE p

add_in_containers(s, value) ==
  LET set == s.set
      t == IF Last(set.containers).key = key_of(value) THEN add_to_last(s, low_of(value))
           ELSE add_container(s, key_of(value), low_of(value))
  IN IF t.result # SUCCESS THEN t
     ELSE [t EXCEPT !.set.cardinality = @ + 1, !.set.maximum = value]

arnm_roaring_add(s, value) ==
  LET set == s.set
      t == IF arnm_roaring_is_sparse(set) THEN sparse_to_containers(s) ELSE s
  IN IF set.cardinality > 0 /\ value < set.maximum THEN [s EXCEPT !.result = INVALID_PARAM]
     ELSE IF set.cardinality > 0 /\ value = set.maximum THEN s
     ELSE IF set.cardinality = COUNT_MAX THEN refused(s)
     ELSE IF arnm_roaring_is_sparse(set) /\ set.cardinality < SPARSE_MAX THEN sparse_add(s, value)
     ELSE IF t.result # SUCCESS THEN t
     ELSE add_in_containers(t, value)

-----------------------------------------------------------------------------
(* Reading.                                                                *)

\* First index, from 0, that is not below value, or that is above it; the count if none is.
lower_bound(array, value) ==
  Min({i - 1 : i \in {j \in DOMAIN array : array[j] >= value}} \cup {Len(array)})
upper_bound(array, value) ==
  Min({i - 1 : i \in {j \in DOMAIN array : array[j] > value}} \cup {Len(array)})

between(array, min, max) == SubSeq(array, lower_bound(array, min) + 1, upper_bound(array, max))

\* The part of a range that falls into the container of key.
low_bound(key, r)  == IF key = key_of(r[1]) THEN low_of(r[1]) ELSE 0
high_bound(key, r) == IF key = key_of(r[2]) THEN low_of(r[2]) ELSE LOWS - 1

\* Mutant: the last word taken whole.
clip_first_word_only(words, low, high) ==
  {b \in words : /\ b \div WORD_BITS \in (low \div WORD_BITS)..(high \div WORD_BITS)
                 /\ b \div WORD_BITS = low \div WORD_BITS => b % WORD_BITS >= low % WORD_BITS}

\* Whole words between the edges, the edge words masked.
clip_words(words, low, high) ==
  {b \in words :
     LET w == b \div WORD_BITS IN
     /\ w \in (low \div WORD_BITS)..(high \div WORD_BITS)
     /\ w = low \div WORD_BITS => b % WORD_BITS >= low % WORD_BITS
     /\ w = high \div WORD_BITS => b % WORD_BITS <= high % WORD_BITS}

\* The low parts of a container in order, as the scans over words meet them.
lows_in_order(c) == IF c.kind = BITMAP THEN ascending(c.lows) ELSE c.lows

arnm_roaring_minimum(set) ==
  IF arnm_roaring_is_sparse(set) THEN set.values[1]
  ELSE value_of(set.containers[1].key, Head(lows_in_order(set.containers[1])))

container_has(c, low) ==
  IF c.kind = BITMAP THEN low \in c.lows
  ELSE LET at == lower_bound(c.lows, low) IN at < c.cardinality /\ c.lows[at + 1] = low

arnm_roaring_contains(set, value) ==
  IF arnm_roaring_is_sparse(set)
  THEN LET at == lower_bound(set.values, value)
       IN at < set.cardinality /\ set.values[at + 1] = value
  ELSE \E i \in DOMAIN set.containers :
         set.containers[i].key = key_of(value) /\ container_has(set.containers[i], low_of(value))

\* The whole key is answered from the stored count.
container_range_cardinality(c, low, high) ==
  IF low = 0 /\ high = LOWS - 1 THEN c.cardinality
  ELSE IF c.kind = BITMAP THEN Cardinality(clip_words(c.lows, low, high))
  ELSE upper_bound(c.lows, high) - lower_bound(c.lows, low)

arnm_roaring_range_cardinality(set, r) ==
  IF r[1] > r[2] THEN 0
  ELSE IF arnm_roaring_is_sparse(set)
  THEN upper_bound(set.values, r[2]) - lower_bound(set.values, r[1])
  ELSE LET inside == SelectSeq(set.containers, LAMBDA c : c.key \in key_of(r[1])..key_of(r[2]))
       IN FoldLeft(LAMBDA n, c : n + container_range_cardinality(c, low_bound(c.key, r),
                                                                 high_bound(c.key, r)),
                   0, inside)

\* Values held by the first i containers, from their stored counts.
held_by(set, i) == FoldLeft(LAMBDA n, c : n + c.cardinality, 0, SubSeq(set.containers, 1, i))

container_of_rank(set, rank) == CHOOSE i \in DOMAIN set.containers :
                                  held_by(set, i - 1) <= rank /\ rank < held_by(set, i)

values_of(c) ==
  LET lows == lows_in_order(c) IN [i \in DOMAIN lows |-> value_of(c.key, lows[i])]

arnm_roaring_select(set, rank) ==
  IF arnm_roaring_is_sparse(set) THEN set.values[rank + 1]
  ELSE LET i == container_of_rank(set, rank)
       IN values_of(set.containers[i])[rank - held_by(set, i - 1) + 1]

\* Mutant: a descending page starts at skip, counted from the smallest.
page_from_front(set, skip, descending) == skip

first_rank(set, skip, descending) == IF descending THEN set.cardinality - 1 - skip ELSE skip

\* From the value of that rank to the end of the set, or back to its start.
walk(set, rank, descending) ==
  LET i == container_of_rank(set, rank)
      at == rank - held_by(set, i - 1) + 1
      here == values_of(set.containers[i])
      others == [j \in DOMAIN set.containers |-> values_of(set.containers[j])]
  IN IF arnm_roaring_is_sparse(set)
     THEN IF descending THEN Reverse(SubSeq(set.values, 1, rank + 1))
          ELSE SubSeq(set.values, rank + 1, set.cardinality)
     ELSE IF descending
          THEN Reverse(FlattenSeq(SubSeq(others, 1, i - 1)) \o SubSeq(here, 1, at))
          ELSE SubSeq(here, at, Len(here)) \o FlattenSeq(SubSeq(others, i + 1, Len(others)))

arnm_roaring_page(set, skip, size, descending) ==
  IF skip >= set.cardinality THEN << >>
  ELSE LET rest == walk(set, first_rank(set, skip, descending), descending)
       IN SubSeq(rest, 1, Min({size, Len(rest)}))
=============================================================================
