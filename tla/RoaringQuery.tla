---------------------------- MODULE RoaringQuery -----------------------------
(***************************************************************************)
(* arnm_roaring_query (src/roaring_query.c) over the sets of RoaringOps:   *)
(* how many values are in every set of `all`, in one of `any` and in none  *)
(* of `none`, and a page of them, read key by key without building a set.  *)
(*                                                                         *)
(* A wide view, the values of one key of a sparse set read in place, is    *)
(* the array container `source` makes of them.  Merging sorted parts value *)
(* by value gives their union in order; which way a key is answered, in    *)
(* values or in bits, and what a page passes over whole, is as in C.       *)
(***************************************************************************)
EXTENDS RoaringOps

CONSTANTS Queries,           \* [all, any, none]: sequences of handles, NULL among them
          Pages,             \* <<skip, size>>
          UNION_BITS_FROM    \* ROARING_UNION_BITS_FROM

set_of(h) == IF h = NULL THEN Zeroed ELSE sets[h]

in_order(S, descending) == IF descending THEN Reverse(ascending(S)) ELSE ascending(S)

-----------------------------------------------------------------------------
(* The walk: the keys where the sets meet, and each key's parts.           *)

\* Mutant: a bitmap's top taken from its set's maximum wherever it lies in it.
reach_of_maximum(set, c) ==
  IF c.kind = ARRAY THEN <<Head(c.lows), Last(c.lows)>> ELSE <<0, low_of(set.maximum)>>

\* The lowest and the highest low part a container can hold, without a scan.
part_reach(set, c) ==
  IF c.kind = ARRAY THEN <<Head(c.lows), Last(c.lows)>>
  ELSE <<0, IF c = Last(set.containers) THEN low_of(set.maximum) ELSE LOWS - 1>>

\* The sets of a list that have the key, and their containers of it.
holders(list, r, key) ==
  SelectSeq([i \in DOMAIN list |-> set_of(list[i])],
            LAMBDA set : key \in keys_in(source(set, r)))

parts(list, r, key) ==
  LET held == holders(list, r, key)
  IN [i \in DOMAIN held |-> at_key(source(held[i], r), key)]

reaches(list, r, key) ==
  LET held == holders(list, r, key)
  IN {part_reach(held[i], at_key(source(held[i], r), key)) : i \in DOMAIN held}

\* A match is in every part of all: the narrowest reach bounds it; and in some part
\* of any: the widest does.  A count keeps the bounds of the range.
narrowed(q, r, key) ==
  LET all == reaches(q.all, r, key)
      any == reaches(q.any, r, key)
  IN <<{x[1] : x \in all} \cup (IF any = {} THEN {} ELSE {Min({x[1] : x \in any})}),
       {x[2] : x \in all} \cup (IF any = {} THEN {} ELSE {Max({x[2] : x \in any})})>>

query_key(q, r, key, narrow) ==
  LET n == IF narrow THEN narrowed(q, r, key) ELSE <<{}, {}>>
  IN [key |-> key, all |-> parts(q.all, r, key), any |-> parts(q.any, r, key),
      none |-> parts(q.none, r, key),
      low |-> Max(n[1] \cup {low_bound(key, r)}), high |-> Min(n[2] \cup {high_bound(key, r)})]

\* The next key every set of all has, or the next of any; passed over where any is
\* asked and none of it has the key, or where nothing of the range is left.
query_walk(q, r, narrow, descending) ==
  LET keys_of_list(list) == UNION {keys_in(source(set_of(list[i]), r)) : i \in DOMAIN list}
      met == IF q.all = << >> THEN keys_of_list(q.any)
             ELSE {k \in keys_of_list(q.all) : Len(holders(q.all, r, k)) = Len(q.all)}
      order == in_order({k \in met : q.any = << >> \/ k \in keys_of_list(q.any)}, descending)
  IN SelectSeq([i \in DOMAIN order |-> query_key(q, r, order[i], narrow)],
               LAMBDA k : k.low <= k.high)

-----------------------------------------------------------------------------
(* One key.                                                                *)

part_bits(c, k) == IF c.kind = BITMAP THEN c.lows ELSE ToSet(clip(c, k.low, k.high))

bits_of_list(list, k) == UNION {part_bits(list[i], k) : i \in DOMAIN list}

array_values_in_range(k) ==
  FoldLeft(LAMBDA n, c : IF c.kind = BITMAP THEN n ELSE n + Len(clip(c, k.low, k.high)), 0, k.any)

\* The union of a key's parts: one part by its count, many values in bits, few merged
\* and each looked up in the bitmaps.
key_union_cardinality(k) ==
  LET isBitmap(c) == c.kind = BITMAP
      bitmaps == UNION {c.lows : c \in {d \in ToSet(k.any) : isBitmap(d)}}
      arrays == UNION {part_bits(c, k) : c \in {d \in ToSet(k.any) : ~isBitmap(d)}}
  IN IF Len(k.any) = 1 THEN container_range_cardinality(k.any[1], k.low, k.high)
     ELSE IF array_values_in_range(k) >= UNION_BITS_FROM
     THEN Cardinality(clip_words(bits_of_list(k.any, k), k.low, k.high))
     ELSE Cardinality(clip_words(bitmaps, k.low, k.high)) + Cardinality(arrays \ bitmaps)

\* The part of all with the fewest values, the first of them.
key_driver(k) ==
  Min({i \in DOMAIN k.all : \A j \in DOMAIN k.all : k.all[i].cardinality <= k.all[j].cardinality})

key_reads_values(k) == k.all # << >> /\ k.all[key_driver(k)].kind # BITMAP

probes_match(k, low) ==
  /\ \A i \in DOMAIN k.all \ {key_driver(k)} : container_has(k.all[i], low)
  /\ k.any # << >> => \E i \in DOMAIN k.any : container_has(k.any[i], low)
  /\ \A i \in DOMAIN k.none : ~container_has(k.none[i], low)

\* The driver's values in the range that every other part lets through, in order.
driver_matches(k) ==
  SelectSeq(clip(k.all[key_driver(k)], k.low, k.high), LAMBDA low : probes_match(k, low))

key_bits(k) ==
  LET inAll == {b \in part_bits(k.all[1], k) : \A i \in DOMAIN k.all : b \in part_bits(k.all[i], k)}
      inAny == bits_of_list(k.any, k)
      kept == IF k.all = << >> THEN inAny ELSE IF k.any = << >> THEN inAll ELSE inAll \cap inAny
  IN clip_words(kept \ bits_of_list(k.none, k), k.low, k.high)

is_union(k) == k.all = << >> /\ k.none = << >>

query_key_cardinality(k) ==
  IF is_union(k) THEN key_union_cardinality(k)
  ELSE IF Len(k.all) = 1 /\ k.any = << >> /\ k.none = << >>
  THEN container_range_cardinality(k.all[1], k.low, k.high)
  ELSE IF key_reads_values(k) THEN Len(driver_matches(k))
  ELSE Cardinality(key_bits(k))

\* What is left to pass over, and what is written, once a run of matches was read.
page_step(t, matches, size) ==
  LET n == Len(matches)
  IN IF t.skip >= n THEN [t EXCEPT !.skip = @ - n]
     ELSE [skip |-> 0,
           out |-> t.out \o SubSeq(matches, t.skip + 1, Min({n, t.skip + size - Len(t.out)}))]

\* A union the skip passes over whole is counted and not read.
query_key_page(k, t, size, descending) ==
  LET lows == IF is_union(k) THEN clip_words(bits_of_list(k.any, k), k.low, k.high)
              ELSE IF key_reads_values(k) THEN ToSet(driver_matches(k))
              ELSE key_bits(k)
      matches == in_order({value_of(k.key, low) : low \in lows}, descending)
  IN IF is_union(k) /\ t.skip > 0 /\ t.skip >= key_union_cardinality(k)
     THEN [t EXCEPT !.skip = @ - key_union_cardinality(k)]
     ELSE page_step(t, matches, size)

-----------------------------------------------------------------------------
(* The three questions.                                                    *)

\* Only sparse sets to unite: their arrays answer alone.
query_is_sparse_union(q) ==
  /\ q.all = << >> /\ q.none = << >> /\ q.any # << >>
  /\ \A i \in DOMAIN q.any : arnm_roaring_is_sparse(set_of(q.any[i]))

sparse_spans(q, r) ==
  UNION {ToSet(between(set_of(q.any[i]).values, r[1], r[2])) : i \in DOMAIN q.any}

arnm_roaring_query_cardinality(q, r) ==
  IF r[1] > r[2] THEN 0
  ELSE IF query_is_sparse_union(q) THEN Cardinality(sparse_spans(q, r))
  ELSE FoldLeft(LAMBDA n, k : n + query_key_cardinality(k), 0, query_walk(q, r, FALSE, FALSE))

Nothing(skip) == [skip |-> skip, out |-> << >>]

arnm_roaring_query_page(q, r, page, descending) ==
  LET size == page[2]
      step(t, k) == IF Len(t.out) = size THEN t ELSE query_key_page(k, t, size, descending)
  IN IF size = 0 \/ r[1] > r[2] THEN << >>
     ELSE IF query_is_sparse_union(q)
     THEN page_step(Nothing(page[1]), in_order(sparse_spans(q, r), descending), size).out
     ELSE FoldLeft(step, Nothing(page[1]), query_walk(q, r, TRUE, descending)).out

\* Every key counted once; only those the page runs through are read as well.
arnm_roaring_query_listing(q, r, page, descending) ==
  LET size == page[2]
      step(t, k) ==
        LET n == query_key_cardinality(k)
            left == [skip |-> t.skip, out |-> t.out]
            read == IF Len(t.out) >= size THEN left
                    ELSE IF t.skip >= n THEN [left EXCEPT !.skip = @ - n]
                    ELSE query_key_page(k, left, size, descending)
        IN [skip |-> read.skip, out |-> read.out, total |-> t.total + n]
      start == [skip |-> page[1], out |-> << >>, total |-> 0]
  IN IF r[1] > r[2] THEN start
     ELSE IF query_is_sparse_union(q)
     THEN [start EXCEPT !.total = Cardinality(sparse_spans(q, r)),
                        !.out = arnm_roaring_query_page(q, r, page, descending)]
     ELSE FoldLeft(step, start, query_walk(q, r, TRUE, descending))

-----------------------------------------------------------------------------
(* Properties.                                                             *)

Members(list) == {Contents(set_of(list[i])) : i \in DOMAIN list}

\* The values a query names, by its definition (arnm/roaring_query.h:36-39).
Matches(q, r) ==
  {v \in (UNION (Members(q.all) \cup Members(q.any))) \cap r[1]..r[2] :
     /\ \A s \in Members(q.all) : v \in s
     /\ q.any # << >> => \E s \in Members(q.any) : v \in s
     /\ \A s \in Members(q.none) : v \notin s}

\* Whatever the forms of the sets, the count, any page from either end and the
\* listing that gives both are those of the set algebra.  Bound: asked while the
\* client's operands stand alone.
QueriesAgree ==
  Standing = {} =>
    \A q \in Queries, r \in Ranges :
      LET m == Matches(q, r) IN
      /\ arnm_roaring_query_cardinality(q, r) = Cardinality(m)
      /\ \A page \in Pages, descending \in BOOLEAN :
           LET listing == arnm_roaring_query_listing(q, r, page, descending)
               want == SubSeq(in_order(m, descending), page[1] + 1,
                              Min({page[1] + page[2], Cardinality(m)}))
           IN /\ arnm_roaring_query_page(q, r, page, descending) = want
              /\ listing.out = want /\ listing.total = Cardinality(m)
=============================================================================
