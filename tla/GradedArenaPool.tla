--------------------------- MODULE GradedArenaPool ---------------------------
(***************************************************************************)
(* arnm_graded_arena_pool (src/graded_arena_pool.c): a ladder of dynamic   *)
(* pools, one per power of two, and one word of bits saying which powers.  *)
(* A request takes the smallest rung that carries it; a returned arena     *)
(* finds its rung by its capacity.                                         *)
(*                                                                         *)
(* The grades are the pools of DynamicArenaPool: grade i is pools[i].      *)
(* While there is no ladder, the client has the same pools to itself.      *)
(* grade_bits is the set of exponents whose bit is set.                    *)
(***************************************************************************)
EXTENDS DynamicArenaPool

CONSTANTS Ladders,      \* the sequences of sizes init is asked for
          Requests,     \* sizes asked of alloc, and capacities a foreign arena carries
          WORD          \* bits of a uint32_t

ASSUME LadderAssumption ==
  /\ \A s \in Ladders : s \in Seq(0..UINT32_MAX)
  /\ Requests \subseteq 0..UINT32_MAX
  /\ WORD \in 4..32 /\ UINT32_MAX = 2^WORD - 1
  /\ PoolIds = 0..(WORD - 4)     \* one for each power from 2^3

SIZE_EXCEED == "ERROR_RESOURCE_SIZE_EXCEED"

VARIABLES ladder        \* NULL, or grade_count and grade_bits

Exponents == 0..(WORD - 1)

gradedVars == <<vars, ladder>>

ARNM_GRADED_MIN_SIZE == 8
ARNM_GRADED_MAX_SIZE == (UINT32_MAX + 1) \div 2
ARNM_GRADED_MAX_GRADE_COUNT == Cardinality({e \in Exponents : 2^e >= ARNM_GRADED_MIN_SIZE})

GradedInit == Init /\ ladder = NULL

is_standing == ladder # NULL

RefuseGraded(r) == Refuse(r) /\ UNCHANGED ladder

arnm_is_power_of_two(n) == \E e \in Exponents : n = 2^e

\* ceil_power_of_two(size) - 1 masks the exponents whose power is below size.
exponents_below(size) == {e \in Exponents : 2^e < size}

-----------------------------------------------------------------------------
(* The two lookups.                                                        *)

\* Mutant: an exact fit sent one rung up.
grade_for_size_strictly_above(size) ==
  LET at_or_above == ladder.grade_bits \ {e \in Exponents : 2^e <= size} IN
  IF size > ARNM_GRADED_MAX_SIZE \/ at_or_above = {}
  THEN ladder.grade_count
  ELSE Cardinality(ladder.grade_bits \ at_or_above)

grade_for_size(size) ==
  LET at_or_above == ladder.grade_bits \ exponents_below(size) IN
  IF size > ARNM_GRADED_MAX_SIZE \/ at_or_above = {}
  THEN ladder.grade_count
  ELSE Cardinality(ladder.grade_bits \ at_or_above)

\* A capacity with no rung lands on the next one up, which says another size.
grade_for_capacity(capacity) ==
  LET slot == Cardinality(ladder.grade_bits \cap exponents_below(capacity)) IN
  IF \/ ~arnm_is_power_of_two(capacity)
     \/ slot >= ladder.grade_count
     \/ pools[slot].arena_capacity # capacity
  THEN ladder.grade_count
  ELSE slot

\* The capacity alloc would answer size with, 0 for none; a query.
arnm_graded_arena_pool_capacity_for(size) ==
  IF ~is_standing \/ size = 0 \/ grade_for_size(size) >= ladder.grade_count
  THEN 0
  ELSE pools[grade_for_size(size)].arena_capacity

-----------------------------------------------------------------------------
(* The ladder itself.                                                      *)

\* Powers of two in range, strictly ascending: nothing is rounded.
ladder_accepted(sizes) ==
  /\ Len(sizes) \in 1..ARNM_GRADED_MAX_GRADE_COUNT
  /\ \A i \in DOMAIN sizes :
       /\ arnm_is_power_of_two(sizes[i])
       /\ sizes[i] \in ARNM_GRADED_MIN_SIZE..ARNM_GRADED_MAX_SIZE
       /\ i > 1 => sizes[i] > sizes[i - 1]

arnm_graded_arena_pool_init(sizes, spare_per_grade) ==
  /\ ~is_standing                                      \* the header forbids it otherwise
  /\ \A p \in PoolIds : pools[p] = EmptyPool            \* none stands alone
  /\ \/ ~ladder_accepted(sizes) /\ RefuseGraded(INVALID_PARAM)
     \/ ladder_accepted(sizes) /\ RefuseGraded(OUT_OF_MEMORY)
     \/ /\ ladder_accepted(sizes)
        /\ pools' = [p \in PoolIds |->
                       IF p < Len(sizes)
                       THEN [EmptyPool EXCEPT !.arena_capacity = arnm_align8_u32(sizes[p + 1]),
                                              !.spare_limit = spare_per_grade]
                       ELSE EmptyPool]
        /\ ladder' = [grade_count |-> Len(sizes),
                      grade_bits |-> {e \in Exponents : \E i \in DOMAIN sizes : 2^e = sizes[i]}]
        /\ result' = SUCCESS
        /\ UNCHANGED <<arena, link, host, lent>>

\* Mutant: only the first rung asked.
first_grade_idle == nothing_out(0)

all_grades_idle == \A p \in PoolIds : p < ladder.grade_count => nothing_out(p)

\* Every grade is asked before the first one comes down.
ladder_released ==
  LET S == UNION {on_list(pools[p].free_head) : p \in 0..(ladder.grade_count - 1)} IN
  /\ pools' = [p \in PoolIds |-> EmptyPool]
  /\ arena' = destroyed(arena, S, NotMade) /\ link' = destroyed(link, S, NULL)
  /\ host' = host \ S
  /\ ladder' = NULL
  /\ UNCHANGED lent

arnm_graded_arena_pool_release ==
  \/ ~is_standing /\ RefuseGraded(SUCCESS)
  \/ is_standing /\ ~all_grades_idle /\ RefuseGraded(IN_USE)
  \/ is_standing /\ all_grades_idle /\ ladder_released /\ result' = SUCCESS

\* The same, and the descriptor's own bytes, which its allocator may keep.
arnm_graded_arena_pool_destroy ==
  \/ ~is_standing /\ \E r \in {SUCCESS, NOT_RECLAIMED} : RefuseGraded(r)
  \/ is_standing /\ ~all_grades_idle /\ RefuseGraded(IN_USE)
  \/ is_standing /\ all_grades_idle /\ ladder_released /\ result' \in {SUCCESS, NOT_RECLAIMED}

-----------------------------------------------------------------------------
(* Lend and take back.                                                     *)

arnm_graded_arena_pool_alloc(size) ==
  \/ ~is_standing /\ RefuseGraded(NOT_INITIALIZED)
  \/ is_standing /\ size = 0 /\ RefuseGraded(INVALID_PARAM)
  \/ /\ is_standing /\ size # 0 /\ grade_for_size(size) >= ladder.grade_count
     /\ RefuseGraded(SIZE_EXCEED)
  \/ /\ is_standing /\ size # 0 /\ grade_for_size(size) < ladder.grade_count
     /\ arnm_dynamic_arena_pool_alloc(grade_for_size(size))
     /\ UNCHANGED ladder

\* The arena brings its capacity; a stranger is recognised by that alone.
arnm_graded_arena_pool_free(a, capacity) ==
  \/ ~is_standing /\ RefuseGraded(NOT_INITIALIZED)
  \/ is_standing /\ grade_for_capacity(capacity) >= ladder.grade_count /\ RefuseGraded(INVALID_PARAM)
  \/ /\ is_standing /\ grade_for_capacity(capacity) < ladder.grade_count
     /\ arnm_dynamic_arena_pool_free(grade_for_capacity(capacity), a)
     /\ UNCHANGED ladder

\* A grade is an ordinary dynamic pool in the client's hands.
arnm_graded_arena_pool_grade_at(index) ==
  /\ is_standing /\ index < ladder.grade_count
  /\ PoolNext(index)
  /\ UNCHANGED ladder

\* What a client may bring: an arena it was lent, or one from elsewhere.
Returns ==
  {<<a, arena[a].capacity>> : a \in UNION {lent[p] : p \in PoolIds}}
    \cup {<<NULL, capacity>> : capacity \in Requests}

GradedNext ==
  \/ \E sizes \in Ladders, n \in SpareLimits : arnm_graded_arena_pool_init(sizes, n)
  \/ arnm_graded_arena_pool_release
  \/ arnm_graded_arena_pool_destroy
  \/ \E size \in Requests : arnm_graded_arena_pool_alloc(size)
  \/ \E r \in Returns : arnm_graded_arena_pool_free(r[1], r[2])
  \/ \E p \in PoolIds : arnm_graded_arena_pool_grade_at(p)
  \/ is_standing /\ \E a \in Arenas : use_arena(a) /\ UNCHANGED ladder
  \/ ~is_standing /\ PoolsNext /\ UNCHANGED ladder

GradedSpec == GradedInit /\ [][GradedNext]_gradedVars

-----------------------------------------------------------------------------
(* Properties.                                                             *)

\* The bit arithmetic finds what a walk from the bottom would: the answer
\* carries the request, and no rung below it does.  A rung a client released
\* says capacity 0.
SmallestGradeThatFits ==
  is_standing =>
    \A size \in Requests \ {0} :
      LET i == grade_for_size(size) IN
      /\ i \in 0..ladder.grade_count
      /\ i < ladder.grade_count =>
           pools[i].arena_capacity = 0 \/ pools[i].arena_capacity >= size
      /\ \A p \in PoolIds : p < i => pools[p].arena_capacity < size

\* An arena that is out finds the grade that lent it, by its capacity alone.
ArenasFindHome ==
  is_standing =>
    \A p \in PoolIds : \A a \in lent[p] : grade_for_capacity(arena[a].capacity) = p

\* include/arnm/graded_arena_pool.h on grade_at: releasing a grade leaves it
\* "empty -- usable".  A usable grade of a standing ladder never answers that it
\* was not initialised.
ReleasedGradeIsUsable == is_standing => result # NOT_INITIALIZED
=============================================================================
