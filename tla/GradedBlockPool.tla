--------------------------- MODULE GradedBlockPool ---------------------------
(***************************************************************************)
(* arnm_graded_block_pool (src/graded_block_pool.c and the inline path in  *)
(* include/arnm/graded_block_pool.h): blocks of a power of two bytes, cut  *)
(* at the cursor of one arena at a time, caught on a free list per grade   *)
(* when they come back.                                                    *)
(*                                                                         *)
(* The chain below is MultiArena seen from here: it hands out whole arenas *)
(* of one capacity, reuses its own after a reset before it asks the host,  *)
(* and refuses when the host does.  A free list is a sequence, head first; *)
(* its links lie in the blocks on it, which BlocksDisjoint keeps out of    *)
(* every client's reach.                                                   *)
(***************************************************************************)
EXTENDS ArenaOps, FiniteSetsExt, Sequences

CONSTANTS Arenas,          \* arenas the host can give the chain
          WORD,            \* bits of a uint32_t
          DEFAULT_MIN_LOG2, DEFAULT_MAX_LOG2, DEFAULT_ALLOC_ARENA_CAPACITY,
          Options,         \* what init is asked for
          Sizes,           \* sizes asked of alloc, realloc and free
          Logs,            \* exponents asked of the calls by exponent
          MaxLent          \* blocks the clients hold at once

BlockPoolAssumption ==
  /\ WORD \in Nat /\ UINT32_MAX = 2^WORD - 1
  /\ NULL \notin Arenas /\ IsFiniteSet(Arenas)
  /\ {DEFAULT_MIN_LOG2, DEFAULT_MAX_LOG2, DEFAULT_ALLOC_ARENA_CAPACITY} \subseteq Nat \ {0}
  /\ \A o \in Options : {o.min, o.max, o.arenas} \subseteq Nat
  /\ Sizes \subseteq 0..UINT32_MAX /\ Logs \subseteq Nat /\ MaxLent \in Nat

MIN_LOG2 == 3
MAX_LOG2 == WORD - 1

NOT_INITIALIZED == "ERROR_NOT_INITIALIZED"
SIZE_EXCEED     == "ERROR_RESOURCE_SIZE_EXCEED"

VARIABLES pool,     \* the struct, its free lists and its current arena included
          taken,    \* arenas the chain has handed to the pool since the last reset
          opened,   \* arenas the chain holds from the host
          lent,     \* blocks with clients, and the size each was asked with
          result

vars == <<pool, taken, opened, lent, result>>

Refuse(r) == result' = r /\ UNCHANGED <<pool, taken, opened, lent>>

NoLists == [log2 \in MIN_LOG2..MAX_LOG2 |-> << >>]

\* source is TRUE while the pool has its chain; arena NULL is a zeroed handle.
Zeroed ==
  [source |-> FALSE, lent_bytes |-> 0, cached_bytes |-> 0, min |-> 0, max |-> 0,
   arena_capacity |-> 0, free |-> NoLists, arena |-> NULL, cursor |-> 0]

Init == pool = Zeroed /\ taken = {} /\ opened = {} /\ lent = {} /\ result = SUCCESS

-----------------------------------------------------------------------------
(* Grades.                                                                 *)

arnm_log2_power_of_two(bytes) ==
  CHOOSE e \in 0..WORD : bytes <= 2^e /\ (e = 0 \/ 2^(e - 1) < bytes)

exponent_of(size) == arnm_log2_power_of_two(arnm_align8_u32(size))

\* Why size has no grade here, or SUCCESS.
refusal(size) ==
  IF size = 0 THEN INVALID_PARAM
  ELSE IF arnm_align8_u32(size) = 0 THEN OVERFLOW
  ELSE IF exponent_of(size) > pool.max THEN SIZE_EXCEED
  ELSE SUCCESS

raised(log2) == IF log2 < pool.min THEN pool.min ELSE log2

\* Shared by alloc and free, so that both agree on the list.
size_to_log2(size) == raised(exponent_of(size))

-----------------------------------------------------------------------------
(* Steps on the struct.  p is the struct, a result is the struct after.    *)

remaining(p) == IF p.arena = NULL THEN 0 ELSE p.arena_capacity - p.cursor

At(arena, off, log2) == [arena |-> arena, off |-> off, log2 |-> log2]

cut(p, log2) ==
  [pool |-> [p EXCEPT !.cursor = @ + 2^log2, !.lent_bytes = @ + 2^log2],
   block |-> At(p.arena, p.cursor, log2)]

take(p, log2) ==
  [pool |-> [p EXCEPT !.free[log2] = Tail(@), !.cached_bytes = @ - 2^log2,
                      !.lent_bytes = @ + 2^log2],
   block |-> Head(p.free[log2])]

\* As many blocks of this grade as fit at the cursor, each onto its list.
split_grade(p, log2) ==
  LET n == remaining(p) \div 2^log2 IN
  [p EXCEPT !.free[log2] = [i \in 1..n |-> At(p.arena, p.cursor + (n - i) * 2^log2, log2)] \o @,
            !.cached_bytes = @ + n * 2^log2,
            !.cursor = @ + n * 2^log2]

\* Mutant: the rest of an arena dropped.
split_dropping_rest(p) == p

\* The rest of the current arena, largest grade first.
split_current(p) ==
  LET after[n \in 0..(p.max - p.min + 1)] ==
        IF n = 0 THEN p ELSE split_grade(after[n - 1], p.max - n + 1)
  IN after[p.max - p.min + 1]

next_arena(p, fresh) == [split_current(p) EXCEPT !.arena = fresh, !.cursor = 0]

needs_arena(p, log2) == p.free[log2] = << >> /\ remaining(p) < 2^log2

\* From the list, from the current arena, or from a fresh one; after a split the
\* list is looked at once more.
arnm_graded_block_pool_alloc_log2(p, log2, fresh) ==
  IF p.free[log2] # << >> THEN take(p, log2)
  ELSE IF remaining(p) >= 2^log2 THEN cut(p, log2)
  ELSE LET q == next_arena(p, fresh) IN
       IF q.free[log2] # << >> THEN take(q, log2) ELSE cut(q, log2)

arnm_graded_block_pool_free_log2(p, b) ==
  [p EXCEPT !.free[b.log2] = <<b>> \o @, !.lent_bytes = @ - 2^b.log2,
            !.cached_bytes = @ + 2^b.log2]

\* Where the chain finds an arena: its own empty ones first, then the host.
chain_offers == IF opened \ taken # {} THEN opened \ taken ELSE Arenas \ opened

-----------------------------------------------------------------------------
(* The pool itself.                                                        *)

filled_in(o) ==
  [min |-> IF o.min = 0 THEN DEFAULT_MIN_LOG2 ELSE o.min,
   max |-> IF o.max = 0 THEN DEFAULT_MAX_LOG2 ELSE o.max,
   arenas |-> IF o.arenas = 0 THEN DEFAULT_ALLOC_ARENA_CAPACITY ELSE o.arenas]

arnm_graded_block_pool_options_validate(o) ==
  MIN_LOG2 <= o.min /\ o.max <= MAX_LOG2 /\ o.min <= o.max

\* Computed in 64 bits, and capped rather than refused.
arena_capacity_of(o) ==
  IF 2^o.max * o.arenas > ARNM_MAX_ALLOC_SIZE THEN ARNM_MAX_ALLOC_SIZE ELSE 2^o.max * o.arenas

arnm_graded_block_pool_init(options) ==
  LET o == filled_in(options) IN
  /\ ~pool.source                              \* the header calls the rest lost
  /\ \/ ~arnm_graded_block_pool_options_validate(o) /\ Refuse(INVALID_PARAM)
     \/ arnm_graded_block_pool_options_validate(o) /\ Refuse(OUT_OF_MEMORY)
     \/ /\ arnm_graded_block_pool_options_validate(o)
        /\ pool' = [Zeroed EXCEPT !.source = TRUE, !.min = o.min, !.max = o.max,
                                  !.arena_capacity = arena_capacity_of(o)]
        /\ result' = SUCCESS
        /\ UNCHANGED <<taken, opened, lent>>

\* Mutant: the free lists kept through a reset.
reset_keeping_lists(p) ==
  [p EXCEPT !.arena = NULL, !.cursor = 0, !.lent_bytes = 0, !.cached_bytes = 0]

emptied(p) ==
  [p EXCEPT !.free = NoLists, !.arena = NULL, !.cursor = 0, !.lent_bytes = 0, !.cached_bytes = 0]

\* Every block ends, the lent ones included; the chain keeps its arenas.
arnm_graded_block_pool_reset ==
  /\ pool' = emptied(pool) /\ taken' = {} /\ lent' = {}
  /\ result' = SUCCESS /\ UNCHANGED opened

arnm_graded_block_pool_release ==
  /\ pool' = [emptied(pool) EXCEPT !.source = FALSE]
  /\ taken' = {} /\ opened' = {} /\ lent' = {} /\ result' = SUCCESS

\* The chain and then the struct go; source may keep the bytes of either.
arnm_graded_block_pool_destroy ==
  /\ pool' = Zeroed
  /\ taken' = {} /\ opened' = {} /\ lent' = {} /\ result' \in {SUCCESS, NOT_RECLAIMED}

-----------------------------------------------------------------------------
(* Blocks.                                                                 *)

\* A block of this grade to a client that asked for size bytes, giving back
\* the blocks of gone on the way out.
hand_out(log2, size, gone) ==
  \/ needs_arena(pool, log2) /\ Refuse(OUT_OF_MEMORY)
  \/ \E fresh \in IF needs_arena(pool, log2) THEN chain_offers ELSE {NULL} :
       LET got == arnm_graded_block_pool_alloc_log2(pool, log2, fresh) IN
       /\ pool' = IF gone = {} THEN got.pool
                  ELSE arnm_graded_block_pool_free_log2(got.pool, (CHOOSE g \in gone : TRUE).block)
       /\ lent' = (lent \ gone) \cup {[block |-> got.block, size |-> size]}
       /\ taken' = (taken \cup {fresh}) \ {NULL}
       /\ opened' = (opened \cup {fresh}) \ {NULL}
       /\ result' = SUCCESS

has_room == Cardinality(lent) < MaxLent

arnm_graded_block_pool_alloc(size) ==
  \/ ~pool.source /\ Refuse(NOT_INITIALIZED)
  \/ pool.source /\ refusal(size) # SUCCESS /\ Refuse(refusal(size))
  \/ /\ pool.source /\ refusal(size) = SUCCESS
     /\ has_room
     /\ hand_out(size_to_log2(size), size, {})

\* The caller names an exponent; on a zeroed struct no exponent is in range.
alloc_by_log2(log2) ==
  \/ log2 > pool.max /\ Refuse(SIZE_EXCEED)
  \/ log2 <= pool.max /\ ~pool.source /\ Refuse(NOT_INITIALIZED)
  \/ /\ log2 <= pool.max /\ pool.source
     /\ has_room
     /\ hand_out(raised(log2), 2^log2, {})

\* Always a new block first, then the old one goes back.
arnm_graded_block_pool_realloc(l, new_size) ==
  \/ refusal(new_size) # SUCCESS /\ Refuse(refusal(new_size))
  \/ refusal(new_size) = SUCCESS /\ hand_out(size_to_log2(new_size), new_size, {l})

given_back(l) ==
  /\ pool' = arnm_graded_block_pool_free_log2(pool, l.block)
  /\ lent' = lent \ {l}
  /\ result' = SUCCESS
  /\ UNCHANGED <<taken, opened>>

\* Any size of the block's grade will do; with less out than the grade has, the
\* block cannot be this pool's.
arnm_graded_block_pool_free(size) ==
  \/ ~pool.source /\ Refuse(NOT_INITIALIZED)
  \/ pool.source /\ refusal(size) # SUCCESS /\ Refuse(refusal(size))
  \/ /\ pool.source /\ refusal(size) = SUCCESS
     /\ \/ pool.lent_bytes < 2^size_to_log2(size) /\ Refuse(INVALID_STATE)
        \/ /\ pool.lent_bytes >= 2^size_to_log2(size)
           /\ \E l \in lent : l.block.log2 = size_to_log2(size) /\ given_back(l)

free_by_log2(log2) ==
  \/ log2 > pool.max /\ Refuse(SIZE_EXCEED)
  \/ log2 <= pool.max /\ pool.lent_bytes < 2^raised(log2) /\ Refuse(INVALID_STATE)
  \/ /\ log2 <= pool.max /\ pool.lent_bytes >= 2^raised(log2)
     /\ \E l \in lent : l.block.log2 = raised(log2) /\ given_back(l)

Next ==
  \/ \E o \in Options : arnm_graded_block_pool_init(o)
  \/ arnm_graded_block_pool_reset
  \/ arnm_graded_block_pool_release
  \/ arnm_graded_block_pool_destroy
  \/ \E size \in Sizes : arnm_graded_block_pool_alloc(size)
  \/ \E log2 \in Logs : alloc_by_log2(log2)
  \/ \E l \in lent, size \in Sizes : arnm_graded_block_pool_realloc(l, size)
  \/ \E size \in Sizes : arnm_graded_block_pool_free(size)
  \/ \E log2 \in Logs : free_by_log2(log2)

Spec == Init /\ [][Next]_vars

-----------------------------------------------------------------------------
(* Properties.                                                             *)

Cached == UNION {{pool.free[g][i] : i \in DOMAIN pool.free[g]} : g \in DOMAIN pool.free}

LentBlocks == {l.block : l \in lent}

Bytes(S) == MapThenSumSet(LAMBDA b : 2^b.log2, S)

\* Every block is of a grade of the pool, on the list of its grade, inside an
\* arena the chain handed over.
TypeOK ==
  /\ \A b \in Cached \cup LentBlocks :
       /\ b.arena \in taken
       /\ b.log2 \in pool.min..pool.max
       /\ b.off >= 0 /\ b.off + 2^b.log2 <= pool.arena_capacity
  /\ \A g \in DOMAIN pool.free : \A i \in DOMAIN pool.free[g] : pool.free[g][i].log2 = g
  /\ pool.arena \in taken \cup {NULL} /\ taken \subseteq opened /\ opened \subseteq Arenas
  /\ pool.cursor \in 0..pool.arena_capacity

\* Blocks lie inside arenas the pool holds, on the list of their grade or lent.
\* No byte belongs to two of them, nor to a block and to what
\* the cursor has not reached.  The links of the free lists, which live in the
\* cached blocks, are therefore never a client's to overwrite.  A lent block
\* holds what was asked for.
BlocksDisjoint ==
  /\ TypeOK
  /\ \A b, c \in Cached \cup LentBlocks :
       b # c /\ b.arena = c.arena => b.off + 2^b.log2 <= c.off \/ c.off + 2^c.log2 <= b.off
  /\ \A b \in Cached \cup LentBlocks : b.arena = pool.arena => b.off + 2^b.log2 <= pool.cursor
  /\ Cached \cap LentBlocks = {}
  /\ \A l \in lent : l.size <= 2^l.block.log2

\* Every byte of every arena is lent, cached or still ahead of the cursor; only
\* an arena whose capacity was capped loses the bytes no grade takes.  The two
\* counters this is told by are what is out and what is on the lists, to the
\* byte, and no list holds a block twice.
EveryByteServes ==
  /\ pool.lent_bytes = Bytes(LentBlocks) /\ Cardinality(LentBlocks) = Cardinality(lent)
  /\ pool.cached_bytes = Bytes(Cached)
  /\ Cardinality(Cached) = MapThenSumSet(LAMBDA g : Len(pool.free[g]), DOMAIN pool.free)
  /\ taken # {} =>
       pool.lent_bytes + pool.cached_bytes + remaining(pool)
         + (Cardinality(taken) - 1) * (pool.arena_capacity % 2^pool.min)
           = Cardinality(taken) * pool.arena_capacity
=============================================================================
