------------------------------ MODULE ArenaOps ------------------------------
(***************************************************************************)
(* The arithmetic and the descriptor that every allocator of arnm is built *)
(* on (include/arnm/memory.h, src/memory_intern.h, src/memory.c): rounding *)
(* to 8 bytes, the bump index of a single arena, and the two questions it  *)
(* is asked -- how much is left, and is this block the tail.               *)
(*                                                                         *)
(* A block of host memory is an opaque name; an address is a pair          *)
(* (name, offset).  Two different names never hold the same address, which *)
(* is all that malloc promises and all the code relies on.                 *)
(***************************************************************************)
EXTENDS Integers

CONSTANTS UINT32_MAX,   \* largest value of the 32 bit sizes
          NULL          \* the null pointer; no host block has this name

ASSUME WidthAssumption ==
  /\ UINT32_MAX \in Nat
  /\ UINT32_MAX > 8
  /\ (UINT32_MAX + 1) % 8 = 0

ARNM_MAX_ALLOC_SIZE == UINT32_MAX - 7

\* 0 stands for "does not fit", as in the code
arnm_align8_u32(size) ==
  IF size > ARNM_MAX_ALLOC_SIZE THEN 0 ELSE ((size + 7) \div 8) * 8

\* Results are named after the arnm_result codes.
SUCCESS          == "SUCCESS"
NOT_RECLAIMED    == "WARNING_ARENA_MEMORY_NOT_RECLAIMED"
INVALID_PARAM    == "ERROR_INVALID_PARAM"
INVALID_STATE    == "ERROR_INVALID_STATE"
OVERFLOW         == "ERROR_ARITHMETIC_OVERFLOW"
OUT_OF_MEMORY    == "ERROR_OUT_OF_MEMORY"
EXHAUSTED        == "ERROR_RESOURCE_EXHAUSTED"

Results == { SUCCESS, NOT_RECLAIMED, INVALID_PARAM, INVALID_STATE, OVERFLOW,
             OUT_OF_MEMORY, EXHAUSTED }

-----------------------------------------------------------------------------
(* The single arena half of struct arnm_intern.                            *)

HOST     == "DEFAULT"           \* zeroed handle: every call goes to malloc
OWNED    == "ARENA_OWNED"
EXTERNAL == "ARENA_EXTERNAL"    \* over a block the caller lent

arnm_intern(type, data, capacity) ==
  [type |-> type, data |-> data, last_index |-> 0, capacity |-> capacity,
   out_of_memory_capacity |-> 0]

\* last_index never passes capacity, so the subtraction cannot wrap
remaining_bytes(a) == a.capacity - a.last_index

arnm_arena_is_used_up(remaining, full_remaining) == remaining <= full_remaining

\* Mutant: every block taken for the tail.
reclaimable_anywhere(b, aligned_size, a) ==
  /\ aligned_size # 0
  /\ b.data = a.data
  /\ b.off + aligned_size <= a.last_index

\* Is the block the most recent allocation of the arena?
is_single_arena_reclaimable(b, aligned_size, a) ==
  /\ aligned_size # 0
  /\ b.data = a.data
  /\ a.last_index - aligned_size = b.off

bump(a, bytes) == [a EXCEPT !.last_index = @ + bytes]

\* The refusal side of account_capacity_exceeded: the shortfall saturates.
account_capacity_exceeded(aligned_size, a) ==
  [a EXCEPT !.out_of_memory_capacity =
      IF @ + aligned_size > UINT32_MAX THEN UINT32_MAX ELSE @ + aligned_size]

arnm_reset_arena(a) == [a EXCEPT !.last_index = 0, !.out_of_memory_capacity = 0]

\* An owned block goes back to the host and the pointer is cleared; a borrowed
\* one keeps its pointer and only loses its capacity.
arnm_release_arena(a) ==
  arnm_reset_arena([a EXCEPT !.data = IF a.type = OWNED THEN NULL ELSE @,
                             !.capacity = 0])

-----------------------------------------------------------------------------
(* What a client holds: an address and the size it will name when it gives *)
(* the block back.                                                         *)

Block(data, off, size) == [data |-> data, off |-> off, size |-> size]

Reserved(b) == arnm_align8_u32(b.size)

Overlap(b, c) ==
  /\ b.data = c.data
  /\ b.off < c.off + Reserved(c)
  /\ c.off < b.off + Reserved(b)
=============================================================================
