---------------------------- MODULE FixedArenaPool ----------------------------
(***************************************************************************)
(* arnm_fixed_arena_pool (src/fixed_arena_pool.c, arena_free_list.h): a    *)
(* fixed number of arenas laid out in one block of the source,             *)
(*                                                                         *)
(*    [ descriptor 0 .. N-1 ][ buffer 0 ] ... [ buffer N-1 ]               *)
(*                                                                         *)
(* An arena is named by its slot.  While it is free, the first bytes of    *)
(* its buffer hold the slot of the next free one; while it is lent they    *)
(* are the client's.  An address a client brings is a byte offset from the *)
(* front of the block, so that an address between two descriptors, one in  *)
(* a buffer and one outside the block are all things it can bring.         *)
(***************************************************************************)
EXTENDS ArenaOps, FiniteSets

CONSTANTS Capacities,     \* arena capacities init is asked for
          UINT16_MAX,     \* largest arena_count
          ARNM_BYTES,     \* sizeof(arnm)
          Addresses,      \* byte offsets a client may bring to free
          JUNK            \* what a client leaves in a buffer

FixedPoolAssumption ==
  /\ Capacities \subseteq 0..UINT32_MAX
  /\ UINT16_MAX \in Nat \ {0}
  /\ ARNM_BYTES \in Nat \ {0} /\ ARNM_BYTES % 8 = 0
  /\ UINT16_MAX * ARNM_BYTES <= ARNM_MAX_ALLOC_SIZE
  /\ Addresses \subseteq Int
  /\ NULL \notin 0..UINT16_MAX /\ JUNK \notin (0..UINT16_MAX) \cup {NULL}

NOT_INITIALIZED == "ERROR_NOT_INITIALIZED"
IN_USE          == "ERROR_RESOURCE_IN_USE"

Slots == 0..(UINT16_MAX - 1)

VARIABLES pool,     \* the descriptor; arenas is TRUE while it points at a block
          block,    \* bytes of the block the source handed out, 0 for none
          used,     \* Slots -> last_index of the arena there
          link,     \* Slots -> first bytes of its buffer
          lent,     \* slots clients hold
          result

poolVars == <<pool, block, used, link, lent>>
vars == <<pool, block, used, link, lent, result>>

EmptyPool ==
  [arenas |-> FALSE, free_head |-> NULL, arena_capacity |-> 0, arena_count |-> 0,
   acquired_count |-> 0]

Init ==
  /\ pool = EmptyPool /\ block = 0 /\ lent = {} /\ result = SUCCESS
  /\ used = [i \in Slots |-> 0] /\ link = [i \in Slots |-> NULL]

Refuse(r) == result' = r /\ UNCHANGED poolVars

-----------------------------------------------------------------------------
(* Sizes, in 32 bits.                                                      *)

buffers_offset(count) == count * ARNM_BYTES

\* The footprint in 64 bits, where nothing wraps.
block_bytes(count, capacity) == buffers_offset(count) + count * capacity

total_fits(count, capacity) ==
  (ARNM_MAX_ALLOC_SIZE - ARNM_BYTES * count) \div count >= capacity

calculate_total_reserved_memory_size(count, capacity) ==
  ((ARNM_BYTES + capacity) * count) % (UINT32_MAX + 1)

-----------------------------------------------------------------------------
(* The pool itself.                                                        *)

\* Strung back to front: each slot links to the one behind it.
strung(count) ==
  [i \in Slots |-> IF i + 1 < count THEN i + 1 ELSE IF i < count THEN NULL ELSE link[i]]

arnm_fixed_arena_pool_init(arena_capacity, count) ==
  LET capacity == arnm_align8_u32(arena_capacity) IN
  /\ ~pool.arenas                                    \* the header forbids it otherwise
  /\ \/ (arena_capacity = 0 \/ count = 0) /\ Refuse(INVALID_PARAM)
     \/ /\ arena_capacity # 0 /\ count # 0
        /\ capacity = 0 \/ ~total_fits(count, capacity)
        /\ Refuse(OVERFLOW)
     \/ /\ arena_capacity # 0 /\ count # 0 /\ capacity # 0 /\ total_fits(count, capacity)
        /\ \/ Refuse(OUT_OF_MEMORY)
           \/ /\ block' = calculate_total_reserved_memory_size(count, capacity)
              /\ pool' = [arenas |-> TRUE, free_head |-> 0, arena_capacity |-> capacity,
                          arena_count |-> count, acquired_count |-> 0]
              /\ used' = [i \in Slots |-> 0]
              /\ link' = strung(count)
              /\ result' = SUCCESS
              /\ UNCHANGED lent

nothing_out == pool.acquired_count = 0

\* The size is computed a second time; the pool forgets before it gives back.
released ==
  /\ pool' = EmptyPool
  /\ block' = IF pool.arenas
              THEN block - calculate_total_reserved_memory_size(pool.arena_count,
                                                                pool.arena_capacity)
              ELSE block
  /\ UNCHANGED <<used, link, lent>>

\* An arena as source keeps a block that is not its tail, and says so.
arnm_fixed_arena_pool_release ==
  \/ ~nothing_out /\ Refuse(IN_USE)
  \/ nothing_out /\ ~pool.arenas /\ released /\ result' = SUCCESS
  \/ nothing_out /\ pool.arenas /\ released /\ result' \in {SUCCESS, NOT_RECLAIMED}

\* The same, and the descriptor's own bytes, which its allocator may keep too.
arnm_fixed_arena_pool_destroy ==
  \/ ~nothing_out /\ Refuse(IN_USE)
  \/ nothing_out /\ released /\ result' \in {SUCCESS, NOT_RECLAIMED}

-----------------------------------------------------------------------------
(* Lend and take back.                                                     *)

arnm_fixed_arena_pool_alloc ==
  \/ ~pool.arenas /\ Refuse(NOT_INITIALIZED)
  \/ pool.arenas /\ pool.free_head = NULL /\ Refuse(EXHAUSTED)
  \/ /\ pool.arenas /\ pool.free_head # NULL
     /\ lent' = lent \cup {pool.free_head}
     /\ pool' = [pool EXCEPT !.free_head = link[@], !.acquired_count = @ + 1]
     /\ result' = SUCCESS
     /\ UNCHANGED <<block, used, link>>

is_arena(address) == \E i \in 0..(pool.arena_count - 1) : address = ARNM_BYTES * i

\* Mutant: the address behind the last descriptor let in.
belongs_one_past(address) ==
  address \in 0..buffers_offset(pool.arena_count) /\ address % ARNM_BYTES = 0

\* A descriptor of the block, addressed at its front.
belongs_to(address) ==
  /\ address \in 0..(buffers_offset(pool.arena_count) - 1)
  /\ address % ARNM_BYTES = 0

reset_on_return(slot) == [used EXCEPT ![slot] = 0]

arnm_fixed_arena_pool_free(address) ==
  LET slot == address \div ARNM_BYTES IN
  \/ ~pool.arenas /\ Refuse(NOT_INITIALIZED)
  \/ pool.arenas /\ ~belongs_to(address) /\ Refuse(INVALID_PARAM)
  \/ pool.arenas /\ belongs_to(address) /\ pool.acquired_count = 0 /\ Refuse(INVALID_STATE)
  \/ /\ pool.arenas /\ belongs_to(address) /\ pool.acquired_count # 0
     /\ is_arena(address) => slot \in lent           \* each arena is returned once
     /\ used' = reset_on_return(slot)
     /\ link' = [link EXCEPT ![slot] = pool.free_head]
     /\ pool' = [pool EXCEPT !.free_head = slot, !.acquired_count = @ - 1]
     /\ lent' = lent \ {slot}
     /\ result' = SUCCESS
     /\ UNCHANGED block

\* The client allocates from an arena it holds and writes into its buffer.
use_arena(slot) ==
  /\ slot \in lent
  /\ used[slot] + 8 <= pool.arena_capacity
  /\ used' = [used EXCEPT ![slot] = @ + 8]
  /\ link' = [link EXCEPT ![slot] = JUNK]
  /\ UNCHANGED <<pool, block, lent, result>>

Next ==
  \/ \E c \in Capacities, n \in 0..UINT16_MAX : arnm_fixed_arena_pool_init(c, n)
  \/ arnm_fixed_arena_pool_release
  \/ arnm_fixed_arena_pool_destroy
  \/ arnm_fixed_arena_pool_alloc
  \/ \E address \in Addresses : arnm_fixed_arena_pool_free(address)
  \/ \E slot \in Slots : use_arena(slot)

Spec == Init /\ [][Next]_vars

-----------------------------------------------------------------------------
(* Properties.                                                             *)

\* What the walk from the head meets, step by step.
walked ==
  LET at[n \in 0..UINT16_MAX] ==
        IF n = 0 THEN pool.free_head
        ELSE IF at[n - 1] \in Slots THEN link[at[n - 1]] ELSE at[n - 1]
  IN at

\* Types; in particular the head is a slot of the block.
TypeOK ==
  /\ pool \in [arenas : BOOLEAN, free_head : Slots \cup {NULL},
               arena_capacity : 0..ARNM_MAX_ALLOC_SIZE, arena_count : 0..UINT16_MAX,
               acquired_count : 0..UINT16_MAX]
  /\ used \in [Slots -> 0..UINT32_MAX]
  /\ link \in [Slots -> Slots \cup {NULL, JUNK}]
  /\ lent \subseteq Slots
  /\ result \in Results \cup {NOT_INITIALIZED, IN_USE}

\* The free list and the lent arenas divide the slots of the block between
\* them: the links from the head meet every slot that is not out, each once,
\* and end in NULL.  So no arena is lost, and none is lent twice.  A free arena
\* waits empty, so alloc hands it over as init left it.
FreeListIsRest ==
  /\ TypeOK
  /\ pool.acquired_count = Cardinality(lent)
  /\ \E n \in 0..UINT16_MAX :
       /\ walked[n] = NULL
       /\ n = pool.arena_count - pool.acquired_count
       /\ {walked[i] : i \in 0..(n - 1)} = (0..(pool.arena_count - 1)) \ lent
  /\ \A i \in Slots : i < pool.arena_count /\ i \notin lent => used[i] = 0

\* Beside the list: every buffer lies inside the block that was asked for,
\* although its size was computed in 32 bits, release names the same size init
\* did, and the block is never let go while a client writes into it.
BlockHoldsArenas ==
  /\ FreeListIsRest
  /\ block = IF pool.arenas THEN block_bytes(pool.arena_count, pool.arena_capacity) ELSE 0
  /\ lent # {} => block # 0
=============================================================================
