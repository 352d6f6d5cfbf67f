----------------------------- MODULE FixedRing ------------------------------
(***************************************************************************)
(* arnm_fixed_ring (src/fixed_ring.c, include/arnm/fixed_ring.h): a bounded*)
(* FIFO in one block.  The queue is the run of size slots that begins at   *)
(* head and wraps once; the back is not stored.                            *)
(*                                                                         *)
(* slots is the block, slot by slot; a fresh block holds whatever it held  *)
(* before.  Index arithmetic is done in the 32 bit width, as in the code.  *)
(* The block comes from an allocator that may refuse it, and that may keep *)
(* it when it is given back (module Arena).                                *)
(***************************************************************************)
EXTENDS ArenaOps, Sequences

CONSTANTS Values,           \* what a slot may hold
          UINT16_MAX,       \* the largest element size a ring takes
          Capacities,       \* capacities init is asked for
          ElementSizes      \* element sizes init is asked for

ASSUME RingAssumption ==
  /\ Capacities \subseteq 0..UINT32_MAX
  /\ ElementSizes \subseteq 0..UINT32_MAX
  /\ UINT16_MAX \in 0..UINT32_MAX
  /\ Values # {}

NOT_INITIALIZED == "ERROR_NOT_INITIALIZED"
OUT_OF_BOUNDS   == "ERROR_ARRAY_INDEX_OUT_OF_BOUNDS"
TOO_SMALL       == "ERROR_DESTINATION_BUFFER_TO_SMALL"

VARIABLES slots,            \* 0..capacity-1 -> Values while the ring has its block
          capacity, head, size, element_size,
          taken,            \* bytes init took from the allocator
          out,              \* what the last copying call wrote to the caller
          result

ring == <<slots, capacity, head, size, element_size>>
vars == <<slots, capacity, head, size, element_size, taken, out, result>>

NoSlots == [i \in {} |-> 0]

Init ==
  /\ slots = NoSlots /\ capacity = 0 /\ head = 0 /\ size = 0 /\ element_size = 0
  /\ taken = 0
  /\ out = << >>
  /\ result = SUCCESS

initialized == capacity # 0

uint32(n) == n % (UINT32_MAX + 1)

block_bytes == uint32(capacity * element_size)

Refuse(r) == result' = r /\ UNCHANGED <<slots, capacity, head, size, element_size, taken, out>>

sizes_valid(n, bytes) == n # 0 /\ bytes # 0 /\ bytes <= UINT16_MAX

\* Mutant: the product left to wrap.
init_unbounded(n, bytes) == sizes_valid(n, bytes)

\* "Asked as a division so that nothing has to be computed that could already
\* have wrapped."
init_fits(n, bytes) == sizes_valid(n, bytes) /\ n <= ARNM_MAX_ALLOC_SIZE \div bytes

\* The caller does not init a ring that still holds its block.
arnm_fixed_ring_init(n, bytes) ==
  /\ ~initialized
  /\ \/ ~sizes_valid(n, bytes) /\ Refuse(INVALID_PARAM)
     \/ sizes_valid(n, bytes) /\ ~init_fits(n, bytes) /\ Refuse(OVERFLOW)
     \/ init_fits(n, bytes) /\ Refuse(OUT_OF_MEMORY)
     \/ /\ init_fits(n, bytes)
        /\ \E v \in Values : slots' = [i \in 0..(n - 1) |-> v]
        /\ capacity' = n /\ head' = 0 /\ size' = 0 /\ element_size' = bytes
        /\ taken' = uint32(n * bytes)
        /\ result' = SUCCESS
        /\ UNCHANGED out

\* Emptied whatever the allocator answers.
arnm_fixed_ring_free ==
  /\ slots' = NoSlots /\ capacity' = 0 /\ head' = 0 /\ size' = 0 /\ element_size' = 0
  /\ taken' = 0
  /\ result' \in IF initialized THEN {SUCCESS, NOT_RECLAIMED} ELSE {SUCCESS}
  /\ UNCHANGED out

arnm_fixed_ring_clear ==
  /\ head' = 0 /\ size' = 0
  /\ UNCHANGED <<slots, capacity, element_size, taken, out, result>>

\* The slot of the index-th element: one 32 bit addition, one comparison.
arnm_fixed_ring_get(index) ==
  LET slot == uint32(head + index) IN
  IF slot >= capacity THEN slot - capacity ELSE slot

\* Room for one more?  A full ring refuses rather than drop the oldest.
emplace_has_room == initialized /\ size # capacity

EmplaceRefused ==
  \/ ~initialized /\ Refuse(NOT_INITIALIZED)
  \/ initialized /\ ~emplace_has_room /\ Refuse(EXHAUSTED)

\* The slot is claimed and keeps what its last occupant left behind.
arnm_fixed_ring_emplace ==
  \/ EmplaceRefused
  \/ /\ emplace_has_room
     /\ size' = size + 1
     /\ result' = SUCCESS
     /\ UNCHANGED <<slots, capacity, head, element_size, taken, out>>

\* arnm_fixed_ring_push_ptr: the same slot, written before the call returns.
arnm_fixed_ring_push_ptr(v) ==
  \/ EmplaceRefused
  \/ /\ emplace_has_room
     /\ slots' = [slots EXCEPT ![arnm_fixed_ring_get(size)] = v]
     /\ size' = size + 1
     /\ result' = SUCCESS
     /\ UNCHANGED <<capacity, head, element_size, taken, out>>

\* The caller writes through the address of an element it may read.
write_element(index, v) ==
  /\ index < size
  /\ slots' = [slots EXCEPT ![arnm_fixed_ring_get(index)] = v]
  /\ UNCHANGED <<capacity, head, size, element_size, taken, out, result>>

\* Mutant: head brought back one slot early.
advance_early == IF head + 1 >= capacity - 1 THEN 0 ELSE head + 1

advance == IF head + 1 = capacity THEN 0 ELSE head + 1

arnm_fixed_ring_pop ==
  \/ size = 0 /\ Refuse(OUT_OF_BOUNDS)
  \/ /\ size # 0
     /\ head' = advance
     /\ size' = size - 1
     /\ result' = SUCCESS
     /\ UNCHANGED <<slots, capacity, element_size, taken, out>>

arnm_fixed_ring_pop_copy ==
  \/ size = 0 /\ Refuse(OUT_OF_BOUNDS)
  \/ /\ size # 0
     /\ out' = << slots[arnm_fixed_ring_get(0)] >>
     /\ head' = advance
     /\ size' = size - 1
     /\ result' = SUCCESS
     /\ UNCHANGED <<slots, capacity, element_size, taken>>

\* From head to the end of the block, and the remainder from its start.
two_runs ==
  LET to_end    == capacity - head
      first_run == IF size < to_end THEN size ELSE to_end IN
  [i \in 1..size |-> IF i <= first_run THEN slots[head + i - 1]
                     ELSE slots[i - first_run - 1]]

arnm_fixed_ring_copy_to(dst_capacity) ==
  \/ dst_capacity < size /\ Refuse(TOO_SMALL)
  \/ dst_capacity >= size /\ size = 0 /\ Refuse(SUCCESS)
  \/ /\ dst_capacity >= size /\ size # 0
     /\ out' = two_runs
     /\ result' = SUCCESS
     /\ UNCHANGED <<slots, capacity, head, size, element_size, taken>>

Next ==
  \/ \E n \in Capacities, bytes \in ElementSizes : arnm_fixed_ring_init(n, bytes)
  \/ arnm_fixed_ring_free \/ arnm_fixed_ring_clear
  \/ arnm_fixed_ring_emplace
  \/ \E v \in Values : arnm_fixed_ring_push_ptr(v)
  \/ \E index \in 0..(size - 1), v \in Values : write_element(index, v)
  \/ arnm_fixed_ring_pop \/ arnm_fixed_ring_pop_copy
  \/ \E n \in {size, size - 1} \ {-1} : arnm_fixed_ring_copy_to(n)

Spec == Init /\ [][Next]_vars

-----------------------------------------------------------------------------
(* Properties.                                                             *)

\* The descriptor stays in its types: head inside the block, size at most the
\* capacity, one slot per element.
TypeOK ==
  /\ capacity \in 0..UINT32_MAX
  /\ slots \in [0..(capacity - 1) -> Values]
  /\ head \in 0..UINT32_MAX /\ (initialized => head < capacity)
  /\ size \in 0..capacity
  /\ element_size \in 0..UINT32_MAX
  /\ taken \in 0..UINT32_MAX
  /\ out \in Seq(Values)
  /\ result \in Results \cup {NOT_INITIALIZED, OUT_OF_BOUNDS, TOO_SMALL}

\* The block init took holds every slot, and free names exactly its size.
BlockHoldsSlots ==
  taken = capacity * element_size /\ block_bytes = taken

\* The ring is a bounded queue: each element is found at the slot get names,
\* in the order of arrival, through any number of wraps.
contents == [i \in 1..size |-> slots[arnm_fixed_ring_get(i - 1)]]

Queue == INSTANCE BoundedQueue
           WITH queue <- contents, bound <- capacity, Bounds <- Capacities

IsBoundedQueue == Queue!Spec

\* fixed_ring.h:301 on arnm_fixed_ring_get: "head is below the capacity and
\* index below the size, so their sum passes the end at most once and a single
\* subtraction brings it back."  No two elements may then share a slot.  The
\* sum is a uint32_t: above half the range it wraps at the width before it
\* reaches the comparison.
ElementsHaveOwnSlots ==
  \A i, j \in 0..(size - 1) :
    i # j => arnm_fixed_ring_get(i) # arnm_fixed_ring_get(j)
=============================================================================
