---------------------------- MODULE BucketVector ----------------------------
(***************************************************************************)
(* arnm_bvec (src/bucket_vector.c, include/arnm/bucket_vector.h): elements *)
(* in equal buckets behind an index array, over an allocator that is the   *)
(* host or one arena.  Buckets never move; the index array may.            *)
(*                                                                         *)
(* An address is an offset behind an arena and a name on the host.         *)
(* A neighbour shares the arena and can bury the vector's newest block.    *)
(* Only the vector's blocks are modelled on the host, where no block ever  *)
(* gets in the way of another.                                             *)
(***************************************************************************)
EXTENDS ArenaOps, Sequences, SequencesExt

CONSTANTS Values,               \* what an element may hold
          UINT16_MAX,
          MAX_BUCKET_LOG2,      \* 15 in the code: a full bucket fits a uint16_t
          HostAddresses,        \* addresses malloc may return
          ArenaCapacities,      \* sizes of the arena behind the vector
          Log2s, Steps, ElementSizes,   \* what init is asked for
          DEFAULT_INDEX_GROW_STEP_SIZE,
          Counts                \* what reserve is asked for

ASSUME BvecAssumption ==
  /\ Values # {}
  /\ UINT16_MAX \in 8..UINT32_MAX
  /\ MAX_BUCKET_LOG2 \in 1..15 /\ 2^MAX_BUCKET_LOG2 <= UINT16_MAX
  /\ UINT16_MAX * 2^MAX_BUCKET_LOG2 <= ARNM_MAX_ALLOC_SIZE
  /\ DEFAULT_INDEX_GROW_STEP_SIZE \in 1..UINT16_MAX
  /\ HostAddresses \cap Nat = {}
  /\ \A c \in ArenaCapacities : c \in 0..ARNM_MAX_ALLOC_SIZE /\ c % 8 = 0
  /\ Log2s \subseteq Nat /\ Steps \subseteq 0..UINT16_MAX
  /\ ElementSizes \subseteq Nat /\ Counts \subseteq 0..UINT32_MAX
  /\ NULL \notin Nat \cup HostAddresses \cup Values

ARNM_BVEC_MAX_INDEX_CAPACITY == (UINT16_MAX - 7) \div 8

OUT_OF_BOUNDS == "ERROR_ARRAY_INDEX_OUT_OF_BOUNDS"
TOO_SMALL     == "ERROR_DESTINATION_BUFFER_TO_SMALL"

VARIABLES memory,   \* the allocator: HOST, or an arena with its bump index
          held,     \* addresses the host has handed out and not got back
          others,   \* 8 byte blocks the neighbour holds in the arena
          v,        \* the descriptor
          cells,    \* bucket address -> contents of the bucket
          out, result

vars == <<memory, held, others, v, cells, out, result>>

\* A descriptor that never saw init reads as all zeroes.
ZeroedDescriptor ==
  [index |-> NULL, slots |-> << >>, element_size |-> 0, bucket_capacity |-> 0,
   tail_index |-> 0, tail_used |-> 0, tail |-> NULL, size |-> 0, log2 |-> 0, step |-> 0,
   allocated_count |-> 0]

NoCells == [a \in {} |-> 0]

Init ==
  /\ memory \in {arnm_intern(HOST, NULL, 0)}
                  \cup {arnm_intern(OWNED, 0, c) : c \in ArenaCapacities}
  /\ held = {} /\ others = {}
  /\ v = ZeroedDescriptor /\ cells = NoCells
  /\ out = << >>
  /\ result = SUCCESS

Refuse(r) == result' = r /\ UNCHANGED <<memory, held, others, v, cells, out>>

-----------------------------------------------------------------------------
(* The allocator, as the vector calls it (modules Arena and ArenaOps).     *)

behind_arena == memory.type # HOST

\* k blocks of the given size in a row, or none of this size any more.
taken(m, h, bytes, k) ==
  LET n == arnm_align8_u32(bytes) IN
  IF m.type = HOST
  THEN {[memory |-> m, held |-> h \cup Range(s), at |-> s] :
          s \in {t \in [1..k -> HostAddresses \ h] : IsInjective(t)}}
  ELSE {[memory |-> bump(m, k * n), held |-> h,
         at |-> [j \in 1..k |-> m.last_index + (j - 1) * n]] :
          x \in IF k * n <= remaining_bytes(m) THEN {0} ELSE {}}

may_refuse(m, bytes) ==
  m.type = HOST \/ remaining_bytes(m) < arnm_align8_u32(bytes)

at_tail(m, at, bytes) ==
  is_single_arena_reclaimable(Block(0, at, bytes), arnm_align8_u32(bytes), m)

\* Mutant: a buried block that moves the index.
given_back_unchecked(m, h, at, bytes) ==
  [ok |-> TRUE, memory |-> IF m.type = HOST THEN m ELSE bump(m, -arnm_align8_u32(bytes)),
   held |-> h \ {at}]

\* What arnm_free answers and leaves behind.
given_back(m, h, at, bytes) ==
  IF m.type = HOST THEN [ok |-> TRUE, memory |-> m, held |-> h \ {at}]
  ELSE IF at_tail(m, at, bytes)
  THEN [ok |-> TRUE, memory |-> bump(m, -arnm_align8_u32(bytes)), held |-> h]
  ELSE [ok |-> FALSE, memory |-> m, held |-> h]

\* What arnm_realloc answers for the index array: sizes differ, new is not 0.
resized(m, h, at, old, new) ==
  LET refused == [result |-> OUT_OF_MEMORY, memory |-> m, held |-> h, at |-> at]
      same    == [result |-> SUCCESS, memory |-> m, held |-> h, at |-> at] IN
  IF m.type = HOST
  THEN {refused} \cup (IF at = NULL THEN {} ELSE {same})
         \cup {[same EXCEPT !.at = a, !.held = (h \ {at}) \cup {a}] : a \in HostAddresses \ h}
  ELSE IF at # NULL /\ at_tail(m, at, old)
  THEN {IF new - old <= remaining_bytes(m)
        THEN [same EXCEPT !.memory = bump(m, new - old)] ELSE refused}
  ELSE IF new <= old THEN {[same EXCEPT !.result = NOT_RECLAIMED]}
  ELSE IF remaining_bytes(m) < new THEN {refused}
  ELSE {[result |-> NOT_RECLAIMED, memory |-> bump(m, new), held |-> h, at |-> m.last_index]}

\* The neighbour takes a block behind the vector's back, or returns its own.
neighbour ==
  /\ behind_arena
  /\ \/ /\ remaining_bytes(memory) >= 8
        /\ others' = others \cup {memory.last_index} /\ memory' = bump(memory, 8)
     \/ \E at \in others :
          /\ at_tail(memory, at, 8)
          /\ others' = others \ {at} /\ memory' = bump(memory, -8)
  /\ UNCHANGED <<held, v, cells, out, result>>

-----------------------------------------------------------------------------
(* Sizes and counts.                                                       *)

bucket_capacity == 2^v.log2
bucket_bytes    == v.element_size * bucket_capacity
index_bytes(n)  == n * 8                \* sizeof(void *)

arnm_bvec_bucket_count == IF v.tail # NULL THEN v.tail_index + 1 ELSE 0

bucket_count_allocated == IF v.index # NULL THEN v.allocated_count ELSE 0

is_state_valid ==
  /\ v.element_size # 0 /\ v.log2 # 0
  /\ IF v.index = NULL
     THEN /\ v.bucket_capacity = 0 /\ v.tail_index = 0 /\ v.tail = NULL /\ v.size = 0
     ELSE /\ v.bucket_capacity # 0
          /\ bucket_count_allocated <= v.bucket_capacity
          /\ IF v.tail # NULL THEN v.tail_index < bucket_count_allocated ELSE v.tail_index = 0
          /\ v.size <= bucket_count_allocated * bucket_capacity

arnm_bvec_init(log2, step, bytes) ==
  /\ v.index = NULL             \* the header forbids it while buckets are held
  /\ LET ok == /\ bytes # 0 /\ log2 # 0 /\ log2 <= MAX_BUCKET_LOG2
               /\ bytes <= UINT32_MAX \div 2^log2 /\ bytes <= UINT16_MAX IN
     \/ ~ok /\ Refuse(INVALID_PARAM)
     \/ /\ ok
        /\ v' = [ZeroedDescriptor EXCEPT !.element_size = bytes, !.log2 = log2,
                                         !.tail_used = 2^log2,
               !.step = IF step = 0 THEN DEFAULT_INDEX_GROW_STEP_SIZE ELSE step]
        /\ result' = SUCCESS
        /\ UNCHANGED <<memory, held, others, cells, out>>

-----------------------------------------------------------------------------
(* Growing.                                                                *)

\* Mutant: the slots not carried over when the index moves.
with_index_fresh(at, n) ==
  [v EXCEPT !.index = at, !.bucket_capacity = n, !.slots = [i \in 1..n |-> NULL]]

\* The index array with room for n buckets, the new slots NULL.
with_index(at, n) ==
  [v EXCEPT !.index = at, !.bucket_capacity = n,
            !.slots = [i \in 1..n |-> IF i <= v.bucket_capacity THEN v.slots[i] ELSE NULL]]

with_buckets(d, at) ==
  [d EXCEPT !.slots = [i \in DOMAIN @ |->
                         IF i - d.allocated_count \in DOMAIN at
                         THEN at[i - d.allocated_count] ELSE @[i]],
            !.allocated_count = @ + Len(at)]

\* Fresh memory holds whatever it held before.
fresh_cells(c, at, x) ==
  [a \in DOMAIN c \cup Range(at) |->
     IF a \in Range(at) THEN [i \in 0..(bucket_capacity - 1) |-> x] ELSE c[a]]

\* The buckets are taken one by one; a refusal keeps those that came before.
reserve_buckets(d, m, h, needed) ==
  \E k \in 0..(needed - d.allocated_count) :
  \E o \in taken(m, h, bucket_bytes, k), junk \in Values :
    /\ \/ k = needed - d.allocated_count /\ result' = SUCCESS
       \/ /\ k < needed - d.allocated_count /\ may_refuse(o.memory, bucket_bytes)
          /\ result' = OUT_OF_MEMORY
    /\ memory' = o.memory /\ held' = o.held
    /\ v' = with_buckets(d, o.at) /\ cells' = fresh_cells(cells, o.at, junk)
    /\ UNCHANGED <<others, out>>

arnm_bvec_reserve(n) ==
  LET mask   == bucket_capacity - 1
      needed == (n + mask) \div bucket_capacity IN
  \/ n = 0 /\ Refuse(INVALID_PARAM)
  \/ n # 0 /\ ~is_state_valid /\ Refuse(INVALID_STATE)
  \/ /\ n # 0 /\ is_state_valid
     /\ \/ /\ \/ n > (UINT32_MAX - mask) \div v.element_size
              \/ needed > ARNM_BVEC_MAX_INDEX_CAPACITY
           /\ Refuse(OVERFLOW)
        \/ /\ n <= (UINT32_MAX - mask) \div v.element_size
           /\ needed <= ARNM_BVEC_MAX_INDEX_CAPACITY
           /\ \/ needed <= bucket_count_allocated /\ Refuse(SUCCESS)
              \/ /\ needed > bucket_count_allocated /\ needed <= v.bucket_capacity
                 /\ reserve_buckets(v, memory, held, needed)
              \/ /\ needed > v.bucket_capacity
                 /\ \E o \in resized(memory, held, v.index, index_bytes(v.bucket_capacity),
                                     index_bytes(needed)) :
                      \/ o.result = OUT_OF_MEMORY /\ Refuse(OUT_OF_MEMORY)
                      \/ /\ o.result # OUT_OF_MEMORY
                         /\ reserve_buckets(with_index(o.at, needed), o.memory, o.held, needed)

\* The element a caller of push_ptr has copied in; emplace and grow leave the
\* claimed slot as it is.
stored(c, at, slot, x) == IF x = NULL THEN c ELSE [c EXCEPT ![at][slot] = x]

\* The tail moves on to a bucket the vector holds; its first slot is claimed.
open_bucket(d, next) ==
  [d EXCEPT !.tail = d.slots[next + 1], !.tail_index = next, !.tail_used = 1, !.size = @ + 1]

grow_bucket(d, m, h, next, x) ==
  \/ /\ may_refuse(m, bucket_bytes)
     /\ v' = d /\ memory' = m /\ held' = h
     /\ result' = OUT_OF_MEMORY
     /\ UNCHANGED <<others, cells, out>>
  \/ \E o \in taken(m, h, bucket_bytes, 1), junk \in Values :
       /\ memory' = o.memory /\ held' = o.held
       /\ v' = open_bucket(with_buckets(d, o.at), next)
       /\ cells' = stored(fresh_cells(cells, o.at, junk), v'.tail, 0, x)
       /\ result' = SUCCESS
       /\ UNCHANGED <<others, out>>

index_at_limit == v.bucket_capacity + v.step > ARNM_BVEC_MAX_INDEX_CAPACITY

arnm_bvec_grow(x) ==
  LET next == arnm_bvec_bucket_count
      wider == v.bucket_capacity + v.step IN
  \/ ~is_state_valid /\ Refuse(INVALID_STATE)
  \/ /\ is_state_valid /\ next < bucket_count_allocated
     /\ v' = open_bucket(v, next)
     /\ cells' = stored(cells, v'.tail, 0, x)
     /\ result' = SUCCESS
     /\ UNCHANGED <<memory, held, others, out>>
  \/ /\ is_state_valid /\ next >= bucket_count_allocated
     /\ bucket_count_allocated # v.bucket_capacity
     /\ grow_bucket(v, memory, held, next, x)
  \/ /\ is_state_valid /\ next >= bucket_count_allocated
     /\ bucket_count_allocated = v.bucket_capacity
     /\ \/ index_at_limit /\ Refuse(OVERFLOW)
        \/ /\ ~index_at_limit
           /\ \E o \in resized(memory, held, v.index, index_bytes(v.bucket_capacity),
                               index_bytes(wider)) :
                \/ o.result = OUT_OF_MEMORY /\ Refuse(OUT_OF_MEMORY)
                \/ /\ o.result # OUT_OF_MEMORY
                   /\ grow_bucket(with_index(o.at, wider), o.memory, o.held, next, x)

tail_has_room == v.tail # NULL /\ v.tail_used < bucket_capacity

\* The next slot, with x copied in or left unwritten.
append(x) ==
  \/ /\ tail_has_room
     /\ v' = [v EXCEPT !.tail_used = @ + 1, !.size = @ + 1]
     /\ cells' = stored(cells, v.tail, v.tail_used, x)
     /\ result' = SUCCESS
     /\ UNCHANGED <<memory, held, others, out>>
  \/ ~tail_has_room /\ arnm_bvec_grow(x)

arnm_bvec_emplace     == append(NULL)
arnm_bvec_push_ptr(x) == append(x)

-----------------------------------------------------------------------------
(* Elements.                                                               *)

bucket_of(i) == v.slots[(i \div bucket_capacity) + 1]

\* An element's address: the bucket and the place in it.
arnm_bvec_get(i) == <<bucket_of(i), i % bucket_capacity>>

\* The caller writes through the address of an element.
write_element(i, x) ==
  /\ i < v.size
  /\ cells' = [cells EXCEPT ![bucket_of(i)][i % bucket_capacity] = x]
  /\ UNCHANGED <<memory, held, others, v, out, result>>

\* A bucket that ran empty is left for the one before it, which is full.
popped ==
  IF v.tail_used > 1 THEN [v EXCEPT !.size = @ - 1, !.tail_used = @ - 1]
  ELSE [v EXCEPT !.size = @ - 1, !.tail_used = bucket_capacity,
                 !.tail_index = IF v.size > 1 THEN @ - 1 ELSE 0,
                 !.tail = IF v.size > 1 THEN v.slots[v.tail_index] ELSE NULL]

arnm_bvec_pop ==
  \/ v.size = 0 /\ Refuse(OUT_OF_BOUNDS)
  \/ /\ v.size # 0
     /\ v' = popped
     /\ result' = SUCCESS
     /\ UNCHANGED <<memory, held, others, cells, out>>

\* Mutant: the last bucket copied as if it were full.
bucket_size_full(k) == bucket_capacity

arnm_bvec_bucket_size(k) == IF k = v.tail_index THEN v.tail_used ELSE bucket_capacity

\* Bucket by bucket, each as long as bucket_size says.
flattened ==
  FlattenSeq([k \in 1..arnm_bvec_bucket_count |->
                [i \in 1..arnm_bvec_bucket_size(k - 1) |-> cells[v.slots[k]][i - 1]]])

arnm_bvec_copy_to(dst_capacity) ==
  \/ dst_capacity < v.size /\ Refuse(TOO_SMALL)
  \/ /\ dst_capacity >= v.size
     /\ out' = IF v.size = 0 THEN out ELSE flattened
     /\ result' = SUCCESS
     /\ UNCHANGED <<memory, held, others, v, cells>>

-----------------------------------------------------------------------------
(* Giving back.                                                            *)

arnm_bvec_clear ==
  /\ v' = [v EXCEPT !.tail = NULL, !.tail_index = 0, !.tail_used = bucket_capacity, !.size = 0]
  /\ UNCHANGED <<memory, held, others, cells, out, result>>

\* Newest first behind an arena, down to the first bucket it will not take.
shrink_stops_at(keep) ==
  LET n == arnm_align8_u32(bucket_bytes)
      freed == bucket_count_allocated - keep IN
  IF behind_arena
  THEN /\ \A i \in (keep + 1)..bucket_count_allocated :
            at_tail(bump(memory, -((bucket_count_allocated - i) * n)), v.slots[i], bucket_bytes)
       /\ keep > arnm_bvec_bucket_count =>
            ~at_tail(bump(memory, -(freed * n)), v.slots[keep], bucket_bytes)
  ELSE keep = arnm_bvec_bucket_count

\* The allocator and the vector once the buckets from keep on are back.
after_release(keep) ==
  LET gone == {v.slots[i] : i \in (keep + 1)..bucket_count_allocated} IN
  [memory |-> IF behind_arena
              THEN bump(memory, -((bucket_count_allocated - keep) * arnm_align8_u32(bucket_bytes)))
              ELSE memory,
   held   |-> held \ gone,
   v      |-> [v EXCEPT !.allocated_count = keep,
                        !.slots = [i \in DOMAIN @ |-> IF i > keep THEN NULL ELSE @[i]]],
   cells  |-> [a \in DOMAIN cells \ gone |-> cells[a]]]

arnm_bvec_shrink ==
  \/ /\ v.index = NULL \/ ~is_state_valid
     /\ Refuse(IF v.index = NULL THEN SUCCESS ELSE INVALID_STATE)
  \/ /\ v.index # NULL /\ is_state_valid
     /\ \E keep \in arnm_bvec_bucket_count..bucket_count_allocated :
          LET s == after_release(keep)
              f == given_back(s.memory, s.held, v.index, index_bytes(v.bucket_capacity)) IN
          /\ shrink_stops_at(keep)
          /\ cells' = s.cells
          /\ \/ /\ keep = 0 /\ memory' = f.memory /\ held' = f.held
                /\ v' = IF f.ok THEN [s.v EXCEPT !.index = NULL, !.bucket_capacity = 0,
                                                 !.slots = << >>] ELSE s.v
                /\ result' = SUCCESS
             \/ /\ keep # 0 /\ keep = v.bucket_capacity
                /\ memory' = s.memory /\ held' = s.held /\ v' = s.v
                /\ result' = SUCCESS
             \/ /\ keep # 0 /\ keep # v.bucket_capacity
                /\ \E o \in resized(s.memory, s.held, v.index, index_bytes(v.bucket_capacity),
                                    index_bytes(keep)) :
                     /\ memory' = o.memory /\ held' = o.held
                     /\ v' = IF o.result = SUCCESS
                             THEN [s.v EXCEPT !.index = o.at, !.bucket_capacity = keep,
                                              !.slots = SubSeq(@, 1, keep)]
                             ELSE s.v
                     /\ result' = IF o.result = OUT_OF_MEMORY THEN OUT_OF_MEMORY ELSE SUCCESS
     /\ UNCHANGED <<others, out>>

\* What is left once every block of the list was offered, in that order.
offered(blocks) ==
  FoldLeft(LAMBDA s, b : given_back(s.memory, s.held, b.at, b.bytes),
           [ok |-> TRUE, memory |-> memory, held |-> held], blocks)

held_buckets ==
  [i \in 1..bucket_count_allocated |-> [at |-> v.slots[i], bytes |-> bucket_bytes]]

\* Mutant: buckets given back in the order they were taken.
release_oldest_first == held_buckets

\* Newest first behind an arena, oldest first on the host.
release_order == IF behind_arena THEN Reverse(held_buckets) ELSE held_buckets

arnm_bvec_free ==
  \/ v.index = NULL /\ UNCHANGED vars
  \/ /\ v.index # NULL
     /\ LET o == offered(Append(release_order,
                                [at |-> v.index, bytes |-> index_bytes(v.bucket_capacity)])) IN
        memory' = o.memory /\ held' = o.held
     /\ v' = [ZeroedDescriptor EXCEPT !.element_size = v.element_size, !.log2 = v.log2,
                                      !.step = v.step, !.tail_used = bucket_capacity]
     /\ cells' = NoCells
     /\ UNCHANGED <<others, out, result>>

Next ==
  \/ \E log2 \in Log2s, step \in Steps, bytes \in ElementSizes : arnm_bvec_init(log2, step, bytes)
  \/ \E n \in Counts : arnm_bvec_reserve(n)
  \/ arnm_bvec_emplace
  \/ \E x \in Values : arnm_bvec_push_ptr(x)
  \/ \E i \in 0..(v.size - 1), x \in Values : write_element(i, x)
  \/ arnm_bvec_pop
  \/ \E n \in {v.size, v.size - 1} \ {-1} : arnm_bvec_copy_to(n)
  \/ arnm_bvec_clear \/ arnm_bvec_shrink \/ arnm_bvec_free
  \/ neighbour

Spec == Init /\ [][Next]_vars

-----------------------------------------------------------------------------
(* Properties.                                                             *)

Initialized == v.element_size # 0

TypeOK ==
  /\ memory.type \in {HOST, OWNED} /\ memory.last_index \in 0..memory.capacity
  /\ v.bucket_capacity \in 0..ARNM_BVEC_MAX_INDEX_CAPACITY
  /\ v.slots \in [1..v.bucket_capacity -> Nat \cup HostAddresses \cup {NULL}]
  /\ v.tail_used \in 0..UINT16_MAX
  /\ v.allocated_count \in 0..v.bucket_capacity
  /\ out \in Seq(Values)
  /\ result \in Results \cup {OUT_OF_BOUNDS, TOO_SMALL}

\* "INVALID_STATE ... reachable only by writing the descriptor's fields
\* directly": no sequence of calls, refused ones included, leaves counters that
\* do not describe the buckets.  Slots hold a bucket exactly below the count, the
\* tail that the append path trusts is where get finds the last element, and with
\* no element there is no tail and no room in it.
StateAlwaysValid ==
  /\ TypeOK
  /\ Initialized =>
       /\ is_state_valid
       /\ \A i \in 1..v.bucket_capacity : v.slots[i] # NULL <=> i <= v.allocated_count
       /\ IF v.size = 0 THEN v.tail = NULL /\ v.tail_used = bucket_capacity
          ELSE <<v.tail, v.tail_used - 1>> = arnm_bvec_get(v.size - 1)

\* The blocks the vector works in: buckets, and the index array itself.
Blocks ==
  {[at |-> v.slots[i], bytes |-> arnm_align8_u32(bucket_bytes)] : i \in 1..v.allocated_count}
    \cup (IF v.index = NULL THEN {} ELSE {[at |-> v.index, bytes |-> index_bytes(v.bucket_capacity)]})
    \cup {[at |-> a, bytes |-> 8] : a \in others}

\* Beside that, whatever was regrown, tightened, refused or buried by a neighbour:
\* behind an arena no two blocks share a byte and all lie below the bump index,
\* and on the host the vector holds exactly the blocks its descriptor names.
BlocksAreItsOwn ==
  /\ StateAlwaysValid
  /\ IF behind_arena
     THEN /\ \A b, c \in Blocks :
               b # c => b.at + b.bytes <= c.at \/ c.at + c.bytes <= b.at
          /\ \A b \in Blocks : b.at + b.bytes <= memory.last_index
     ELSE held = {b.at : b \in Blocks}

\* "Growing the vector never moves it": an element that exists before and after
\* a call stays where it is.
StableAddresses ==
  [][ \A i \in 0..(v.size - 1) :
        i < v'.size => <<v'.slots[(i \div 2^v'.log2) + 1], i % 2^v'.log2>> = arnm_bvec_get(i)
    ]_vars

\* A vector whose index array was taken first and whose newest bucket is the
\* arena's tail is unwound completely by free: the arena stands where it stood
\* before the vector took anything.
LaidOutInOrder ==
  /\ behind_arena /\ v.index # NULL
  /\ \A i \in 1..v.allocated_count :
       v.slots[i] = v.index + index_bytes(v.bucket_capacity)
                      + (i - 1) * arnm_align8_u32(bucket_bytes)
  /\ memory.last_index = v.index + index_bytes(v.bucket_capacity)
                           + v.allocated_count * arnm_align8_u32(bucket_bytes)

FreeUnwindsArena ==
  [][ LaidOutInOrder /\ v'.index = NULL => memory'.last_index = v.index ]_vars

\* The elements are a sequence, wherever the buckets lie.
contents == [i \in 1..v.size |-> cells[bucket_of(i - 1)][(i - 1) % bucket_capacity]]

Sequence == INSTANCE SequenceStore WITH elements <- contents

IsSequence == Sequence!Spec

\* bucket_vector.h:243 on arnm_bvec_grow: "The index array is at
\* ARNM_BVEC_MAX_INDEX_CAPACITY; this vector holds all it ever can."
OverflowOnlyAtLimit ==
  [][ \A x \in Values :
        arnm_bvec_grow(x) /\ result' = OVERFLOW
          => v.bucket_capacity = ARNM_BVEC_MAX_INDEX_CAPACITY ]_vars
=============================================================================
