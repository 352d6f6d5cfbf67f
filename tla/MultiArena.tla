----------------------------- MODULE MultiArena -----------------------------
(***************************************************************************)
(* A chain of arenas (include/arnm/multi_arena.h, src/memory.c 188-633):   *)
(* the scan that starts at first_open, the threshold that writes an arena  *)
(* off, fresh ground when nothing had room, blocks handed back to whichever*)
(* arena they came from, and the marker that has to follow all of it.      *)
(*                                                                         *)
(* arenas is indexed as in the code, 0..count-1, oldest first.  The vector *)
(* that stores the descriptors is module BucketVector; here a push either  *)
(* succeeds or is refused.  The client keeps the contract of memory.h and  *)
(* multi_arena.h (see module Arena), and lends a block to one chain slot   *)
(* at a time.                                                              *)
(***************************************************************************)
EXTENDS ArenaOps

CONSTANTS HostBlocks,       \* names malloc may return
          Blobs,            \* blocks the client may lend
          Sizes,            \* requested sizes
          Capacities,       \* capacities of lent blocks
          OptionSets,       \* options a chain may be asked to have
          DEFAULT_CAPACITY, DEFAULT_FULL_REMAINING

Options == [arena_capacity : 0..UINT32_MAX, arena_max_count : 0..UINT32_MAX,
            full_remaining : 0..UINT32_MAX]

ASSUME ChainAssumption ==
  /\ NULL \notin HostBlocks \cup Blobs
  /\ HostBlocks \cap Blobs = {}
  /\ Sizes \subseteq 0..UINT32_MAX
  /\ Capacities \subseteq 0..UINT32_MAX
  /\ OptionSets \subseteq Options
  /\ DEFAULT_CAPACITY \in 1..UINT32_MAX
  /\ DEFAULT_FULL_REMAINING \in 0..UINT32_MAX
  /\ NULL \notin Options

VARIABLES options,      \* what the chain was built on, or NULL while there is none
          arenas, count, first_open,
          host,         \* host blocks malloc has handed out and not got back
          live,         \* blocks the client holds
          result        \* what the last call answered

chain == <<options, arenas, count, first_open, host>>
vars  == <<options, arenas, count, first_open, host, live, result>>

Indices == 0..(count - 1)

NoArenas == [i \in {} |-> NULL]

Init ==
  /\ options = NULL
  /\ arenas = NoArenas /\ count = 0 /\ first_open = 0
  /\ host = {}
  /\ live = {}
  /\ result = SUCCESS

is_multi_arena == options # NULL

Refuse(r) == result' = r /\ UNCHANGED <<options, arenas, count, first_open, host, live>>

used_up(a) == arnm_arena_is_used_up(remaining_bytes(a), options.full_remaining)

-----------------------------------------------------------------------------
(* Building a chain.                                                       *)

or_default(value, default) == IF value = 0 THEN default ELSE value

\* The defaults filled in, the capacity rounded up.
effective(o) ==
  [arena_capacity  |-> arnm_align8_u32(or_default(o.arena_capacity, DEFAULT_CAPACITY)),
   arena_max_count |-> o.arena_max_count,
   full_remaining  |-> or_default(o.full_remaining, DEFAULT_FULL_REMAINING)]

\* Mutant: a default capacity accepted with any threshold.
validate_raw(o) ==
  IF effective(o).arena_capacity = 0 THEN OVERFLOW
  ELSE IF o.arena_capacity # 0
          /\ arnm_arena_is_used_up(effective(o).arena_capacity, o.full_remaining)
       THEN INVALID_STATE
  ELSE SUCCESS

\* Answers about the values a chain would really be built on.
arnm_multi_arena_options_validate(o) ==
  IF effective(o).arena_capacity = 0 THEN OVERFLOW
  ELSE IF arnm_arena_is_used_up(effective(o).arena_capacity,
                                effective(o).full_remaining)
       THEN INVALID_STATE
  ELSE SUCCESS

\* The handle may be refused by the bookkeeping allocator as well.
arnm_create_multi_arena(o) ==
  /\ ~is_multi_arena
  /\ \/ Refuse(OUT_OF_MEMORY)
     \/ /\ arnm_multi_arena_options_validate(o) # SUCCESS
        /\ Refuse(arnm_multi_arena_options_validate(o))
     \/ /\ arnm_multi_arena_options_validate(o) = SUCCESS
        /\ options' = effective(o)
        /\ arenas' = NoArenas /\ count' = 0 /\ first_open' = 0
        /\ result' = SUCCESS
        /\ UNCHANGED <<host, live>>

at_max_count == options.arena_max_count # 0 /\ count >= options.arena_max_count

\* Descriptor slots only: no arena is opened.
arnm_multi_arena_reserve(n) ==
  /\ is_multi_arena
  /\ \/ /\ options.arena_max_count # 0 /\ n > options.arena_max_count
        /\ Refuse(EXHAUSTED)
     \/ /\ options.arena_max_count = 0 \/ n <= options.arena_max_count
        /\ \E r \in {SUCCESS, OUT_OF_MEMORY} : Refuse(r)

appended(a) == [i \in 0..count |-> IF i < count THEN arenas[i] ELSE a]

arnm_multi_arena_borrow(data, capacity) ==
  LET aligned_capacity == arnm_align8_u32(capacity) IN
  /\ is_multi_arena
  /\ \A i \in Indices : arenas[i].data # data
  /\ \/ at_max_count /\ Refuse(EXHAUSTED)
     \/ /\ ~at_max_count
        /\ capacity = 0 \/ aligned_capacity \notin {0, capacity}
        /\ Refuse(INVALID_PARAM)
     \/ ~at_max_count /\ capacity # 0 /\ aligned_capacity = 0 /\ Refuse(OVERFLOW)
     \/ /\ ~at_max_count /\ capacity # 0 /\ aligned_capacity = capacity
        /\ \/ Refuse(OUT_OF_MEMORY)          \* the push was refused
           \/ /\ arenas' = appended(arnm_intern(EXTERNAL, data, capacity))
              /\ count' = count + 1
              /\ result' = SUCCESS
              /\ UNCHANGED <<options, first_open, host, live>>

-----------------------------------------------------------------------------
(* The scan.                                                               *)

open_with_room(n) ==
  {i \in first_open..(count - 1) :
     ~used_up(arenas[i]) /\ remaining_bytes(arenas[i]) >= n}

\* Mutant: the marker set to the first arena that fits.
scan_stops_at_fit(n, j) ==
  /\ \A k \in first_open..(j - 1) :
       used_up(arenas[k]) \/ remaining_bytes(arenas[k]) < n
  /\ j < count => ~used_up(arenas[j]) /\ remaining_bytes(arenas[j]) >= n

\* The scan for n bytes leaves first_open at j: past the leading arenas that are
\* used up, never past one that is merely too small this time.
scan_stops_at(n, j) ==
  /\ \A k \in first_open..(j - 1) : used_up(arenas[k])
  /\ j < count => ~used_up(arenas[j])

\* The earliest arena of the scan that has room serves the request.
served(n) ==
  {[result |-> SUCCESS, arenas |-> [arenas EXCEPT ![i] = bump(@, n)],
    count |-> count, host |-> host, at |-> i] :
      i \in {j \in open_with_room(n) : \A k \in open_with_room(n) : j <= k}}

alloc_refused(r) ==
  [result |-> r, arenas |-> arenas, count |-> count, host |-> host, at |-> 0]

fresh_arena(data, n) ==
  arnm_intern(OWNED, data,
              IF options.arena_capacity < n THEN n ELSE options.arena_capacity)

\* Mutant: the fresh block forgotten when the push is refused.
push_refused_leaking(data, n) ==
  [alloc_refused(OUT_OF_MEMORY) EXCEPT !.host = @ \cup {data}]

\* The block was taken, the descriptor did not fit the vector: multi_arena_push
\* releases the arena, so the host has its block back.
push_refused(data, n) ==
  LET a == fresh_arena(data, n) IN
  [alloc_refused(OUT_OF_MEMORY) EXCEPT !.host = (@ \cup {data}) \ {a.data}]

opened(data, n) ==
  [result |-> SUCCESS, arenas |-> appended(bump(fresh_arena(data, n), n)),
   count |-> count + 1, host |-> host \cup {data}, at |-> count]

\* Everything a request for n aligned bytes can come to.
multi_arena_alloc(n) ==
  IF open_with_room(n) # {} THEN served(n)
  ELSE IF at_max_count THEN {alloc_refused(EXHAUSTED)}
  ELSE {alloc_refused(OUT_OF_MEMORY)}
         \cup {push_refused(d, n) : d \in HostBlocks \ host}
         \cup {opened(d, n) : d \in HostBlocks \ host}

\* The block an outcome carries: the last n bytes of the arena that served.
block_of(o, n, size) ==
  Block(o.arenas[o.at].data, o.arenas[o.at].last_index - n, size)

-----------------------------------------------------------------------------
(* Whose block is this?                                                    *)

walk_position(i) ==
  LET start == IF first_open < count THEN first_open ELSE 0 IN
  IF i >= start THEN i - start ELSE i + count - start

owners(b) ==
  {i \in Indices : b.data = arenas[i].data /\ b.off < arenas[i].capacity}

\* Only meaningful while owners(b) is not empty; the callers answer
\* INVALID_PARAM otherwise.
multi_arena_find_owner(b) ==
  CHOOSE i \in owners(b) :
    \A k \in owners(b) : walk_position(i) <= walk_position(k)

\* Mutant: a marker that only walks forward.
reopen_never(a, i, marker) == marker

\* Bytes came back to arena i: pull the marker back onto it if it is open.
multi_arena_reopen(a, i, marker) ==
  IF i < marker /\ ~used_up(a) THEN i ELSE marker

\* Arena i gives its last n bytes back; A and marker are the chain by then.
hand_back(A, i, n, marker) ==
  LET a == bump(A[i], -n) IN
  /\ arenas' = [A EXCEPT ![i] = a]
  /\ first_open' = multi_arena_reopen(a, i, marker)

-----------------------------------------------------------------------------
(* The client's calls.                                                     *)

\* arnm_alloc, arnm_clone, and arnm_realloc of a NULL buffer, which differs in
\* answering the warning.
AllocBlock(size, on_success) ==
  LET n == arnm_align8_u32(size) IN
  /\ is_multi_arena /\ size # 0
  /\ \/ n = 0 /\ Refuse(OVERFLOW)
     \/ /\ n # 0
        /\ \E o \in multi_arena_alloc(n) :
             /\ arenas' = o.arenas /\ count' = o.count /\ host' = o.host
             /\ IF o.result = SUCCESS
                THEN live' = live \cup {block_of(o, n, size)} /\ result' = on_success
                ELSE live' = live /\ result' = o.result
        /\ \E j \in first_open..count : scan_stops_at(n, j) /\ first_open' = j
        /\ UNCHANGED options

arnm_alloc(size) ==
  \/ is_multi_arena /\ size = 0 /\ Refuse(INVALID_PARAM)
  \/ AllocBlock(size, SUCCESS)

arnm_realloc_null(size) == AllocBlock(size, NOT_RECLAIMED)

\* arnm_free, and arnm_realloc to 0.  A buried block is kept by the client, to
\* be tried again, or forgotten.
arnm_free(b) ==
  LET i == multi_arena_find_owner(b)
      n == Reserved(b) IN
  /\ \/ n = 0 /\ Refuse(OVERFLOW)
     \/ n # 0 /\ owners(b) = {} /\ Refuse(INVALID_PARAM)
     \/ /\ n # 0 /\ owners(b) # {} /\ is_single_arena_reclaimable(b, n, arenas[i])
        /\ hand_back(arenas, i, n, first_open)
        /\ live' = live \ {b}
        /\ result' = SUCCESS
        /\ UNCHANGED <<options, count, host>>
     \/ /\ n # 0 /\ owners(b) # {} /\ ~is_single_arena_reclaimable(b, n, arenas[i])
        /\ live' \in {live, live \ {b}}
        /\ result' = NOT_RECLAIMED
        /\ UNCHANGED chain

Resized(b, size) == (live \ {b}) \cup {[b EXCEPT !.size = size]}

\* Mutant: a resize that takes any block for the tail.
resized_unchecked(b, size, i, old, new) ==
  /\ new >= old /\ remaining_bytes(arenas[i]) >= new - old
  /\ arenas' = [arenas EXCEPT ![i] = bump(@, new - old)]
  /\ live' = Resized(b, size)
  /\ result' = SUCCESS
  /\ UNCHANGED <<options, count, first_open, host>>

\* The tail of its arena, resized where it is.
realloc_in_place(b, size, i, old, new) ==
  /\ is_single_arena_reclaimable(b, old, arenas[i])
  /\ \/ new < old /\ hand_back(arenas, i, old - new, first_open)
     \/ /\ new >= old /\ remaining_bytes(arenas[i]) >= new - old
        /\ arenas' = [arenas EXCEPT ![i] = bump(@, new - old)]
        /\ UNCHANGED first_open
  /\ live' = Resized(b, size)
  /\ result' = SUCCESS
  /\ UNCHANGED <<options, count, host>>

\* A tail that cannot stretch: a block from another arena, the old one handed
\* back exactly.  The allocation moves the marker even when it is refused.
realloc_moved(b, size, i, old, new) ==
  /\ is_single_arena_reclaimable(b, old, arenas[i])
  /\ new >= old /\ remaining_bytes(arenas[i]) < new - old
  /\ \E o \in multi_arena_alloc(new), j \in first_open..count :
       /\ scan_stops_at(new, j)
       /\ count' = o.count /\ host' = o.host /\ result' = o.result
       /\ IF o.result = SUCCESS
          THEN /\ hand_back(o.arenas, i, old, j)
               /\ live' = (live \ {b}) \cup {block_of(o, new, size)}
          ELSE /\ arenas' = o.arenas /\ first_open' = j
               /\ live' = live
  /\ UNCHANGED options

\* A buried block grows by moving and abandons its old bytes; it shrinks by
\* nothing at all, and the client may name either size afterwards.
realloc_buried(b, size, i, old, new) ==
  /\ ~is_single_arena_reclaimable(b, old, arenas[i])
  /\ \/ /\ new > old
        /\ \E o \in multi_arena_alloc(new) :
             /\ arenas' = o.arenas /\ count' = o.count /\ host' = o.host
             /\ IF o.result = SUCCESS
                THEN /\ live' = (live \ {b}) \cup {block_of(o, new, size)}
                     /\ result' = NOT_RECLAIMED
                ELSE live' = live /\ result' = o.result
        /\ \E j \in first_open..count : scan_stops_at(new, j) /\ first_open' = j
        /\ UNCHANGED options
     \/ /\ new <= old
        /\ live' \in {live, Resized(b, size)}
        /\ result' = NOT_RECLAIMED
        /\ UNCHANGED chain

arnm_realloc(b, size) ==
  LET i   == multi_arena_find_owner(b)
      old == Reserved(b)
      new == arnm_align8_u32(size) IN
  /\ size # 0
  /\ \/ (new = 0 \/ old = 0) /\ Refuse(OVERFLOW)
     \/ /\ new # 0 /\ old # 0
        /\ \/ b.size = size /\ Refuse(SUCCESS)
           \/ b.size # size /\ owners(b) = {} /\ Refuse(INVALID_PARAM)
           \/ /\ b.size # size /\ owners(b) # {}
              /\ \/ realloc_in_place(b, size, i, old, new)
                 \/ realloc_moved(b, size, i, old, new)
                 \/ realloc_buried(b, size, i, old, new)

\* Addresses from outside the chain, which the client may name by mistake.
Foreign ==
  {Block(d, 0, s) : d \in Blobs \ {arenas[i].data : i \in Indices}, s \in Sizes \ {0}}

arnm_reset ==
  /\ is_multi_arena
  /\ arenas' = [i \in Indices |-> arnm_reset_arena(arenas[i])]
  /\ first_open' = 0
  /\ live' = {}
  /\ UNCHANGED <<options, count, host, result>>

\* The blocks the chain frees when arenas keep..count-1 are released.
owned_from(keep) ==
  {arenas[i].data : i \in {j \in keep..(count - 1) : arenas[j].type = OWNED}}

arnm_release ==
  /\ is_multi_arena
  /\ host' = host \ owned_from(0)
  /\ arenas' = NoArenas /\ count' = 0 /\ first_open' = 0
  /\ live' = {}
  /\ UNCHANGED <<options, result>>

arnm_destroy ==
  /\ is_multi_arena
  /\ options' = NULL
  /\ host' = host \ owned_from(0)
  /\ arenas' = NoArenas /\ count' = 0 /\ first_open' = 0
  /\ live' = {}
  /\ result' \in {SUCCESS, NOT_RECLAIMED}   \* the descriptor's own bytes

\* "if (first_open > count) first_open = count".  It never is: an arena behind
\* the marker is used up, and shrink drops owned arenas that hold nothing.
shrunk_marker(keep) == IF first_open > keep THEN keep ELSE first_open

\* Youngest first, down to an arena that holds something or is borrowed.  The
\* vector's own tightening may be refused by the host, after the fact.
arnm_multi_arena_shrink ==
  /\ is_multi_arena
  /\ \E keep \in 0..count :
       /\ keep > 0 => \/ arenas[keep - 1].last_index # 0
                      \/ arenas[keep - 1].type = EXTERNAL
       /\ \A i \in keep..(count - 1) :
            arenas[i].last_index = 0 /\ arenas[i].type # EXTERNAL
       /\ count' = keep
       /\ arenas' = [i \in 0..(keep - 1) |-> arenas[i]]
       /\ host' = host \ owned_from(keep)
       /\ first_open' = shrunk_marker(keep)
  /\ result' \in {SUCCESS, OUT_OF_MEMORY}
  /\ UNCHANGED <<options, live>>

Next ==
  \/ \E o \in OptionSets : arnm_create_multi_arena(o)
  \/ \E n \in 1..(UINT32_MAX \div 8) : arnm_multi_arena_reserve(n)
  \/ \E d \in Blobs, c \in Capacities : arnm_multi_arena_borrow(d, c)
  \/ \E s \in Sizes : arnm_alloc(s)
  \/ \E s \in Sizes : arnm_realloc_null(s)
  \/ is_multi_arena /\ \E b \in live \cup Foreign : arnm_free(b)
  \/ is_multi_arena /\ \E b \in live \cup Foreign, s \in Sizes : arnm_realloc(b, s)
  \/ arnm_multi_arena_shrink
  \/ arnm_reset \/ arnm_release \/ arnm_destroy

Spec == Init /\ [][Next]_vars

-----------------------------------------------------------------------------
(* Properties.                                                             *)

Multiples == {n \in 0..UINT32_MAX : n % 8 = 0}

Arenas ==
  [type : {OWNED, EXTERNAL}, data : HostBlocks \cup Blobs, last_index : Multiples,
   capacity : Multiples, out_of_memory_capacity : 0..UINT32_MAX]

Blocks == [data : HostBlocks \cup Blobs, off : Multiples, size : Sizes \ {0}]

\* Types, with every index inside its arena and the marker inside the chain.
TypeOK ==
  /\ options \in Options \cup {NULL}
  /\ count \in Nat
  /\ arenas \in [Indices -> Arenas]
  /\ \A i \in Indices : arenas[i].last_index <= arenas[i].capacity
  /\ first_open \in 0..count
  /\ host \subseteq HostBlocks
  /\ live \subseteq Blocks
  /\ result \in Results

\* Two blocks the client holds never share a byte, whichever arenas, resizes,
\* moves and hand-backs they went through.
BlocksDisjoint == \A b, c \in live : b # c => ~Overlap(b, c)

\* Every block the client holds lies inside one arena of the chain and below
\* its index, so arnm_free and arnm_realloc always find the owner and the next
\* bump of that arena cannot land on it.
BlocksOwned ==
  \A b \in live : \E i \in Indices :
    arenas[i].data = b.data /\ b.off + Reserved(b) <= arenas[i].last_index

\* first_open is "the earliest arena that may still have room": whatever was
\* freed, resized or moved in between, an arena behind the marker is used up.
\* An arena that rejoins is never left out of the scan for good.
NoOpenArenaBehindMarker == \A i \in 0..(first_open - 1) : used_up(arenas[i])

\* The chain holds exactly the host blocks of its owned arenas: no refused
\* push, shrink, release or destroy loses one, none is freed while in use.
NoHostLeak == host = owned_from(0)

\* What the options promise.  "A bounded budget with a known peak": the ceiling
\* on arenas holds for lent and opened arenas together.  And the threshold never
\* writes off an arena the chain opened before it served anything.
OptionsRespected ==
  /\ is_multi_arena /\ options.arena_max_count # 0 => count <= options.arena_max_count
  /\ \A i \in Indices : arenas[i].type = OWNED =>
       ~arnm_arena_is_used_up(arenas[i].capacity, options.full_remaining)

\* The chain opens new ground only when no arena anywhere in it, behind the
\* marker or ahead of it, was open and had room for the request.
OpensOnlyWhenFull ==
  [][ count' = count + 1 /\ arenas'[count].type = OWNED
      => \A i \in Indices :
           used_up(arenas[i]) \/ remaining_bytes(arenas[i]) < arenas'[count].last_index
    ]_vars
=============================================================================
