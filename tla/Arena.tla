------------------------------- MODULE Arena --------------------------------
(***************************************************************************)
(* One arnm handle in its three single shapes -- host mode, an arena that  *)
(* owns its block, an arena over a borrowed block -- and one client that   *)
(* keeps the contract of memory.h: it names the size a block was handed    *)
(* out with, it only gives back what it holds, and it drops every block    *)
(* when the handle is reset, released or destroyed.                        *)
(*                                                                         *)
(* A refused free (buried block) releases nothing, so the client may keep  *)
(* the block and try again, or forget it; both are behaviours here.        *)
(***************************************************************************)
EXTENDS ArenaOps

CONSTANTS HostBlocks,   \* names malloc may return
          Blobs,        \* blocks the client may lend to an arena
          Sizes,        \* requested sizes, 0 and past the 32 bit edge included
          Capacities    \* capacities an arena is initialised with

ASSUME NamesAssumption ==
  /\ NULL \notin HostBlocks \cup Blobs
  /\ HostBlocks \cap Blobs = {}
  /\ Sizes \subseteq 0..UINT32_MAX
  /\ Capacities \subseteq 0..UINT32_MAX

NONE == "NONE"          \* no handle has been created

VARIABLES memory,       \* the handle
          host,         \* host blocks malloc has handed out and not got back
          live,         \* blocks the client holds
          stranded,     \* bytes below the index that no block accounts for
          result        \* what the last call answered

vars == <<memory, host, live, stranded, result>>

is_default_alloc == memory.type = HOST
is_arena         == memory.type \in {OWNED, EXTERNAL}

Init ==
  /\ memory = arnm_intern(NONE, NULL, 0)
  /\ host = {}
  /\ live = {}
  /\ stranded = 0
  /\ result = SUCCESS

\* A call that answers r and touches nothing.
Refuse(r) == result' = r /\ UNCHANGED <<memory, host, live, stranded>>

-----------------------------------------------------------------------------
(* The handle itself.                                                      *)

arnm_create ==
  /\ memory.type = NONE
  /\ memory' = arnm_intern(HOST, NULL, 0)
  /\ result' = SUCCESS
  /\ UNCHANGED <<host, live, stranded>>

\* Initialising over a block still owned leaks it; the header forbids that.
MayInit ==
  /\ memory.type # NONE
  /\ memory.type = OWNED => memory.data = NULL
  /\ live = {}

arnm_init_arena(capacity) ==
  LET aligned_capacity == arnm_align8_u32(capacity) IN
  /\ MayInit
  /\ \/ capacity = 0 /\ Refuse(INVALID_PARAM)
     \/ capacity # 0 /\ aligned_capacity = 0 /\ Refuse(OVERFLOW)
     \/ aligned_capacity # 0 /\ Refuse(OUT_OF_MEMORY)
     \/ /\ aligned_capacity # 0
        /\ \E data \in HostBlocks \ host :
             /\ memory' = arnm_intern(OWNED, data, aligned_capacity)
             /\ host' = host \cup {data}
        /\ stranded' = 0
        /\ result' = SUCCESS
        /\ UNCHANGED live

\* A capacity that is not a multiple of 8 is rejected, never rounded: the
\* bytes past the caller's buffer are not the arena's to hand out.
arnm_init_arena_borrow(data, capacity) ==
  /\ MayInit
  /\ \/ /\ capacity = 0 \/ arnm_align8_u32(capacity) \notin {0, capacity}
        /\ Refuse(INVALID_PARAM)
     \/ /\ capacity # 0 /\ arnm_align8_u32(capacity) = 0
        /\ Refuse(OVERFLOW)
     \/ /\ capacity # 0 /\ arnm_align8_u32(capacity) = capacity
        /\ memory' = arnm_intern(EXTERNAL, data, capacity)
        /\ stranded' = 0
        /\ result' = SUCCESS
        /\ UNCHANGED <<host, live>>

\* Host mode has nothing to reset: its blocks stay the client's.
arnm_reset ==
  /\ memory.type # NONE
  /\ memory' = IF is_arena THEN arnm_reset_arena(memory) ELSE memory
  /\ live' = IF is_arena THEN {} ELSE live
  /\ stranded' = 0
  /\ UNCHANGED <<host, result>>

\* Mutant: an owned block that is not given back.
ReleaseKeepsBlock == host

ReleaseHost == IF memory.type = OWNED THEN host \ {memory.data} ELSE host

arnm_release ==
  /\ memory.type # NONE
  /\ memory' = IF is_arena THEN arnm_release_arena(memory) ELSE memory
  /\ host' = ReleaseHost
  /\ live' = IF is_arena THEN {} ELSE live
  /\ stranded' = 0
  /\ UNCHANGED result

\* Release, then init; on failure the handle is left released.
arnm_reinit_arena(capacity) ==
  LET aligned_capacity == arnm_align8_u32(capacity)
      released == IF is_arena THEN arnm_release_arena(memory) ELSE memory IN
  /\ memory.type # NONE
  /\ is_default_alloc => live = {}
  /\ \/ /\ memory' = released /\ host' = ReleaseHost
        /\ result' = IF capacity = 0 THEN INVALID_PARAM
                     ELSE IF aligned_capacity = 0 THEN OVERFLOW ELSE OUT_OF_MEMORY
     \/ /\ aligned_capacity # 0
        /\ \E data \in HostBlocks \ ReleaseHost :
             /\ memory' = arnm_intern(OWNED, data, aligned_capacity)
             /\ host' = ReleaseHost \cup {data}
        /\ result' = SUCCESS
  /\ live' = {} /\ stranded' = 0

\* A client in host mode gives its blocks back before it drops the handle.
arnm_destroy ==
  /\ memory.type # NONE
  /\ is_default_alloc => live = {}
  /\ memory' = arnm_intern(NONE, NULL, 0)
  /\ host' = ReleaseHost
  /\ live' = {}
  /\ stranded' = 0
  /\ result' \in {SUCCESS, NOT_RECLAIMED}   \* the descriptor's own bytes

-----------------------------------------------------------------------------
(* Blocks.                                                                 *)

\* The outcomes of asking an arena for aligned_size bytes.
arena_alloc_aligned(aligned_size) ==
  IF memory.data = NULL
  THEN [result |-> INVALID_STATE, memory |-> memory]
  ELSE IF remaining_bytes(memory) < aligned_size
  THEN [result |-> OUT_OF_MEMORY,
        memory |-> account_capacity_exceeded(aligned_size, memory)]
  ELSE [result |-> SUCCESS, memory |-> bump(memory, aligned_size)]

\* The host is handed the size untouched, and may refuse.
malloc(size) ==
  \/ Refuse(OUT_OF_MEMORY)
  \/ /\ \E data \in HostBlocks \ host :
          /\ host' = host \cup {data}
          /\ live' = live \cup {Block(data, 0, size)}
     /\ result' = SUCCESS
     /\ UNCHANGED <<memory, stranded>>

\* arnm_alloc, and arnm_clone, which is this call and a copy into the block.
arnm_alloc(size) ==
  /\ memory.type # NONE
  /\ \/ size = 0 /\ Refuse(INVALID_PARAM)
     \/ size # 0 /\ is_default_alloc /\ malloc(size)
     \/ size # 0 /\ is_arena /\ arnm_align8_u32(size) = 0 /\ Refuse(OVERFLOW)
     \/ /\ size # 0 /\ is_arena /\ arnm_align8_u32(size) # 0
        /\ LET o == arena_alloc_aligned(arnm_align8_u32(size)) IN
             /\ memory' = o.memory
             /\ result' = o.result
             /\ live' = IF o.result = SUCCESS
                        THEN live \cup {Block(memory.data, memory.last_index, size)}
                        ELSE live
        /\ UNCHANGED <<host, stranded>>

arnm_free(b) ==
  /\ b \in live
  /\ \/ /\ is_default_alloc
        /\ host' = host \ {b.data}
        /\ live' = live \ {b}
        /\ result' = SUCCESS
        /\ UNCHANGED <<memory, stranded>>
     \/ /\ is_arena /\ is_single_arena_reclaimable(b, Reserved(b), memory)
        /\ memory' = bump(memory, -Reserved(b))
        /\ live' = live \ {b}
        /\ result' = SUCCESS
        /\ UNCHANGED <<host, stranded>>
     \/ /\ is_arena /\ ~is_single_arena_reclaimable(b, Reserved(b), memory)
        /\ result' = NOT_RECLAIMED
        /\ \/ UNCHANGED <<live, stranded>>            \* kept, to try again
           \/ /\ live' = live \ {b}                   \* forgotten
              /\ stranded' = stranded + Reserved(b)
        /\ UNCHANGED <<memory, host>>

\* realloc(): in place or moved, the bytes carried over by the host.
realloc_host(b, new_size) ==
  \/ Refuse(OUT_OF_MEMORY)
  \/ /\ \E data \in (HostBlocks \ host) \cup {b.data} :
          /\ host' = (host \ {b.data}) \cup {data}
          /\ live' = (live \ {b}) \cup {Block(data, 0, new_size)}
     /\ result' = SUCCESS
     /\ UNCHANGED <<memory, stranded>>

\* Mutant: a resize that trusts the caller on which block is the tail.
tail_unchecked(b, new_size) ==
  LET old == Reserved(b)
      new == arnm_align8_u32(new_size) IN
  /\ b.data = memory.data
  /\ remaining_bytes(memory) >= new - old
  /\ memory' = bump(memory, new - old)
  /\ live' = (live \ {b}) \cup {[b EXCEPT !.size = new_size]}
  /\ result' = SUCCESS
  /\ UNCHANGED <<host, stranded>>

\* The tail of an arena is resized where it is.
realloc_tail(b, new_size) ==
  LET old == Reserved(b)
      new == arnm_align8_u32(new_size) IN
  /\ is_single_arena_reclaimable(b, old, memory)
  /\ IF new < old \/ remaining_bytes(memory) >= new - old
     THEN /\ memory' = bump(memory, new - old)
          /\ live' = (live \ {b}) \cup {[b EXCEPT !.size = new_size]}
          /\ result' = SUCCESS
     ELSE /\ memory' = account_capacity_exceeded(new - old, memory)
          /\ result' = OUT_OF_MEMORY
          /\ UNCHANGED live
  /\ UNCHANGED <<host, stranded>>

\* A buried block grows by moving, its old bytes left behind; it shrinks by
\* nothing at all, and the client may name either size from then on.
realloc_buried(b, new_size) ==
  LET old == Reserved(b)
      new == arnm_align8_u32(new_size) IN
  /\ ~is_single_arena_reclaimable(b, old, memory)
  /\ IF new > old
     THEN LET o == arena_alloc_aligned(new) IN
          /\ memory' = o.memory
          /\ IF o.result = SUCCESS
             THEN /\ live' = (live \ {b})
                        \cup {Block(memory.data, memory.last_index, new_size)}
                  /\ stranded' = stranded + old
                  /\ result' = NOT_RECLAIMED
             ELSE result' = o.result /\ UNCHANGED <<live, stranded>>
     ELSE /\ result' = NOT_RECLAIMED
          /\ \/ UNCHANGED <<live, stranded>>
             \/ /\ live' = (live \ {b}) \cup {[b EXCEPT !.size = new_size]}
                /\ stranded' = stranded + (old - new)
          /\ UNCHANGED memory
  /\ UNCHANGED host

\* A size past the width is refused before anything else, the host included;
\* a resize to 0 is arnm_free from there on.
arnm_realloc(b, new_size) ==
  LET overflows == Reserved(b) = 0 \/ (new_size # 0 /\ arnm_align8_u32(new_size) = 0) IN
  /\ b \in live
  /\ \/ overflows /\ Refuse(OVERFLOW)
     \/ ~overflows /\ new_size = 0 /\ arnm_free(b)
     \/ ~overflows /\ b.size = new_size /\ Refuse(SUCCESS)
     \/ /\ ~overflows /\ new_size \notin {0, b.size}
        /\ \/ is_default_alloc /\ realloc_host(b, new_size)
           \/ is_arena /\ realloc_tail(b, new_size)
           \/ is_arena /\ realloc_buried(b, new_size)

\* A NULL buffer allocates from scratch; in arena mode the answer is the
\* warning all the same.
arnm_realloc_null(new_size) ==
  LET aligned == arnm_align8_u32(new_size)
      o       == arena_alloc_aligned(aligned) IN
  /\ memory.type # NONE /\ new_size # 0
  /\ \/ aligned = 0 /\ Refuse(OVERFLOW)
     \/ aligned # 0 /\ is_default_alloc /\ malloc(new_size)
     \/ /\ aligned # 0 /\ is_arena
        /\ memory' = o.memory
        /\ IF o.result = SUCCESS
           THEN /\ live' = live \cup {Block(memory.data, memory.last_index, new_size)}
                /\ result' = NOT_RECLAIMED
           ELSE result' = o.result /\ UNCHANGED live
        /\ UNCHANGED <<host, stranded>>

Next ==
  \/ arnm_create \/ arnm_reset \/ arnm_release \/ arnm_destroy
  \/ \E c \in Capacities : arnm_init_arena(c) \/ arnm_reinit_arena(c)
  \/ \E d \in Blobs, c \in Capacities : arnm_init_arena_borrow(d, c)
  \/ \E s \in Sizes : arnm_alloc(s)
  \/ \E s \in Sizes : arnm_realloc_null(s)
  \/ \E b \in live : arnm_free(b)
  \/ \E b \in live, s \in Sizes : arnm_realloc(b, s)

Spec == Init /\ [][Next]_vars

-----------------------------------------------------------------------------
(* Properties.                                                             *)

\* The handle, the client's blocks and the last answer stay in their types;
\* index, capacity and offsets are multiples of 8 and the index is in bounds.
TypeOK ==
  /\ memory.type \in {NONE, HOST, OWNED, EXTERNAL}
  /\ memory.data \in HostBlocks \cup Blobs \cup {NULL}
  /\ memory.capacity \in {n \in 0..UINT32_MAX : n % 8 = 0}
  /\ memory.last_index \in {n \in 0..memory.capacity : n % 8 = 0}
  /\ memory.out_of_memory_capacity \in 0..UINT32_MAX
  /\ host \subseteq HostBlocks
  /\ \A b \in live : /\ b.data \in HostBlocks \cup Blobs
                      /\ b.off \in {n \in 0..UINT32_MAX : n % 8 = 0}
                      /\ b.size \in Sizes \ {0}
  /\ stranded \in Nat
  /\ result \in Results

\* Beside the types: no two blocks the client holds share a byte, and in arena
\* mode each lies below the index, which stays inside the arena.  Whatever mix
\* of alloc, free, retried free and resize led here, the next bump cannot land
\* on memory somebody still uses.
BlocksDisjoint ==
  /\ TypeOK
  /\ \A b, c \in live : b # c => ~Overlap(b, c)
  /\ is_arena => \A b \in live : /\ b.data = memory.data
                                  /\ b.off + Reserved(b) <= memory.last_index

\* Every host block malloc handed out is owned by the handle or held by the
\* client: no path of init, resize, release or destroy loses one.
NoHostLeak ==
  host = (IF memory.type = OWNED THEN {memory.data} \ {NULL} ELSE {})
           \cup (IF is_default_alloc THEN {b.data : b \in live} ELSE {})
=============================================================================
