-------------------------- MODULE DynamicArenaPool --------------------------
(***************************************************************************)
(* arnm_dynamic_arena_pool (src/dynamic_arena_pool.c, arena_free_list.h):  *)
(* arenas of one size, lent and taken back.  An arena is one host block    *)
(* with its descriptor in front; while it waits in stock, the first bytes  *)
(* of its buffer hold the link to the next one.  While it is out, those    *)
(* bytes are the client's.                                                 *)
(*                                                                         *)
(* pools is a family of descriptors over one host, so that the grades of   *)
(* GradedArenaPool are pools of this module.  The client returns an arena  *)
(* to the pool it came from, exactly once, as the header asks; a return to *)
(* a pool that has nothing out is the mistake the code catches.            *)
(***************************************************************************)
EXTENDS ArenaOps, FiniteSets, Sequences

CONSTANTS Arenas,           \* host blocks, each an arena once it is made
          PoolIds,
          Capacities,       \* arena capacities init is asked for
          SpareLimits,
          ARNM_BYTES,       \* sizeof(arnm)
          ACQUIRED_MAX,     \* largest value of acquired_count
          JUNK              \* what a client leaves in a buffer

ASSUME PoolAssumption ==
  /\ IsFiniteSet(Arenas) /\ NULL \notin Arenas
  /\ JUNK \notin Arenas \cup {NULL}
  /\ Capacities \subseteq 0..UINT32_MAX
  /\ SpareLimits \subseteq Nat
  /\ ARNM_BYTES \in 0..ARNM_MAX_ALLOC_SIZE /\ ARNM_BYTES % 8 = 0
  /\ ACQUIRED_MAX \in Nat \ {0}

NOT_INITIALIZED == "ERROR_NOT_INITIALIZED"
IN_USE          == "ERROR_RESOURCE_IN_USE"

VARIABLES pools,    \* PoolIds -> descriptor
          arena,    \* Arenas -> capacity and bump index, both 0 while not made
          link,     \* Arenas -> first bytes of the buffer
          host,     \* arenas the host has handed out and not got back
          lent,     \* PoolIds -> arenas its clients hold
          result

poolVars == <<pools, arena, link, host, lent>>
vars == <<pools, arena, link, host, lent, result>>

EmptyPool ==
  [free_head |-> NULL, arena_capacity |-> 0, acquired_count |-> 0, spare_count |-> 0,
   spare_limit |-> 0]

NotMade == [capacity |-> 0, last_index |-> 0]

Init ==
  /\ pools = [p \in PoolIds |-> EmptyPool]
  /\ arena = [a \in Arenas |-> NotMade]
  /\ link = [a \in Arenas |-> NULL]
  /\ host = {}
  /\ lent = [p \in PoolIds |-> {}]
  /\ result = SUCCESS

Refuse(r) == result' = r /\ UNCHANGED poolVars

is_initialized(p) == pools[p].arena_capacity # 0

-----------------------------------------------------------------------------
(* The free list.                                                          *)

\* What the walk from the head meets, step by step.
walked(head) ==
  LET at[n \in 0..Cardinality(Arenas)] ==
        IF n = 0 THEN head ELSE IF at[n - 1] \in Arenas THEN link[at[n - 1]] ELSE at[n - 1]
  IN at

on_list(head) == {walked(head)[n] : n \in 0..Cardinality(Arenas)} \cap Arenas

\* The host has the arenas of S back; their bytes say nothing any more.
destroyed(f, S, blank) == [a \in Arenas |-> IF a \in S THEN blank ELSE f[a]]

-----------------------------------------------------------------------------
(* The pool itself.                                                        *)

init_fits(c) == arnm_align8_u32(c) # 0 /\ arnm_align8_u32(c) <= ARNM_MAX_ALLOC_SIZE - ARNM_BYTES

arnm_dynamic_arena_pool_init(p, c, spare_limit) ==
  /\ on_list(pools[p].free_head) = {} /\ lent[p] = {}   \* the header forbids it otherwise
  /\ \/ c = 0 /\ Refuse(INVALID_PARAM)
     \/ c # 0 /\ ~init_fits(c) /\ Refuse(OVERFLOW)
     \/ /\ c # 0 /\ init_fits(c)
        /\ pools' = [pools EXCEPT ![p] = [EmptyPool EXCEPT !.arena_capacity = arnm_align8_u32(c),
                                                           !.spare_limit = spare_limit]]
        /\ result' = SUCCESS
        /\ UNCHANGED <<arena, link, host, lent>>

made(p) == [capacity |-> pools[p].arena_capacity, last_index |-> 0]

Orders(n) ==
  {s \in [1..n -> Arenas \ host] : \A i, j \in 1..n : i # j => s[i] # s[j]}

\* Mutant: the shelf dropped behind the new arenas.
spliced_backwards(p, s) ==
  [a \in Arenas |->
     IF \E i \in DOMAIN s : s[i] = a
     THEN LET i == CHOOSE j \in DOMAIN s : s[j] = a IN IF i = 1 THEN NULL ELSE s[i - 1]
     ELSE link[a]]

\* Each new arena in front of the one made before it, the first one in front of
\* what the shelf held.
spliced(p, s) ==
  [a \in Arenas |->
     IF \E i \in DOMAIN s : s[i] = a
     THEN LET i == CHOOSE j \in DOMAIN s : s[j] = a IN
          IF i = 1 THEN pools[p].free_head ELSE s[i - 1]
     ELSE link[a]]

\* All or nothing: what was made on the way to a refusal goes back.
arnm_dynamic_arena_pool_reserve(p, n) ==
  LET missing == n - pools[p].spare_count IN
  \/ ~is_initialized(p) /\ Refuse(NOT_INITIALIZED)
  \/ is_initialized(p) /\ n > pools[p].spare_limit /\ Refuse(INVALID_PARAM)
  \/ is_initialized(p) /\ n <= pools[p].spare_limit /\ missing <= 0 /\ Refuse(SUCCESS)
  \/ /\ is_initialized(p) /\ n <= pools[p].spare_limit /\ missing > 0
     /\ \/ Refuse(OUT_OF_MEMORY)
        \/ \E s \in Orders(missing) :
             LET fresh == {s[i] : i \in 1..missing} IN
             /\ link' = spliced(p, s)
             /\ arena' = destroyed(arena, fresh, made(p))
             /\ pools' = [pools EXCEPT ![p].free_head = s[missing], ![p].spare_count = n]
             /\ host' = host \cup fresh
             /\ result' = SUCCESS
             /\ UNCHANGED lent

nothing_out(p) == pools[p].acquired_count = 0

released(p) ==
  LET S == on_list(pools[p].free_head) IN
  /\ pools' = [pools EXCEPT ![p] = EmptyPool]
  /\ arena' = destroyed(arena, S, NotMade) /\ link' = destroyed(link, S, NULL)
  /\ host' = host \ S
  /\ UNCHANGED lent

arnm_dynamic_arena_pool_release(p) ==
  \/ ~nothing_out(p) /\ Refuse(IN_USE)
  \/ nothing_out(p) /\ released(p) /\ result' = SUCCESS

\* The same, and the descriptor's own bytes, which its allocator may keep.
arnm_dynamic_arena_pool_destroy(p) ==
  \/ ~nothing_out(p) /\ Refuse(IN_USE)
  \/ nothing_out(p) /\ released(p) /\ result' \in {SUCCESS, NOT_RECLAIMED}

-----------------------------------------------------------------------------
(* Lend and take back.                                                     *)

counter_full(p) == pools[p].acquired_count = ACQUIRED_MAX

arnm_dynamic_arena_pool_alloc(p) ==
  LET head == pools[p].free_head IN
  \/ ~is_initialized(p) /\ Refuse(NOT_INITIALIZED)
  \/ is_initialized(p) /\ counter_full(p) /\ Refuse(EXHAUSTED)
  \/ /\ is_initialized(p) /\ ~counter_full(p)
     /\ \/ /\ head # NULL
           /\ pools' = [pools EXCEPT ![p].free_head = link[head], ![p].spare_count = @ - 1,
                                     ![p].acquired_count = @ + 1]
           /\ lent' = [lent EXCEPT ![p] = @ \cup {head}]
           /\ result' = SUCCESS
           /\ UNCHANGED <<arena, link, host>>
        \/ head = NULL /\ Refuse(OUT_OF_MEMORY)
        \/ /\ head = NULL
           /\ \E a \in Arenas \ host :
                /\ host' = host \cup {a} /\ lent' = [lent EXCEPT ![p] = @ \cup {a}]
                /\ arena' = [arena EXCEPT ![a] = made(p)]
                /\ link' = [link EXCEPT ![a] = JUNK]
           /\ pools' = [pools EXCEPT ![p].acquired_count = @ + 1]
           /\ result' = SUCCESS

shelf_has_room(p) == pools[p].spare_count < pools[p].spare_limit

\* Mutant: an arena shelved as it came back.
kept_without_reset(a) == arena

\* An arena waits in stock in the state a fresh one would arrive in.
reset_on_return(a) == [arena EXCEPT ![a].last_index = 0]

returned(p, a) ==
  /\ lent' = [lent EXCEPT ![p] = @ \ {a}]
  /\ result' = SUCCESS
  /\ \/ /\ shelf_has_room(p)
        /\ arena' = reset_on_return(a)
        /\ link' = [link EXCEPT ![a] = pools[p].free_head]
        /\ pools' = [pools EXCEPT ![p].free_head = a, ![p].spare_count = @ + 1,
                                  ![p].acquired_count = @ - 1]
        /\ UNCHANGED host
     \/ /\ ~shelf_has_room(p)
        /\ arena' = destroyed(arena, {a}, NotMade) /\ link' = destroyed(link, {a}, NULL)
        /\ pools' = [pools EXCEPT ![p].acquired_count = @ - 1]
        /\ host' = host \ {a}

arnm_dynamic_arena_pool_free(p, a) ==
  \/ ~is_initialized(p) /\ Refuse(NOT_INITIALIZED)
  \/ is_initialized(p) /\ pools[p].acquired_count = 0 /\ Refuse(INVALID_STATE)
  \/ /\ is_initialized(p) /\ pools[p].acquired_count # 0
     /\ a \in lent[p]                       \* the client's duty
     /\ returned(p, a)

\* The client allocates from an arena it holds and writes into its buffer.
use_arena(a) ==
  /\ \E p \in PoolIds : a \in lent[p]
  /\ arena' = [arena EXCEPT ![a].last_index = @ + 8]
  /\ arena[a].last_index + 8 <= arena[a].capacity
  /\ link' = [link EXCEPT ![a] = JUNK]
  /\ UNCHANGED <<pools, host, lent, result>>

PoolNext(p) ==
  \/ \E n \in SpareLimits : arnm_dynamic_arena_pool_reserve(p, n)
  \/ arnm_dynamic_arena_pool_alloc(p)
  \/ \E a \in Arenas : arnm_dynamic_arena_pool_free(p, a)
  \/ arnm_dynamic_arena_pool_release(p)

\* What a client may call while its pools stand alone.
PoolsNext ==
  \/ \E p \in PoolIds :
       \/ \E c \in Capacities, n \in SpareLimits : arnm_dynamic_arena_pool_init(p, c, n)
       \/ PoolNext(p)
       \/ arnm_dynamic_arena_pool_destroy(p)
  \/ \E a \in Arenas : use_arena(a)

-----------------------------------------------------------------------------
(* Properties.                                                             *)

Descriptors ==
  [free_head : Arenas \cup {NULL}, arena_capacity : 0..UINT32_MAX,
   acquired_count : 0..ACQUIRED_MAX, spare_count : Nat, spare_limit : Nat]

\* Types; in particular no counter leaves its range.
TypeOK ==
  /\ pools \in [PoolIds -> Descriptors]
  /\ arena \in [Arenas -> [capacity : 0..UINT32_MAX, last_index : 0..UINT32_MAX]]
  /\ link \in [Arenas -> Arenas \cup {NULL, JUNK}]
  /\ host \subseteq Arenas
  /\ lent \in [PoolIds -> SUBSET Arenas]

\* "Its length cannot drift from the stock": the links from free_head end in
\* NULL after exactly spare_count arenas, each of the pool's size and empty, in
\* no client's hands.  A link a client overwrote is never followed.
StockIsFreeList ==
  \A p \in PoolIds :
    LET at == walked(pools[p].free_head) IN
    /\ Cardinality(on_list(pools[p].free_head)) = pools[p].spare_count
    /\ at[pools[p].spare_count] = NULL
    /\ \A a \in on_list(pools[p].free_head) :
         /\ arena[a] = made(p)
         /\ \A q \in PoolIds : a \notin lent[q]

\* acquired_count, which release refuses on, is the number of arenas out; none
\* is out twice, and the stock never rises above its limit.  Every arena the
\* host made is in stock or out: none is lost by a refused reserve, a full
\* shelf or a release, and none is freed while out.
ArenasAccounted ==
  /\ TypeOK
  /\ StockIsFreeList
  /\ \A p \in PoolIds :
       /\ pools[p].acquired_count = Cardinality(lent[p])
       /\ pools[p].spare_count <= pools[p].spare_limit
       /\ \A q \in PoolIds : p # q => lent[p] \cap lent[q] = {}
  /\ host = UNION {on_list(pools[p].free_head) \cup lent[p] : p \in PoolIds}

\* An arena arrives empty, of the pool's size, and out of nobody else's hands.
ArrivesFresh ==
  [][ \A p \in PoolIds : \A a \in lent'[p] \ lent[p] :
        arena'[a] = made(p) /\ \A q \in PoolIds : a \notin lent[q] ]_vars
=============================================================================
