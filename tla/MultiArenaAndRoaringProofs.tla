---------------------- MODULE MultiArenaAndRoaringProofs ----------------------
(***************************************************************************)
(* Two components in one module of theorems.                               *)
(*                                                                         *)
(* The chain, for every number of arenas, every size, every threshold and  *)
(* every width.  Its invariant is split into what is true of any chain     *)
(* (ChainOK), of the blocks a client holds from a chain (LiveOK) and of    *)
(* the marker (MarkerOK), each over an explicit chain A, c: an operation   *)
(* that takes two steps -- realloc's "allocate elsewhere, then hand back"  *)
(* -- is then proved by composing the lemmas of the steps.                 *)
(*                                                                         *)
(* The compressed sets, for every size of a key, a word, an array and a    *)
(* block, any sets and any pool.  Each call is a function from a step to a *)
(* step, so what it keeps is said of any step (Working: the set is in good *)
(* order, the pool has lent base and what the set names) and carried from  *)
(* the innermost call outwards: emit, the merge of one key, the fold over  *)
(* the keys, finish.  The invariant (RoaringInv) is that of every set at   *)
(* once, base being what the others name.                                  *)
(***************************************************************************)
EXTENDS MultiArena, RoaringOps, DataLemmas, SequenceTheorems

-----------------------------------------------------------------------------
(* The chain.                                                              *)

ChainOK(A, c, h) ==
  /\ c \in Nat
  /\ A \in [0..(c - 1) -> Arenas]
  /\ \A i \in 0..(c - 1) : A[i].last_index <= A[i].capacity
  /\ \A i \in 0..(c - 1) : A[i].type = OWNED <=> A[i].data \in HostBlocks
  /\ \A i, j \in 0..(c - 1) : i # j => A[i].data # A[j].data
  /\ h = {A[i].data : i \in {j \in 0..(c - 1) : A[j].type = OWNED}}

LiveOK(A, c, L) ==
  /\ L \subseteq Blocks
  /\ \A b \in L : Reserved(b) # 0
  /\ \A b \in L : \E i \in 0..(c - 1) :
       A[i].data = b.data /\ b.off + Reserved(b) <= A[i].last_index
  /\ \A b, d \in L : b # d => ~Overlap(b, d)

OptionsOK(o) ==
  o # NULL =>
    /\ o \in Options
    /\ o.arena_capacity \in Multiples \ {0}
    /\ ~arnm_arena_is_used_up(o.arena_capacity, o.full_remaining)

ShapeOK(A, c) ==
  /\ options = NULL => c = 0
  /\ options # NULL /\ options.arena_max_count # 0 => c <= options.arena_max_count
  /\ \A i \in 0..(c - 1) : A[i].type = OWNED =>
       ~arnm_arena_is_used_up(A[i].capacity, options.full_remaining)

MarkerOK(A, c, f) ==
  /\ f \in 0..c
  /\ \A i \in 0..(f - 1) : used_up(A[i])

IInv ==
  /\ ChainOK(arenas, count, host)
  /\ LiveOK(arenas, count, live)
  /\ OptionsOK(options)
  /\ MarkerOK(arenas, count, first_open)
  /\ ShapeOK(arenas, count)
  /\ result \in Results

-----------------------------------------------------------------------------
(* Rounding.                                                               *)

\* arnm_align8_u32 returns a multiple of 8 inside the width, and the size fits.
LEMMA AlignLemma ==
  ASSUME NEW s \in 0..UINT32_MAX
  PROVE  /\ arnm_align8_u32(s) \in Multiples
         /\ s <= ARNM_MAX_ALLOC_SIZE => arnm_align8_u32(s) >= s
  BY WidthAssumption DEF arnm_align8_u32, Multiples, ARNM_MAX_ALLOC_SIZE

\* What a block takes of its arena is a multiple of 8.
LEMMA ReservedLemma ==
  ASSUME NEW b \in Blocks
  PROVE  Reserved(b) \in Multiples
  BY AlignLemma, ChainAssumption DEF Blocks, Reserved

\* Sums and differences of multiples of 8 stay multiples of 8.
LEMMA MultiplesClosed ==
  ASSUME NEW m \in Multiples, NEW n \in Multiples
  PROVE  /\ m + n <= UINT32_MAX => m + n \in Multiples
         /\ m >= n => m - n \in Multiples
  BY WidthAssumption DEF Multiples

-----------------------------------------------------------------------------
(* The steps that operations are made of.                                  *)

\* Bumping an arena that has the room keeps a chain a chain.
LEMMA BumpChain ==
  ASSUME NEW A, NEW c, NEW h, ChainOK(A, c, h),
         NEW i \in 0..(c - 1), NEW n \in Multiples,
         A[i].last_index + n <= A[i].capacity
  PROVE  ChainOK([A EXCEPT ![i] = bump(@, n)], c, h)
  <1> DEFINE a == [A[i] EXCEPT !.last_index = @ + n]
             B == [A EXCEPT ![i] = a]
  <1>1. A[i] \in Arenas
    BY DEF ChainOK
  <1>2. a \in Arenas
    <2>1. A[i].last_index + n \in Multiples
      BY <1>1, MultiplesClosed, WidthAssumption DEF Arenas, Multiples
    <2> QED BY <1>1, <2>1 DEF Arenas
  <1>3. B \in [0..(c - 1) -> Arenas]
    BY <1>2 DEF ChainOK
  <1>4. \A j \in 0..(c - 1) : /\ B[j].data = A[j].data /\ B[j].type = A[j].type
                               /\ B[j].last_index <= B[j].capacity
    BY <1>1 DEF ChainOK, Arenas
  <1>5. ChainOK(B, c, h)
    <2>1. {j \in 0..(c - 1) : A[j].type = OWNED} = {j \in 0..(c - 1) : B[j].type = OWNED}
      BY <1>4
    <2>2. {B[k].data : k \in {j \in 0..(c - 1) : B[j].type = OWNED}}
            = {A[k].data : k \in {j \in 0..(c - 1) : A[j].type = OWNED}}
      BY <1>4, <2>1
    <2> QED BY <1>3, <1>4, <2>2 DEF ChainOK
  <1> QED BY <1>5 DEF bump

\* The bytes a bump claims belong to nobody yet.
LEMMA BumpLive ==
  ASSUME NEW A, NEW c, NEW h, NEW L, ChainOK(A, c, h), LiveOK(A, c, L),
         NEW i \in 0..(c - 1), NEW n \in Multiples \ {0},
         A[i].last_index + n <= A[i].capacity,
         NEW size \in Sizes \ {0}, arnm_align8_u32(size) = n
  PROVE  LiveOK([A EXCEPT ![i] = bump(@, n)], c,
                L \cup {Block(A[i].data, A[i].last_index, size)})
  <1> DEFINE x == Block(A[i].data, A[i].last_index, size)
             a == [A[i] EXCEPT !.last_index = @ + n]
             B == [A EXCEPT ![i] = a]
  <1>1. A[i] \in Arenas /\ A \in [0..(c - 1) -> Arenas]
    BY DEF ChainOK
  <1>2. x \in Blocks /\ x.data = A[i].data /\ x.off = A[i].last_index /\ Reserved(x) = n
    BY <1>1 DEF Blocks, Block, Arenas, Reserved
  <1>3. \A j \in 0..(c - 1) : B[j].data = A[j].data /\ B[j].last_index >= A[j].last_index
    BY <1>1, SMTT(30) DEF Arenas, Multiples
  <1>4. \A b \in L : b \in Blocks /\ b.off \in Nat /\ Reserved(b) \in Nat
    BY ReservedLemma DEF LiveOK, Blocks, Multiples
  <1>5. \A b \in L \cup {x} : \E j \in 0..(c - 1) :
          B[j].data = b.data /\ b.off + Reserved(b) <= B[j].last_index
    <2>1. ASSUME NEW b \in L
          PROVE \E j \in 0..(c - 1) :
                  B[j].data = b.data /\ b.off + Reserved(b) <= B[j].last_index
      <3>1. PICK j \in 0..(c - 1) :
               A[j].data = b.data /\ b.off + Reserved(b) <= A[j].last_index
        BY DEF LiveOK
      <3>2. B[j].last_index \in Nat /\ A[j].last_index \in Nat
        BY <1>1 DEF Arenas, Multiples
      <3> QED BY <1>3, <1>4, <3>1, <3>2
    <2>2. B[i].data = x.data /\ x.off + Reserved(x) <= B[i].last_index
      BY <1>1, <1>2 DEF Arenas, Multiples
    <2> QED BY <2>1, <2>2
  <1>6. ASSUME NEW b \in L
        PROVE  ~Overlap(b, x) /\ ~Overlap(x, b)
    <2>1. b.data = x.data => b.off + Reserved(b) <= x.off
      BY <1>2 DEF LiveOK, ChainOK
    <2>2. x.off \in Nat
      BY <1>1, <1>2 DEF Arenas, Multiples
    <2> QED BY <1>2, <1>4, <2>1, <2>2 DEF Overlap, Multiples
  <1>7. LiveOK(B, c, L \cup {x})
    BY <1>2, <1>5, <1>6 DEF LiveOK
  <1> QED BY <1>7 DEF bump

\* Handing the tail back keeps a chain a chain, and every other block of the
\* client below the index.
LEMMA HandBack ==
  ASSUME NEW A, NEW c, NEW h, NEW L, ChainOK(A, c, h), LiveOK(A, c, L),
         NEW i \in 0..(c - 1), NEW b \in L,
         is_single_arena_reclaimable(b, Reserved(b), A[i])
  PROVE  /\ ChainOK([A EXCEPT ![i] = bump(A[i], -Reserved(b))], c, h)
         /\ LiveOK([A EXCEPT ![i] = bump(A[i], -Reserved(b))], c, L \ {b})
  <1> DEFINE n == Reserved(b)
             a == [A[i] EXCEPT !.last_index = @ + (-n)]
             B == [A EXCEPT ![i] = a]
  <1>1. A[i] \in Arenas /\ A \in [0..(c - 1) -> Arenas]
    BY DEF ChainOK
  <1>2. /\ b \in Blocks /\ b.data = A[i].data
        /\ A[i].last_index = b.off + n
        /\ b.off \in Multiples /\ n \in Multiples \ {0}
        /\ a.last_index = b.off
    <2>1. b \in Blocks /\ n \in Multiples \ {0}
      BY ReservedLemma DEF LiveOK
    <2>2. b.data = A[i].data /\ A[i].last_index - n = b.off
      BY DEF is_single_arena_reclaimable
    <2> QED BY <1>1, <2>1, <2>2 DEF Blocks, Multiples, Arenas
  <1>3. a \in Arenas
    BY <1>1, <1>2 DEF Arenas
  <1>4. B \in [0..(c - 1) -> Arenas]
    BY <1>1, <1>3
  <1>5. \A j \in 0..(c - 1) : B[j].data = A[j].data /\ B[j].type = A[j].type
                               /\ B[j].last_index <= B[j].capacity
    <2>1. a.last_index <= a.capacity
      BY <1>1, <1>2 DEF ChainOK, Arenas, Multiples
    <2> QED BY <1>1, <2>1 DEF ChainOK, Arenas
  <1>6. ChainOK(B, c, h)
    <2>1. {j \in 0..(c - 1) : A[j].type = OWNED} = {j \in 0..(c - 1) : B[j].type = OWNED}
      BY <1>5
    <2>2. {B[k].data : k \in {j \in 0..(c - 1) : B[j].type = OWNED}}
            = {A[k].data : k \in {j \in 0..(c - 1) : A[j].type = OWNED}}
      BY <1>5, <2>1
    <2> QED BY <1>4, <1>5, <2>2 DEF ChainOK
  <1>7. ASSUME NEW d \in L \ {b}
        PROVE  \E j \in 0..(c - 1) :
                 B[j].data = d.data /\ d.off + Reserved(d) <= B[j].last_index
    <2>1. PICK j \in 0..(c - 1) :
            A[j].data = d.data /\ d.off + Reserved(d) <= A[j].last_index
      BY DEF LiveOK
    <2>2. CASE j # i
      BY <2>1, <2>2, <1>1, <1>5
    <2>3. CASE j = i
      <3>1. d.off \in Nat /\ Reserved(d) \in Nat \ {0} /\ b.off \in Nat /\ n \in Nat
        BY ReservedLemma, <1>2 DEF LiveOK, Blocks, Multiples
      <3>2. ~Overlap(d, b)
        BY DEF LiveOK
      <3>3. d.data = b.data /\ d.off + Reserved(d) <= b.off + n
        BY <2>1, <2>3, <1>2
      <3>4. d.off + Reserved(d) <= b.off
        BY <3>1, <3>2, <3>3 DEF Overlap
      <3> QED BY <2>1, <2>3, <3>4, <1>1, <1>2
    <2> QED BY <2>2, <2>3
  <1>8. LiveOK(B, c, L \ {b})
    BY <1>7 DEF LiveOK
  <1> QED BY <1>6, <1>8 DEF bump

\* A client that forgets blocks keeps the rest.
LEMMA Forget ==
  ASSUME NEW A, NEW c, NEW L, LiveOK(A, c, L), NEW M, M \subseteq L
  PROVE  LiveOK(A, c, M)
  BY DEF LiveOK

\* A client that names a smaller size for a buried block keeps it inside the
\* bytes it had.
LEMMA Trim ==
  ASSUME NEW A, NEW c, NEW h, NEW L, ChainOK(A, c, h), LiveOK(A, c, L), NEW b \in L,
         NEW size \in Sizes \ {0}, arnm_align8_u32(size) # 0,
         arnm_align8_u32(size) <= Reserved(b)
  PROVE  LiveOK(A, c, (L \ {b}) \cup {[b EXCEPT !.size = size]})
  <1> DEFINE x == [b EXCEPT !.size = size]
  <1>1. b \in Blocks
    BY DEF LiveOK
  <1>2. /\ x \in Blocks /\ x.data = b.data /\ x.off = b.off
        /\ Reserved(x) = arnm_align8_u32(size)
    BY <1>1 DEF Blocks, Reserved
  <1>3. \A d \in L \cup {x} : d.off \in Nat /\ Reserved(d) \in Nat
    BY <1>2, ReservedLemma DEF LiveOK, Blocks, Multiples
  <1>4. \E j \in 0..(c - 1) : A[j].data = x.data /\ x.off + Reserved(x) <= A[j].last_index
    <2>1. PICK j \in 0..(c - 1) :
            A[j].data = b.data /\ b.off + Reserved(b) <= A[j].last_index
      BY DEF LiveOK
    <2>2. A[j].last_index \in Nat
      BY DEF ChainOK, Arenas, Multiples
    <2> QED BY <1>2, <1>3, <2>1, <2>2
  <1>5. ASSUME NEW d \in L \ {b}
        PROVE  ~Overlap(d, x) /\ ~Overlap(x, d)
    <2>1. ~Overlap(d, b) /\ ~Overlap(b, d)
      BY DEF LiveOK
    <2> QED BY <1>2, <1>3, <2>1 DEF Overlap
  <1> QED BY <1>2, <1>4, <1>5 DEF LiveOK

\* A fresh descriptor on ground no arena of the chain sits on.
LEMMA AppendChain ==
  ASSUME NEW A, NEW c, NEW h, NEW L, ChainOK(A, c, h), LiveOK(A, c, L),
         NEW a \in Arenas, a.last_index <= a.capacity,
         a.type = OWNED <=> a.data \in HostBlocks,
         \A i \in 0..(c - 1) : A[i].data # a.data
  PROVE  LET B == [i \in 0..c |-> IF i < c THEN A[i] ELSE a] IN
         /\ ChainOK(B, c + 1, IF a.type = OWNED THEN h \cup {a.data} ELSE h)
         /\ LiveOK(B, c + 1, L)
  <1> DEFINE B == [i \in 0..c |-> IF i < c THEN A[i] ELSE a]
             g == IF a.type = OWNED THEN h \cup {a.data} ELSE h
  <1>1. c \in Nat /\ A \in [0..(c - 1) -> Arenas]
    BY DEF ChainOK
  <1>2. /\ 0..((c + 1) - 1) = 0..c
        /\ \A i \in 0..c : i \in 0..(c - 1) \/ i = c
        /\ \A i \in 0..(c - 1) : i \in 0..c /\ i < c
        /\ c \in 0..c /\ ~(c < c)
    BY <1>1
  <1>3. (\A i \in 0..(c - 1) : B[i] = A[i]) /\ B[c] = a
    BY <1>2
  <1>4. B \in [0..c -> Arenas]
    BY <1>1, <1>2
  <1>5. g = {B[i].data : i \in {j \in 0..c : B[j].type = OWNED}}
    <2>1. h = {A[i].data : i \in {j \in 0..(c - 1) : A[j].type = OWNED}}
      BY DEF ChainOK
    <2>2. ASSUME NEW x \in g PROVE \E j \in 0..c : B[j].type = OWNED /\ x = B[j].data
      BY <2>1, <1>2, <1>3
    <2>3. ASSUME NEW j \in 0..c, B[j].type = OWNED PROVE B[j].data \in g
      BY <2>1, <2>3, <1>2, <1>3
    <2> HIDE DEF B, g
    <2> QED BY <2>2, <2>3
  <1>6. ChainOK(B, c + 1, g)
    <2>1. \A i \in 0..c : B[i].last_index <= B[i].capacity
      BY <1>2, <1>3 DEF ChainOK
    <2>2. \A i \in 0..c : B[i].type = OWNED <=> B[i].data \in HostBlocks
      BY <1>2, <1>3 DEF ChainOK
    <2>3. \A i, j \in 0..c : i # j => B[i].data # B[j].data
      BY <1>2, <1>3 DEF ChainOK
    <2>4. c + 1 \in Nat
      BY <1>1
    <2> QED BY <1>2, <1>4, <1>5, <2>1, <2>2, <2>3, <2>4 DEF ChainOK
  <1>7. LiveOK(B, c + 1, L)
    BY <1>2, <1>3 DEF LiveOK
  <1> QED BY <1>6, <1>7

-----------------------------------------------------------------------------
(* Every outcome of a request.                                             *)

\* A fresh arena holds the request, is not used up, and makes a longer chain.
LEMMA FreshChain ==
  ASSUME IInv, is_multi_arena, NEW n \in Multiples \ {0},
         NEW d \in HostBlocks \ host
  PROVE  LET a == fresh_arena(d, n) IN
         /\ a \in Arenas /\ a.type = OWNED /\ a.data = d
         /\ a.last_index = 0 /\ n <= a.capacity
         /\ ~arnm_arena_is_used_up(a.capacity, options.full_remaining)
         /\ ChainOK(appended(a), count + 1, host \cup {d})
         /\ LiveOK(appended(a), count + 1, live)
  <1> DEFINE a == fresh_arena(d, n)
  <1>1. /\ options \in Options /\ options.arena_capacity \in Multiples
        /\ options.arena_capacity > options.full_remaining
    BY DEF IInv, OptionsOK, is_multi_arena, Options, arnm_arena_is_used_up, Multiples
  <1>2. /\ a \in Arenas /\ a.type = OWNED /\ a.data = d
        /\ a.last_index = 0 /\ n <= a.capacity /\ a.last_index <= a.capacity
        /\ a.capacity > options.full_remaining
    BY <1>1, WidthAssumption DEF fresh_arena, arnm_intern, Arenas, Multiples, Options
  <1>3. \A i \in Indices : arenas[i].data # d
    <2> SUFFICES ASSUME NEW i \in Indices, arenas[i].data = d PROVE FALSE
      OBVIOUS
    <2>1. arenas[i].type = OWNED
      BY DEF IInv, ChainOK, Indices
    <2> QED BY <2>1 DEF IInv, ChainOK, Indices
  <1>4. ~arnm_arena_is_used_up(a.capacity, options.full_remaining)
    BY <1>1, <1>2 DEF arnm_arena_is_used_up, Arenas, Multiples, Options
  <1>5. /\ ChainOK(appended(a), count + 1, host \cup {d})
        /\ LiveOK(appended(a), count + 1, live)
    <2> HIDE DEF a
    <2> QED BY <1>2, <1>3, AppendChain DEF IInv, appended, Indices
  <1> QED BY <1>2, <1>4, <1>5

\* What the arena at index o.at looks like before the block is carved from it,
\* and what is true of the chain afterwards.
AllocOK(o, n, size) ==
  /\ o.result \in Results
  /\ o.count \in {count, count + 1}
  /\ ChainOK(o.arenas, o.count, o.host)
  /\ ShapeOK(o.arenas, o.count)
  /\ \A i \in Indices :
       \/ o.arenas[i] = arenas[i]
       \/ /\ o.result = SUCCESS /\ o.at = i
          /\ ~used_up(arenas[i]) /\ remaining_bytes(arenas[i]) >= n
  /\ o.result = SUCCESS =>
       /\ o.at \in 0..(o.count - 1)
       /\ o.at \in Indices => remaining_bytes(arenas[o.at]) >= n
       /\ LiveOK(o.arenas, o.count, live \cup {block_of(o, n, size)})
  /\ o.result # SUCCESS => LiveOK(o.arenas, o.count, live)

\* Served from an open arena: the outcome is a chain with the block in it.
LEMMA ServedLemma ==
  ASSUME IInv, is_multi_arena, NEW n \in Multiples \ {0},
         NEW size \in Sizes \ {0}, arnm_align8_u32(size) = n,
         NEW o \in served(n)
  PROVE  AllocOK(o, n, size)
  <1>1. PICK i \in open_with_room(n) :
          o = [result |-> SUCCESS, arenas |-> [arenas EXCEPT ![i] = bump(@, n)],
               count |-> count, host |-> host, at |-> i]
    BY DEF served
  <1>2. /\ i \in Indices /\ ~used_up(arenas[i]) /\ remaining_bytes(arenas[i]) >= n
        /\ arenas \in [Indices -> Arenas] /\ count \in Nat /\ arenas[i] \in Arenas
    BY DEF open_with_room, IInv, MarkerOK, ChainOK, Indices
  <1>3. arenas[i].last_index + n <= arenas[i].capacity
    BY <1>2 DEF remaining_bytes, Arenas, Multiples
  <1>4. ChainOK(o.arenas, o.count, o.host)
    BY <1>1, <1>2, <1>3, BumpChain DEF IInv, Indices
  <1> DEFINE a == bump(arenas[i], n)
  <1>5. /\ a.last_index - n = arenas[i].last_index /\ a.data = arenas[i].data
        /\ a.type = arenas[i].type /\ a.capacity = arenas[i].capacity
    BY <1>2 DEF bump, Arenas, Multiples
  <1>6. o.arenas[i] = a /\ \A j \in Indices \ {i} : o.arenas[j] = arenas[j]
    BY <1>1, <1>2
  <1> HIDE DEF a
  <1>7. block_of(o, n, size) = Block(arenas[i].data, arenas[i].last_index, size)
    BY <1>1, <1>5, <1>6 DEF block_of
  <1>8. LiveOK(o.arenas, o.count, live \cup {block_of(o, n, size)})
    <2>1. ChainOK(arenas, count, host) /\ LiveOK(arenas, count, live) /\ i \in 0..(count - 1)
      BY <1>2 DEF IInv, Indices
    <2>2. LiveOK([arenas EXCEPT ![i] = bump(@, n)], count,
                 live \cup {Block(arenas[i].data, arenas[i].last_index, size)})
      BY <1>3, <2>1, BumpLive
    <2> QED BY <1>1, <1>7, <2>2
  <1>9. ShapeOK(o.arenas, o.count)
    BY <1>1, <1>5, <1>6 DEF IInv, ShapeOK, Indices
  <1> QED BY <1>1, <1>2, <1>4, <1>6, <1>8, <1>9 DEF AllocOK, Results, Indices

\* Served from a fresh arena: likewise.
LEMMA OpenedLemma ==
  ASSUME IInv, is_multi_arena, ~at_max_count, NEW n \in Multiples \ {0},
         NEW size \in Sizes \ {0}, arnm_align8_u32(size) = n,
         NEW d \in HostBlocks \ host
  PROVE  AllocOK(opened(d, n), n, size)
  <1> DEFINE a == fresh_arena(d, n)
             A == appended(a)
             o == opened(d, n)
  <1>1. /\ a \in Arenas /\ a.type = OWNED /\ a.data = d
        /\ a.last_index = 0 /\ n <= a.capacity
        /\ ~arnm_arena_is_used_up(a.capacity, options.full_remaining)
        /\ ChainOK(A, count + 1, host \cup {d})
        /\ LiveOK(A, count + 1, live)
    BY FreshChain
  <1>2. count \in Nat /\ arenas \in [Indices -> Arenas]
    BY DEF IInv, ChainOK, Indices
  <1>3. /\ 0..((count + 1) - 1) = 0..count /\ count \in 0..count
        /\ Indices = 0..(count - 1) /\ count \notin Indices
        /\ \A i \in 0..count : i \in Indices \/ i = count
        /\ \A i \in Indices : i \in 0..count /\ i < count
    BY <1>2 DEF Indices
  <1>4. A[count] = a /\ (\A i \in Indices : A[i] = arenas[i])
    BY <1>2, <1>3 DEF appended
  <1>5. o.arenas = [A EXCEPT ![count] = bump(@, n)]
    <2>1. o.arenas = [i \in 0..count |-> IF i < count THEN arenas[i] ELSE bump(a, n)]
      BY DEF opened, appended
    <2>2. A = [i \in 0..count |-> IF i < count THEN arenas[i] ELSE a]
      BY DEF appended
    <2> DEFINE b == bump(a, n)
    <2>3. \A i \in 0..count : (IF i < count THEN arenas[i] ELSE b)
                               = IF i = count THEN b ELSE A[i]
      BY <1>3, <1>4
    <2>4. o.arenas = [i \in 0..count |-> IF i = count THEN b ELSE A[i]]
      <3> HIDE DEF a, A, o, b
      <3> QED BY <2>1, <2>3 DEF b
    <2>5. [A EXCEPT ![count] = b] = [i \in 0..count |-> IF i = count THEN b ELSE A[i]]
      <3> HIDE DEF a, o, b
      <3> QED BY <2>2
    <2> HIDE DEF a, A, o
    <2> QED BY <1>4, <2>4, <2>5
  <1>6. /\ o.result = SUCCESS /\ o.count = count + 1 /\ o.host = host \cup {d}
        /\ o.at = count
    BY DEF opened
  <1> HIDE DEF A, o, a
  <1>7. A[count].last_index + n <= A[count].capacity
    BY <1>1, <1>4 DEF Arenas, Multiples
  <1>8. ChainOK(o.arenas, o.count, o.host)
    BY <1>1, <1>3, <1>5, <1>6, <1>7, BumpChain
  <1> DEFINE e == bump(a, n)
  <1>9. /\ e.last_index - n = a.last_index /\ e.data = a.data /\ e.type = a.type
        /\ e.capacity = a.capacity
    BY <1>1 DEF bump, Arenas, Multiples
  <1> HIDE DEF e
  <1>10. o.arenas[count] = e /\ (\A i \in Indices : o.arenas[i] = arenas[i])
    <2>1. A \in [0..count -> Arenas]
      BY <1>1, <1>3 DEF ChainOK
    <2> QED BY <2>1, <1>3, <1>4, <1>5 DEF e
  <1>11. block_of(o, n, size) = Block(A[count].data, A[count].last_index, size)
    BY <1>4, <1>6, <1>9, <1>10 DEF block_of
  <1>12. LiveOK(o.arenas, o.count, live \cup {block_of(o, n, size)})
    BY <1>1, <1>3, <1>5, <1>6, <1>7, <1>11, <1>4, BumpLive
  <1>13. ShapeOK(o.arenas, o.count)
    <2>1. options # NULL /\ options.arena_max_count # 0 => count + 1 <= options.arena_max_count
      BY <1>2 DEF at_max_count, IInv, OptionsOK, Options
    <2> QED BY <1>1, <1>3, <1>6, <1>9, <1>10, <2>1 DEF IInv, ShapeOK, is_multi_arena
  <1>14. AllocOK(o, n, size)
    BY <1>3, <1>6, <1>8, <1>10, <1>12, <1>13 DEF AllocOK, Results
  <1> QED BY <1>14 DEF o

\* Every outcome of multi_arena_alloc, refusals included, is sound.
LEMMA AllocLemma ==
  ASSUME IInv, is_multi_arena, NEW n \in Multiples \ {0},
         NEW size \in Sizes \ {0}, arnm_align8_u32(size) = n,
         NEW o \in multi_arena_alloc(n)
  PROVE  AllocOK(o, n, size)
  <1>1. ASSUME o.result \in Results \ {SUCCESS},
               o.arenas = arenas, o.count = count, o.host = host
        PROVE  AllocOK(o, n, size)
    BY <1>1 DEF AllocOK, IInv
  <1>2. CASE o \in served(n)
    BY <1>2, ServedLemma
  <1>3. CASE o \in {alloc_refused(EXHAUSTED), alloc_refused(OUT_OF_MEMORY)}
    BY <1>1, <1>3 DEF alloc_refused, Results, SUCCESS, EXHAUSTED, OUT_OF_MEMORY
  <1>4. CASE \E d \in HostBlocks \ host : o = push_refused(d, n)
    <2>1. PICK d \in HostBlocks \ host : o = push_refused(d, n)
      BY <1>4
    <2>2. /\ o.result = OUT_OF_MEMORY /\ o.arenas = arenas /\ o.count = count
          /\ o.host = (host \cup {d}) \ {d}
      BY <2>1 DEF push_refused, alloc_refused, fresh_arena, arnm_intern
    <2> QED BY <1>1, <2>2 DEF Results, SUCCESS, OUT_OF_MEMORY
  <1>5. CASE ~at_max_count /\ \E d \in HostBlocks \ host : o = opened(d, n)
    BY <1>5, OpenedLemma
  <1> QED BY <1>2, <1>3, <1>4, <1>5 DEF multi_arena_alloc

-----------------------------------------------------------------------------
(* The owner of a block, and the marker.                                   *)

\* A block the client holds has exactly one owner, and the walk finds it
\* wherever it starts.
LEMMA OwnerLemma ==
  ASSUME IInv, NEW b \in live
  PROVE  LET i == multi_arena_find_owner(b) IN
         /\ owners(b) # {}
         /\ i \in Indices /\ arenas[i].data = b.data
  <1>1. PICK i \in Indices :
          arenas[i].data = b.data /\ b.off + Reserved(b) <= arenas[i].last_index
    BY DEF IInv, LiveOK, Indices
  <1>2. b.off < arenas[i].capacity
    <2>1. b.off \in Nat /\ Reserved(b) \in Nat /\ Reserved(b) # 0
      BY ReservedLemma DEF IInv, LiveOK, Blocks, Multiples
    <2>2. /\ arenas[i].last_index \in Nat /\ arenas[i].capacity \in Nat
          /\ arenas[i].last_index <= arenas[i].capacity
      BY DEF IInv, ChainOK, Indices, Arenas, Multiples
    <2> QED BY <1>1, <2>1, <2>2
  <1>3. owners(b) = {i}
    BY <1>1, <1>2 DEF owners, IInv, ChainOK, Indices
  <1>4. multi_arena_find_owner(b) = i
    <2>1. walk_position(i) <= walk_position(i)
      BY DEF walk_position, IInv, ChainOK, MarkerOK, Indices
    <2> QED BY <1>3, <2>1 DEF multi_arena_find_owner
  <1> QED BY <1>1, <1>3, <1>4

\* No arena of the chain owns a block that came from elsewhere.
LEMMA ForeignLemma ==
  ASSUME IInv, NEW b \in Foreign
  PROVE  owners(b) = {}
  BY DEF Foreign, owners, Block, Indices

\* The scan passes used up arenas only, and the arena that served is not one.
LEMMA ScanMarker ==
  ASSUME IInv, NEW o, NEW n, NEW size, AllocOK(o, n, size),
         NEW j \in first_open..count, scan_stops_at(n, j)
  PROVE  MarkerOK(o.arenas, o.count, j)
  <1>1. count \in Nat /\ first_open \in 0..count /\ o.count \in {count, count + 1}
    BY DEF IInv, ChainOK, MarkerOK, AllocOK
  <1>2. ASSUME NEW i \in 0..(j - 1) PROVE used_up(o.arenas[i])
    <2>1. i \in Indices
      BY <1>1 DEF Indices
    <2>2. used_up(arenas[i])
      BY <1>1 DEF IInv, MarkerOK, scan_stops_at
    <2> QED BY <2>1, <2>2 DEF AllocOK
  <1> QED BY <1>1, <1>2 DEF MarkerOK

\* Whatever arena i looks like now, reopening leaves nothing open behind.
LEMMA ReopenMarker ==
  ASSUME NEW A, NEW c \in Nat, NEW f, MarkerOK(A, c, f), DOMAIN A = 0..(c - 1),
         NEW i \in 0..(c - 1), NEW a
  PROVE  MarkerOK([A EXCEPT ![i] = a], c, multi_arena_reopen(a, i, f))
  <1> DEFINE B == [A EXCEPT ![i] = a]
  <1>1. f \in 0..c /\ \A k \in 0..(f - 1) : k \in DOMAIN A
    BY DEF MarkerOK
  <1>2. B[i] = a /\ (\A k \in DOMAIN A : k # i => B[k] = A[k])
    OBVIOUS
  <1>3. CASE i < f /\ ~used_up(a)
    BY <1>1, <1>2, <1>3 DEF MarkerOK, multi_arena_reopen
  <1>4. CASE ~(i < f /\ ~used_up(a))
    BY <1>1, <1>2, <1>4 DEF MarkerOK, multi_arena_reopen
  <1> QED BY <1>3, <1>4

\* Handing bytes back changes no shape.
LEMMA ShapeBump ==
  ASSUME NEW A, NEW c, NEW h, ChainOK(A, c, h), ShapeOK(A, c),
         NEW i \in 0..(c - 1), NEW n
  PROVE  ShapeOK([A EXCEPT ![i] = bump(A[i], n)], c)
  <1> DEFINE a == bump(A[i], n)
             B == [A EXCEPT ![i] = a]
  <1>1. A \in [0..(c - 1) -> Arenas] /\ A[i] \in Arenas
    BY DEF ChainOK
  <1>2. a.type = A[i].type /\ a.capacity = A[i].capacity
    BY <1>1 DEF bump, Arenas
  <1> HIDE DEF a
  <1>3. \A j \in 0..(c - 1) : B[j].type = A[j].type /\ B[j].capacity = A[j].capacity
    BY <1>1, <1>2
  <1>4. ShapeOK(B, c)
    <2> HIDE DEF B
    <2> QED BY <1>3 DEF ShapeOK
  <1> QED BY <1>4 DEF a

\* A step that keeps the options and ends in a good chain keeps the invariant.
LEMMA Assemble ==
  ASSUME IInv, options' = options, result' \in Results,
         ChainOK(arenas', count', host'), LiveOK(arenas', count', live'),
         ShapeOK(arenas', count'), MarkerOK(arenas', count', first_open')
  PROVE  IInv'
  BY DEF IInv, OptionsOK, ShapeOK, MarkerOK, used_up, ChainOK, LiveOK

\* A refused call keeps the invariant.
LEMMA RefuseStep ==
  ASSUME IInv, NEW r \in Results, Refuse(r)
  PROVE  IInv'
  BY Assemble DEF IInv, Refuse

-----------------------------------------------------------------------------
(* One lemma per operation: the invariant is kept.                         *)

\* arnm_create_multi_arena keeps it: the options were filled in and validated.
LEMMA CreateStep ==
  ASSUME IInv, NEW o \in OptionSets, arnm_create_multi_arena(o)
  PROVE  IInv'
  <1>1. CASE \E r \in {OUT_OF_MEMORY, OVERFLOW, INVALID_STATE} : Refuse(r)
    BY <1>1, RefuseStep DEF Results
  <1>2. CASE /\ ~is_multi_arena
             /\ arnm_multi_arena_options_validate(o) = SUCCESS
             /\ options' = effective(o)
             /\ arenas' = NoArenas /\ count' = 0 /\ first_open' = 0
             /\ result' = SUCCESS
             /\ UNCHANGED <<host, live>>
    <2> USE <1>2
    <2> DEFINE e == effective(o)
    <2>1. o \in Options
      BY ChainAssumption
    <2>2. or_default(o.arena_capacity, DEFAULT_CAPACITY) \in 0..UINT32_MAX
      BY <2>1, ChainAssumption, WidthAssumption DEF or_default, Options
    <2>3. e \in Options /\ e.arena_capacity \in Multiples
      <3>1. arnm_align8_u32(or_default(o.arena_capacity, DEFAULT_CAPACITY)) \in Multiples
        BY <2>2, AlignLemma
      <3>2. or_default(o.full_remaining, DEFAULT_FULL_REMAINING) \in 0..UINT32_MAX
        BY <2>1, ChainAssumption DEF or_default, Options
      <3> QED BY <2>1, <3>1, <3>2 DEF effective, Options, Multiples
    <2>4. OptionsOK(e)
      BY <2>3 DEF OptionsOK, arnm_multi_arena_options_validate, OVERFLOW, SUCCESS,
                  INVALID_STATE
    <2>5. count = 0 /\ live = {} /\ host = {}
      <3>1. count = 0
        BY DEF IInv, ShapeOK, is_multi_arena
      <3> QED BY <3>1 DEF IInv, ChainOK, LiveOK
    <2>6. options' # NULL
      BY <2>3, ChainAssumption
    <2>7. ChainOK(arenas', count', host') /\ LiveOK(arenas', count', live')
      BY <2>5 DEF ChainOK, LiveOK, NoArenas
    <2>8. options'.arena_max_count \in Nat
      BY <2>3 DEF Options
    <2> HIDE DEF e
    <2>9. ChainOK(arenas, count, host)' /\ LiveOK(arenas, count, live)'
      BY <2>7 DEF ChainOK, LiveOK
    <2>10. OptionsOK(options)'
      BY <2>4 DEF OptionsOK, e
    <2>11. ShapeOK(arenas, count)' /\ MarkerOK(arenas, count, first_open)'
      BY <2>6, <2>8 DEF ShapeOK, MarkerOK
    <2> QED BY <2>9, <2>10, <2>11 DEF IInv, Results
  <1> QED BY <1>1, <1>2 DEF arnm_create_multi_arena, arnm_multi_arena_options_validate

\* arnm_multi_arena_reserve opens nothing.
LEMMA ReserveStep ==
  ASSUME IInv, NEW n, arnm_multi_arena_reserve(n)
  PROVE  IInv'
  BY RefuseStep DEF arnm_multi_arena_reserve, Results

\* arnm_multi_arena_borrow appends a block no arena has.
LEMMA BorrowStep ==
  ASSUME IInv, NEW d \in Blobs, NEW cap \in Capacities, arnm_multi_arena_borrow(d, cap)
  PROVE  IInv'
  <1>1. CASE \E r \in {EXHAUSTED, INVALID_PARAM, OVERFLOW, OUT_OF_MEMORY} : Refuse(r)
    BY <1>1, RefuseStep DEF Results
  <1>2. CASE /\ is_multi_arena
             /\ \A i \in Indices : arenas[i].data # d
             /\ ~at_max_count /\ cap # 0 /\ arnm_align8_u32(cap) = cap
             /\ arenas' = appended(arnm_intern(EXTERNAL, d, cap))
             /\ count' = count + 1
             /\ result' = SUCCESS
             /\ UNCHANGED <<options, first_open, host, live>>
    <2> USE <1>2
    <2> DEFINE a == arnm_intern(EXTERNAL, d, cap)
    <2>1. cap \in Multiples
      BY ChainAssumption, AlignLemma
    <2>2. a \in Arenas /\ a.type = EXTERNAL /\ a.data = d /\ a.last_index <= a.capacity
      BY <2>1, WidthAssumption DEF arnm_intern, Arenas, Multiples
    <2>3. a.type # OWNED /\ a.data \notin HostBlocks
      BY <2>2, ChainAssumption DEF OWNED, EXTERNAL
    <2> HIDE DEF a
    <2>4. ChainOK(arenas', count', host') /\ LiveOK(arenas', count', live')
      <3>1. arenas' = [i \in 0..count |-> IF i < count THEN arenas[i] ELSE a]
        BY DEF appended, a
      <3>2. ChainOK(arenas, count, host) /\ LiveOK(arenas, count, live)
        BY DEF IInv
      <3>3. \A i \in 0..(count - 1) : arenas[i].data # a.data
        BY <2>2 DEF Indices
      <3>4. /\ ChainOK([i \in 0..count |-> IF i < count THEN arenas[i] ELSE a], count + 1,
                        IF a.type = OWNED THEN host \cup {a.data} ELSE host)
            /\ LiveOK([i \in 0..count |-> IF i < count THEN arenas[i] ELSE a], count + 1, live)
        BY <2>2, <2>3, <3>2, <3>3, AppendChain
      <3> QED BY <2>3, <3>1, <3>4
    <2>5. count \in Nat /\ first_open \in 0..count /\ count' \in Nat
      BY DEF IInv, ChainOK, MarkerOK
    <2>6. (\A i \in 0..(count - 1) : arenas'[i] = arenas[i]) /\ arenas'[count] = a
      BY <2>5 DEF appended, a
    <2>7. ShapeOK(arenas', count')
      <3>1. options.arena_max_count # 0 => count + 1 <= options.arena_max_count
        BY <2>5 DEF at_max_count, IInv, OptionsOK, Options, is_multi_arena
      <3>2. \A i \in 0..((count + 1) - 1) : i \in 0..(count - 1) \/ i = count
        BY <2>5
      <3> QED BY <2>3, <2>6, <3>1, <3>2 DEF IInv, ShapeOK, is_multi_arena
    <2>8. MarkerOK(arenas', count', first_open')
      BY <2>5, <2>6 DEF IInv, MarkerOK
    <2> QED BY <2>4, <2>7, <2>8, Assemble DEF Results
  <1> QED BY <1>1, <1>2 DEF arnm_multi_arena_borrow

\* A step that takes an outcome of the scan, and gives the client M of the
\* blocks it may now hold.
LEMMA TakeOutcome ==
  ASSUME IInv, NEW o, NEW n, NEW size, AllocOK(o, n, size),
         NEW j \in first_open..count, scan_stops_at(n, j),
         arenas' = o.arenas, count' = o.count, host' = o.host,
         first_open' = j, options' = options, result' \in Results,
         \/ o.result = SUCCESS /\ live' \subseteq live \cup {block_of(o, n, size)}
         \/ o.result # SUCCESS /\ live' = live
  PROVE  IInv'
  <1>1. ChainOK(arenas', count', host') /\ ShapeOK(arenas', count')
    BY DEF AllocOK
  <1>2. LiveOK(arenas', count', live')
    BY Forget DEF AllocOK
  <1>3. MarkerOK(arenas', count', first_open')
    BY ScanMarker
  <1> QED BY <1>1, <1>2, <1>3, Assemble

\* arnm_alloc keeps it, whichever arena serves.
LEMMA AllocStep ==
  ASSUME IInv, NEW size \in Sizes, NEW r \in Results, AllocBlock(size, r)
  PROVE  IInv'
  <1> DEFINE n == arnm_align8_u32(size)
  <1>1. CASE Refuse(OVERFLOW)
    BY <1>1, RefuseStep DEF Results
  <1>2. CASE n # 0 /\ ~Refuse(OVERFLOW)
    <2>1. size \in Sizes \ {0} /\ n \in Multiples \ {0} /\ is_multi_arena
      BY <1>2, AlignLemma, ChainAssumption DEF AllocBlock
    <2>2. PICK o \in multi_arena_alloc(n), j \in first_open..count :
            /\ scan_stops_at(n, j) /\ first_open' = j
            /\ arenas' = o.arenas /\ count' = o.count /\ host' = o.host
            /\ IF o.result = SUCCESS
               THEN live' = live \cup {block_of(o, n, size)} /\ result' = r
               ELSE live' = live /\ result' = o.result
            /\ options' = options
      BY <1>2 DEF AllocBlock
    <2>3. AllocOK(o, n, size)
      BY <2>1, AllocLemma
    <2>4. result' \in Results
      BY <2>2, <2>3 DEF AllocOK
    <2> HIDE DEF n
    <2> QED BY <2>2, <2>3, <2>4, TakeOutcome
  <1> QED BY <1>1, <1>2 DEF AllocBlock

\* Handing the tail b of arena i back in a chain that is already good, with
\* the marker at f by then.
LEMMA HandBackStep ==
  ASSUME IInv, options' = options, result' \in Results,
         NEW A, NEW f, ChainOK(A, count', host'), ShapeOK(A, count'), MarkerOK(A, count', f),
         NEW L, LiveOK(A, count', L), NEW b \in L, NEW i \in 0..(count' - 1),
         is_single_arena_reclaimable(b, Reserved(b), A[i]),
         hand_back(A, i, Reserved(b), f), live' = L \ {b}
  PROVE  IInv'
  <1> DEFINE a == bump(A[i], -Reserved(b))
  <1>1. arenas' = [A EXCEPT ![i] = a] /\ first_open' = multi_arena_reopen(a, i, f)
    BY DEF hand_back
  <1>2. ChainOK(arenas', count', host') /\ LiveOK(arenas', count', live')
    BY <1>1, HandBack
  <1>3. ShapeOK(arenas', count')
    BY <1>1, ShapeBump
  <1>4. MarkerOK(arenas', count', first_open')
    <2>1. count' \in Nat /\ DOMAIN A = 0..(count' - 1)
      BY DEF ChainOK
    <2> HIDE DEF a
    <2> QED BY <1>1, <2>1, ReopenMarker
  <1> QED BY <1>2, <1>3, <1>4, Assemble

\* arnm_free keeps it, for blocks of the chain and for strangers.
LEMMA FreeStep ==
  ASSUME IInv, NEW b \in live \cup Foreign, arnm_free(b)
  PROVE  IInv'
  <1> DEFINE i == multi_arena_find_owner(b)
             n == Reserved(b)
  <1>1. CASE \E r \in {OVERFLOW, INVALID_PARAM} : Refuse(r)
    BY <1>1, RefuseStep DEF Results
  <1>2. CASE /\ owners(b) # {} /\ is_single_arena_reclaimable(b, n, arenas[i])
             /\ hand_back(arenas, i, n, first_open)
             /\ live' = live \ {b}
             /\ result' = SUCCESS
             /\ UNCHANGED <<options, count, host>>
    <2>1. b \in live
      BY <1>2, ForeignLemma
    <2>2. i \in 0..(count' - 1)
      BY <1>2, <2>1, OwnerLemma DEF Indices
    <2>3. /\ ChainOK(arenas, count', host') /\ ShapeOK(arenas, count')
          /\ MarkerOK(arenas, count', first_open) /\ LiveOK(arenas, count', live)
      BY <1>2 DEF IInv
    <2> HIDE DEF i
    <2> QED BY <1>2, <2>1, <2>2, <2>3, HandBackStep DEF Results
  <1>3. CASE /\ live' \in {live, live \ {b}}
             /\ result' = NOT_RECLAIMED
             /\ UNCHANGED chain
    <2>1. LiveOK(arenas, count, live')
      BY <1>3, Forget DEF IInv
    <2> QED BY <1>3, <2>1, Assemble DEF IInv, chain, Results
  <1> QED BY <1>1, <1>2, <1>3 DEF arnm_free

\* A tail block resized where it lies.
LEMMA InPlaceStep ==
  ASSUME IInv, NEW b \in live, NEW size \in Sizes \ {0}, arnm_align8_u32(size) # 0,
         realloc_in_place(b, size, multi_arena_find_owner(b), Reserved(b),
                          arnm_align8_u32(size))
  PROVE  IInv'
  <1> DEFINE i == multi_arena_find_owner(b)
             old == Reserved(b)
             new == arnm_align8_u32(size)
             a == arenas[i]
             A == [arenas EXCEPT ![i] = bump(a, -old)]
             x == [b EXCEPT !.size = size]
  <1>1. i \in Indices /\ a.data = b.data
    BY OwnerLemma
  <1>2. /\ ChainOK(arenas, count, host) /\ LiveOK(arenas, count, live)
        /\ i \in 0..(count - 1) /\ ShapeOK(arenas, count)
        /\ MarkerOK(arenas, count, first_open)
        /\ arenas \in [0..(count - 1) -> Arenas] /\ a \in Arenas /\ a.last_index <= a.capacity
    BY <1>1 DEF IInv, Indices, ChainOK
  <1>3. old \in Multiples \ {0} /\ new \in Multiples \ {0} /\ b \in Blocks
    BY ReservedLemma, AlignLemma, ChainAssumption, <1>2 DEF LiveOK
  <1>4. is_single_arena_reclaimable(b, old, a)
    BY DEF realloc_in_place
  <1>5. a.last_index - old = b.off /\ b.off \in Multiples
    BY <1>3, <1>4 DEF is_single_arena_reclaimable, Blocks
  <1>6. ChainOK(A, count, host) /\ LiveOK(A, count, live \ {b})
    <2> HIDE DEF i
    <2> QED BY <1>2, <1>4, HandBack
  <1>7. /\ A[i].last_index = b.off /\ A[i].data = b.data /\ A[i].capacity = a.capacity
    <2> HIDE DEF i
    <2> QED BY <1>1, <1>2, <1>3, <1>5 DEF bump, Arenas, Blocks, Multiples
  <1>8. /\ arenas' = [arenas EXCEPT ![i] = bump(a, new - old)]
        /\ A[i].last_index + new <= A[i].capacity
    <2>1. CASE new < old
      <3>1. -(old - new) = new - old
        BY <1>3 DEF Multiples
      <3>2. arenas' = [arenas EXCEPT ![i] = bump(a, -(old - new))]
        BY <2>1, <1>3 DEF realloc_in_place, hand_back, Multiples
      <3>3. b.off + new <= a.capacity
        <4>1. a.last_index \in Nat /\ a.capacity \in Nat /\ b.off \in Nat /\ old \in Nat /\ new \in Nat
          BY <1>2, <1>3, <1>5 DEF Arenas, Multiples
        <4> HIDE DEF old, new, a
        <4> QED BY <2>1, <1>2, <1>5, <4>1
      <3> HIDE DEF old, new, a, A, i
      <3> QED BY <3>1, <3>2, <3>3, <1>7
    <2>2. CASE new >= old
      <3>1. /\ remaining_bytes(a) >= new - old
            /\ arenas' = [arenas EXCEPT ![i] = bump(a, new - old)]
        BY <2>2, <1>3 DEF realloc_in_place, Multiples
      <3>2. b.off + new <= a.capacity
        <4>1. a.last_index \in Nat /\ a.capacity \in Nat /\ b.off \in Nat /\ old \in Nat /\ new \in Nat
          BY <1>2, <1>3, <1>5 DEF Arenas, Multiples
        <4> HIDE DEF old, new, a
        <4> QED BY <2>2, <3>1, <1>5, <4>1 DEF remaining_bytes
      <3> HIDE DEF old, new, a, A, i
      <3> QED BY <3>1, <3>2, <1>7
    <2> QED BY <2>1, <2>2, <1>3 DEF Multiples
  <1>9. arenas' = [A EXCEPT ![i] = bump(A[i], new)]
    <2>1. A[i] = bump(a, -old)
      <3> HIDE DEF i, a
      <3> QED BY <1>2
    <2>2. bump(bump(a, -old), new) = bump(a, new - old)
      <3>1. a.last_index \in Nat /\ old \in Nat /\ new \in Nat
        BY <1>2, <1>3 DEF Arenas, Multiples
      <3>2. (a.last_index + (-old)) + new = a.last_index + (new - old)
        <4> HIDE DEF a, old, new
        <4> QED BY <3>1
      <3> HIDE DEF a, old, new
      <3> QED BY <1>2, <3>2 DEF bump, Arenas
    <2> HIDE DEF i, a, old, new
    <2> QED BY <1>2, <1>8, <2>1, <2>2
  <1>10. x = Block(A[i].data, A[i].last_index, size) /\ live' = (live \ {b}) \cup {x}
    <2>1. x = [data |-> b.data, off |-> b.off, size |-> size]
      BY <1>3 DEF Blocks
    <2>2. live' = (live \ {b}) \cup {x}
      BY DEF realloc_in_place, Resized
    <2> HIDE DEF x, i, A
    <2> QED BY <1>7, <2>1, <2>2 DEF Block
  <1>11. ChainOK(arenas', count, host) /\ LiveOK(arenas', count, live')
    <2> HIDE DEF x, i, A, new, old, a
    <2>1. arnm_align8_u32(size) = new
      BY DEF new
    <2>2. ChainOK([A EXCEPT ![i] = bump(@, new)], count, host)
      BY <1>2, <1>3, <1>6, <1>8, BumpChain
    <2>3. LiveOK([A EXCEPT ![i] = bump(@, new)], count,
                 (live \ {b}) \cup {Block(A[i].data, A[i].last_index, size)})
      BY <1>2, <1>3, <1>6, <1>8, <2>1, BumpLive
    <2> QED BY <1>9, <1>10, <2>2, <2>3
  <1>12. count' = count /\ host' = host /\ options' = options /\ result' \in Results
    BY DEF realloc_in_place, Results
  <1>13. ShapeOK(arenas', count)
    <2> HIDE DEF i, new, old
    <2> QED BY <1>2, <1>8, ShapeBump
  <1>14. MarkerOK(arenas', count, first_open')
    <2>1. DOMAIN arenas = 0..(count - 1) /\ count \in Nat
      BY <1>2 DEF ChainOK
    <2>2. CASE new < old
      <3>1. /\ arenas' = [arenas EXCEPT ![i] = bump(a, -(old - new))]
            /\ first_open' = multi_arena_reopen(bump(a, -(old - new)), i, first_open)
        BY <2>2, <1>3 DEF realloc_in_place, hand_back, Multiples
      <3> HIDE DEF i, a, old, new
      <3> QED BY <3>1, <1>2, <2>1, ReopenMarker
    <2>3. CASE new >= old
      <3>1. first_open' = first_open
        BY <2>3, <1>3 DEF realloc_in_place, Multiples
      <3>2. \A j \in 0..(first_open - 1) : used_up(arenas'[j])
        <4> SUFFICES ASSUME NEW j \in 0..(first_open - 1) PROVE used_up(arenas'[j])
          OBVIOUS
        <4>1. used_up(arenas[j]) /\ j \in 0..(count - 1)
          BY <1>2, <2>1 DEF MarkerOK
        <4>2. CASE j # i
          <5> HIDE DEF i, a, old, new
          <5> QED BY <1>2, <1>8, <4>1, <4>2
        <4>3. CASE j = i
          <5>1. arenas'[i] = bump(a, new - old)
            <6> HIDE DEF i, a, old, new
            <6> QED BY <1>2, <1>8
          <5>2. remaining_bytes(bump(a, new - old)) <= remaining_bytes(a)
            <6>1. a.last_index \in Nat /\ a.capacity \in Nat /\ old \in Nat /\ new \in Nat
              BY <1>2, <1>3 DEF Arenas, Multiples
            <6> HIDE DEF a, old, new
            <6> QED BY <6>1, <1>2, <2>3 DEF remaining_bytes, bump, Arenas
          <5>3. options \in Options
            <6>1. options # NULL
              BY <1>2 DEF ShapeOK
            <6> QED BY <6>1 DEF IInv, OptionsOK
          <5>4. /\ remaining_bytes(a) \in Int /\ remaining_bytes(bump(a, new - old)) \in Int
                /\ options.full_remaining \in Int
            <6>1. a.last_index \in Int /\ a.capacity \in Int /\ old \in Int /\ new \in Int
              BY <1>2, <1>3 DEF Arenas, Multiples
            <6> HIDE DEF a, old, new
            <6> QED BY <6>1, <1>2, <5>3 DEF remaining_bytes, bump, Arenas, Options
          <5> HIDE DEF a, old, new
          <5> QED BY <4>1, <4>3, <5>1, <5>2, <5>4 DEF used_up, arnm_arena_is_used_up, a
        <4> QED BY <4>2, <4>3
      <3> QED BY <1>2, <3>1, <3>2 DEF MarkerOK
    <2> QED BY <2>2, <2>3, <1>3 DEF Multiples
  <1> QED BY <1>11, <1>12, <1>13, <1>14, Assemble

\* A block moved: taken elsewhere first, then handed back.
LEMMA MovedStep ==
  ASSUME IInv, NEW b \in live, NEW size \in Sizes \ {0}, arnm_align8_u32(size) # 0,
         is_multi_arena,
         realloc_moved(b, size, multi_arena_find_owner(b), Reserved(b),
                       arnm_align8_u32(size))
  PROVE  IInv'
  <1> DEFINE i == multi_arena_find_owner(b)
             old == Reserved(b)
             new == arnm_align8_u32(size)
  <1>1. i \in Indices /\ arenas[i].data = b.data /\ arenas[i] \in Arenas /\ count \in Nat
    BY OwnerLemma DEF IInv, ChainOK, Indices
  <1>2. old \in Multiples \ {0} /\ new \in Multiples \ {0} /\ b \in Blocks
    BY ReservedLemma, AlignLemma, ChainAssumption DEF LiveOK, IInv
  <1>3. /\ is_single_arena_reclaimable(b, old, arenas[i])
        /\ remaining_bytes(arenas[i]) < new - old
        /\ options' = options
    BY DEF realloc_moved
  <1>4. PICK o \in multi_arena_alloc(new), j \in first_open..count :
          /\ scan_stops_at(new, j)
          /\ count' = o.count /\ host' = o.host /\ result' = o.result
          /\ IF o.result = SUCCESS
             THEN /\ hand_back(o.arenas, i, old, j)
                  /\ live' = (live \ {b}) \cup {block_of(o, new, size)}
             ELSE /\ arenas' = o.arenas /\ first_open' = j
                  /\ live' = live
    BY DEF realloc_moved
  <1>5. AllocOK(o, new, size)
    BY <1>2, AllocLemma
  <1>6. MarkerOK(o.arenas, o.count, j)
    <2> HIDE DEF new
    <2> QED BY <1>4, <1>5, ScanMarker
  <1>7. CASE o.result # SUCCESS
    <2>1. result' \in Results
      BY <1>4, <1>5 DEF AllocOK
    <2> HIDE DEF new
    <2> QED BY <1>3, <1>4, <1>5, <1>7, <2>1, TakeOutcome
  <1>8. CASE o.result = SUCCESS
    <2> DEFINE x == block_of(o, new, size)
    <2>1. ~(remaining_bytes(arenas[i]) >= new)
      <3>1. remaining_bytes(arenas[i]) \in Int /\ new \in Nat /\ old \in Nat
        BY <1>1, <1>2 DEF remaining_bytes, Arenas, Multiples
      <3> HIDE DEF i, old, new
      <3> QED BY <1>3, <3>1
    <2>2. o.arenas[i] = arenas[i] /\ i # o.at
      <3> HIDE DEF i, new
      <3> QED BY <1>1, <1>5, <1>8, <2>1 DEF AllocOK
    <2>3. /\ o.count \in {count, count + 1} /\ ChainOK(o.arenas, o.count, o.host)
          /\ ShapeOK(o.arenas, o.count) /\ o.at \in 0..(o.count - 1)
          /\ LiveOK(o.arenas, o.count, live \cup {x})
      BY <1>5, <1>8 DEF AllocOK
    <2>4. i \in 0..(o.count - 1)
      <3> HIDE DEF i
      <3> QED BY <1>1, <2>3 DEF Indices
    <2>5. x # b
      <3>1. x.data = o.arenas[o.at].data
        BY DEF block_of, Block
      <3>2. o.arenas[o.at].data # o.arenas[i].data
        <4> HIDE DEF i
        <4> QED BY <2>2, <2>3, <2>4 DEF ChainOK
      <3> HIDE DEF x, i
      <3> QED BY <1>1, <2>2, <3>1, <3>2
    <2>6. live' = (live \cup {x}) \ {b}
      <3>1. live' = (live \ {b}) \cup {x}
        BY <1>4, <1>8
      <3> HIDE DEF x
      <3> QED BY <2>5, <3>1
    <2>7. hand_back(o.arenas, i, old, j)
      BY <1>4, <1>8
    <2>8. result' \in Results
      BY <1>4, <1>8 DEF Results
    <2>9. is_single_arena_reclaimable(b, Reserved(b), o.arenas[i])
      BY <1>3, <2>2
    <2>10. /\ ChainOK(o.arenas, count', host') /\ ShapeOK(o.arenas, count')
           /\ LiveOK(o.arenas, count', live \cup {x}) /\ i \in 0..(count' - 1)
           /\ MarkerOK(o.arenas, count', j)
      BY <1>4, <1>6, <2>3, <2>4
    <2>11. b \in live \cup {x}
      OBVIOUS
    <2> HIDE DEF x, i
    <2> QED BY <1>3, <2>6, <2>7, <2>8, <2>9, <2>10, <2>11, HandBackStep
  <1> QED BY <1>7, <1>8

\* A buried block: copied elsewhere with its bytes left behind, or kept as it is.
LEMMA BuriedStep ==
  ASSUME IInv, NEW b \in live, NEW size \in Sizes \ {0}, arnm_align8_u32(size) # 0,
         is_multi_arena,
         realloc_buried(b, size, multi_arena_find_owner(b), Reserved(b),
                        arnm_align8_u32(size))
  PROVE  IInv'
  <1> DEFINE old == Reserved(b)
             new == arnm_align8_u32(size)
  <1>1. old \in Multiples \ {0} /\ new \in Multiples \ {0} /\ b \in Blocks
    BY ReservedLemma, AlignLemma, ChainAssumption DEF LiveOK, IInv
  <1>2. CASE new > old
    <2>1. PICK o \in multi_arena_alloc(new), j \in first_open..count :
            /\ scan_stops_at(new, j) /\ first_open' = j
            /\ arenas' = o.arenas /\ count' = o.count /\ host' = o.host
            /\ IF o.result = SUCCESS
               THEN /\ live' = (live \ {b}) \cup {block_of(o, new, size)}
                    /\ result' = NOT_RECLAIMED
               ELSE live' = live /\ result' = o.result
            /\ options' = options
      BY <1>1, <1>2 DEF realloc_buried, Multiples
    <2>2. AllocOK(o, new, size)
      BY <1>1, AllocLemma
    <2>3. result' \in Results
      BY <2>1, <2>2 DEF AllocOK, Results
    <2>4. \/ o.result = SUCCESS /\ live' \subseteq live \cup {block_of(o, new, size)}
          \/ o.result # SUCCESS /\ live' = live
      BY <2>1
    <2> HIDE DEF new
    <2> QED BY <2>1, <2>2, <2>3, <2>4, TakeOutcome
  <1>3. CASE ~(new > old)
    <2>1. live' \in {live, Resized(b, size)} /\ result' = NOT_RECLAIMED /\ UNCHANGED chain
      BY <1>3 DEF realloc_buried
    <2>2. new <= old
      BY <1>1, <1>3 DEF Multiples
    <2>3. ChainOK(arenas, count, host) /\ LiveOK(arenas, count, live)
      BY DEF IInv
    <2>4. LiveOK(arenas, count, Resized(b, size))
      BY <2>2, <2>3, Trim DEF Resized
    <2> QED BY <2>1, <2>3, <2>4, Assemble DEF IInv, chain, Results
  <1> QED BY <1>2, <1>3

\* arnm_realloc keeps the invariant along each of its paths.
LEMMA ReallocStep ==
  ASSUME IInv, is_multi_arena, NEW b \in live \cup Foreign, NEW size \in Sizes,
         arnm_realloc(b, size)
  PROVE  IInv'
  <1>1. CASE \E r \in {OVERFLOW, SUCCESS, INVALID_PARAM} : Refuse(r)
    BY <1>1, RefuseStep DEF Results
  <1>2. CASE /\ size # 0 /\ arnm_align8_u32(size) # 0 /\ owners(b) # {}
             /\ \/ realloc_in_place(b, size, multi_arena_find_owner(b), Reserved(b),
                                    arnm_align8_u32(size))
                \/ realloc_moved(b, size, multi_arena_find_owner(b), Reserved(b),
                                 arnm_align8_u32(size))
                \/ realloc_buried(b, size, multi_arena_find_owner(b), Reserved(b),
                                  arnm_align8_u32(size))
    <2>1. b \in live
      BY <1>2, ForeignLemma
    <2> QED BY <1>2, <2>1, InPlaceStep, MovedStep, BuriedStep
  <1> QED BY <1>1, <1>2 DEF arnm_realloc

\* A reset arena is the same arena, empty.
LEMMA ResetLemma ==
  ASSUME NEW a \in Arenas
  PROVE  LET r == arnm_reset_arena(a) IN
         /\ r \in Arenas /\ r.data = a.data /\ r.type = a.type
         /\ r.capacity = a.capacity /\ r.last_index = 0
  <1> DEFINE e == [a EXCEPT !.last_index = 0]
             r == [e EXCEPT !.out_of_memory_capacity = 0]
  <1>1. 0 \in Multiples /\ 0 \in 0..UINT32_MAX
    BY WidthAssumption DEF Multiples
  <1>2. /\ e \in Arenas /\ e.data = a.data /\ e.type = a.type
        /\ e.capacity = a.capacity /\ e.last_index = 0
    BY <1>1 DEF Arenas
  <1>3. /\ r \in Arenas /\ r.data = e.data /\ r.type = e.type
        /\ r.capacity = e.capacity /\ r.last_index = e.last_index
    <2> HIDE DEF e
    <2> QED BY <1>1, <1>2 DEF Arenas
  <1>4. arnm_reset_arena(a) = r
    BY DEF arnm_reset_arena
  <1> HIDE DEF e, r
  <1> QED BY <1>2, <1>3, <1>4

\* arnm_reset keeps it.
LEMMA ResetStep ==
  ASSUME IInv, arnm_reset
  PROVE  IInv'
  <1>1. arenas \in [0..(count - 1) -> Arenas] /\ count \in Nat
    BY DEF IInv, ChainOK
  <1>2. ASSUME NEW i \in 0..(count - 1)
        PROVE  /\ arenas'[i] \in Arenas /\ arenas'[i].data = arenas[i].data
               /\ arenas'[i].type = arenas[i].type
               /\ arenas'[i].capacity = arenas[i].capacity
               /\ arenas'[i].last_index = 0 /\ 0 <= arenas'[i].capacity
    <2>1. arenas'[i] = arnm_reset_arena(arenas[i])
      BY DEF arnm_reset, Indices
    <2>2. arenas[i] \in Arenas
      BY <1>1
    <2>3. 0 \in Multiples /\ 0 \in 0..UINT32_MAX
      BY WidthAssumption DEF Multiples
    <2>4. arenas[i].capacity \in Nat
      BY <2>2 DEF Arenas, Multiples
    <2> QED BY <2>1, <2>2, <2>3, <2>4, ResetLemma
  <1>3. ChainOK(arenas', count', host')
    <2>1. arenas' \in [0..(count - 1) -> Arenas]
      BY <1>2 DEF arnm_reset, Indices
    <2>2. {j \in 0..(count - 1) : arenas[j].type = OWNED}
            = {j \in 0..(count - 1) : arenas'[j].type = OWNED}
      BY <1>2
    <2>3. {arenas'[k].data : k \in {j \in 0..(count - 1) : arenas'[j].type = OWNED}}
            = {arenas[k].data : k \in {j \in 0..(count - 1) : arenas[j].type = OWNED}}
      BY <1>2, <2>2
    <2>4. count' = count /\ host' = host
      BY DEF arnm_reset
    <2>5. /\ \A i \in 0..(count - 1) : arenas'[i].last_index <= arenas'[i].capacity
          /\ \A i \in 0..(count - 1) : arenas'[i].type = OWNED <=> arenas'[i].data \in HostBlocks
          /\ \A i, j \in 0..(count - 1) : i # j => arenas'[i].data # arenas'[j].data
      BY <1>2 DEF ChainOK, IInv
    <2>6. host = {arenas[k].data : k \in {j \in 0..(count - 1) : arenas[j].type = OWNED}}
      BY DEF ChainOK, IInv
    <2> QED BY <1>1, <2>1, <2>3, <2>4, <2>5, <2>6 DEF ChainOK
  <1>4. LiveOK(arenas', count', live')
    BY DEF arnm_reset, LiveOK
  <1>5. ShapeOK(arenas', count')
    BY <1>2 DEF IInv, ShapeOK, arnm_reset
  <1>6. MarkerOK(arenas', count', first_open')
    BY <1>1 DEF arnm_reset, MarkerOK
  <1> QED BY <1>3, <1>4, <1>5, <1>6, Assemble DEF arnm_reset, IInv

\* Releasing every arena leaves an empty chain and nothing of the host's.
LEMMA ReleaseStep ==
  ASSUME IInv, arnm_release \/ arnm_destroy
  PROVE  IInv'
  <1>1. host = owned_from(0)
    BY DEF IInv, ChainOK, owned_from
  <1>2. /\ host' = {} /\ arenas' = NoArenas /\ count' = 0 /\ first_open' = 0 /\ live' = {}
        /\ options' \in {options, NULL} /\ result' \in Results
    BY <1>1 DEF arnm_release, arnm_destroy, IInv, Results
  <1>3. ChainOK(arenas, count, host)' /\ LiveOK(arenas, count, live)'
    BY <1>2 DEF ChainOK, LiveOK, NoArenas
  <1>4. OptionsOK(options)'
    BY <1>2 DEF IInv, OptionsOK
  <1>5. ShapeOK(arenas, count)' /\ MarkerOK(arenas, count, first_open)'
    BY <1>2, <1>4 DEF ShapeOK, MarkerOK, OptionsOK, Options
  <1> QED BY <1>2, <1>3, <1>4, <1>5 DEF IInv

\* The arenas shrink drops are empty, so no block of the client was in them,
\* and they are owned, so the host gets exactly their ground back.
LEMMA ShrinkStep ==
  ASSUME IInv, arnm_multi_arena_shrink
  PROVE  IInv'
  <1>1. PICK keep \in 0..count :
          /\ \A i \in keep..(count - 1) : arenas[i].last_index = 0 /\ arenas[i].type # EXTERNAL
          /\ count' = keep
          /\ arenas' = [i \in 0..(keep - 1) |-> arenas[i]]
          /\ host' = host \ owned_from(keep)
          /\ first_open' = shrunk_marker(keep)
    BY DEF arnm_multi_arena_shrink
  <1>2. options' = options /\ live' = live /\ result' \in Results
    BY DEF arnm_multi_arena_shrink, Results
  <1>3. /\ count \in Nat /\ keep \in Nat /\ arenas \in [0..(count - 1) -> Arenas]
        /\ \A i \in 0..(keep - 1) : i \in 0..(count - 1) /\ arenas'[i] = arenas[i]
        /\ \A i \in 0..(count - 1) : i \in 0..(keep - 1) \/ i \in keep..(count - 1)
        /\ \A i \in keep..(count - 1) : i \notin 0..(keep - 1) /\ i \in 0..(count - 1)
    BY <1>1 DEF IInv, ChainOK
  <1>4. host' = {arenas'[k].data : k \in {j \in 0..(keep - 1) : arenas'[j].type = OWNED}}
    <2>1. /\ host = {arenas[k].data : k \in {j \in 0..(count - 1) : arenas[j].type = OWNED}}
          /\ \A i, j \in 0..(count - 1) : i # j => arenas[i].data # arenas[j].data
      BY DEF IInv, ChainOK
    <2>2. ASSUME NEW x \in host'
          PROVE  \E k \in 0..(keep - 1) : arenas'[k].type = OWNED /\ x = arenas'[k].data
      <3>1. PICK k \in 0..(count - 1) : arenas[k].type = OWNED /\ x = arenas[k].data
        BY <1>1, <2>1
      <3>2. k \notin keep..(count - 1)
        BY <1>1, <3>1 DEF owned_from
      <3> QED BY <1>3, <3>1, <3>2
    <2>3. ASSUME NEW k \in 0..(keep - 1), arenas'[k].type = OWNED
          PROVE  arenas'[k].data \in host'
      <3>1. arenas[k].data \in host
        BY <1>3, <2>1, <2>3
      <3>2. arenas[k].data \notin owned_from(keep)
        BY <1>3, <2>1 DEF owned_from
      <3> QED BY <1>1, <1>3, <3>1, <3>2
    <2> QED BY <2>2, <2>3
  <1>5. ChainOK(arenas', count', host')
    <2>1. arenas' \in [0..(keep - 1) -> Arenas]
      BY <1>1, <1>3
    <2>2. /\ \A i \in 0..(keep - 1) : arenas'[i].last_index <= arenas'[i].capacity
          /\ \A i \in 0..(keep - 1) : arenas'[i].type = OWNED <=> arenas'[i].data \in HostBlocks
          /\ \A i, j \in 0..(keep - 1) : i # j => arenas'[i].data # arenas'[j].data
      BY <1>3 DEF IInv, ChainOK
    <2> QED BY <1>1, <1>3, <1>4, <2>1, <2>2 DEF ChainOK
  <1>6. LiveOK(arenas', count', live')
    <2>1. ASSUME NEW b \in live
          PROVE  \E i \in 0..(keep - 1) :
                   arenas'[i].data = b.data /\ b.off + Reserved(b) <= arenas'[i].last_index
      <3>1. PICK i \in 0..(count - 1) :
              arenas[i].data = b.data /\ b.off + Reserved(b) <= arenas[i].last_index
        BY DEF IInv, LiveOK
      <3>2. b.off \in Nat /\ Reserved(b) \in Nat \ {0}
        BY ReservedLemma DEF IInv, LiveOK, Blocks, Multiples
      <3>3. arenas[i].last_index # 0
        BY <3>1, <3>2
      <3> QED BY <1>1, <1>3, <3>1, <3>3
    <2> QED BY <1>1, <1>2, <2>1 DEF IInv, LiveOK
  <1>7. ShapeOK(arenas', count')
    <2>1. options # NULL => options.arena_max_count \in Nat
      BY DEF IInv, OptionsOK, Options
    <2> QED BY <1>1, <1>3, <2>1 DEF IInv, ShapeOK
  <1>8. MarkerOK(arenas', count', first_open')
    BY <1>1, <1>3 DEF IInv, MarkerOK, shrunk_marker
  <1> QED BY <1>2, <1>5, <1>6, <1>7, <1>8, Assemble

-----------------------------------------------------------------------------
(* The theorems.                                                           *)

\* The invariant is inductive.
LEMMA Inductive == IInv /\ [Next]_vars => IInv'
  <1> SUFFICES ASSUME IInv, [Next]_vars PROVE IInv'
    OBVIOUS
  <1>1. CASE UNCHANGED vars
    BY <1>1, Assemble DEF vars, IInv
  <1>2. ASSUME NEW s \in Sizes, arnm_alloc(s) PROVE IInv'
    BY <1>2, RefuseStep, AllocStep DEF arnm_alloc, Results
  <1>3. ASSUME NEW s \in Sizes, arnm_realloc_null(s) PROVE IInv'
    BY <1>3, AllocStep DEF arnm_realloc_null, Results
  <1>4. CASE Next
    BY <1>2, <1>3, <1>4, CreateStep, ReserveStep, BorrowStep, FreeStep, ReallocStep,
       ResetStep, ReleaseStep, ShrinkStep DEF Next
  <1> QED BY <1>1, <1>4

\* And holds before the first call.
LEMMA Initial == Init => IInv
  BY WidthAssumption
  DEF Init, IInv, ChainOK, LiveOK, OptionsOK, ShapeOK, MarkerOK, NoArenas, Results

\* So it holds always.
LEMMA InvariantHolds == Spec => []IInv
  BY Initial, Inductive, PTL DEF Spec

\* The chain's types hold in every reachable state: indices inside arenas,
\* offsets multiples of 8, the marker inside the chain.
THEOREM TypeCorrect == Spec => []TypeOK
  <1>1. IInv => TypeOK
    <2> SUFFICES ASSUME IInv PROVE TypeOK
      OBVIOUS
    <2>1. options \in Options \cup {NULL}
      BY DEF IInv, OptionsOK
    <2>2. host \subseteq HostBlocks
      BY DEF IInv, ChainOK
    <2> QED BY <2>1, <2>2 DEF TypeOK, IInv, ChainOK, LiveOK, MarkerOK, Indices
  <1> QED BY <1>1, InvariantHolds, PTL

\* No two blocks of the client share a byte, for any number of arenas.
THEOREM Disjointness == Spec => []BlocksDisjoint
  <1>1. IInv => BlocksDisjoint
    BY DEF IInv, LiveOK, BlocksDisjoint
  <1> QED BY <1>1, InvariantHolds, PTL

\* Every block of the client is found in an arena of the chain.
THEOREM Ownership == Spec => []BlocksOwned
  <1>1. IInv => BlocksOwned
    BY DEF IInv, LiveOK, BlocksOwned, Indices
  <1> QED BY <1>1, InvariantHolds, PTL

\* No open arena is ever left behind first_open.
THEOREM MarkerSound == Spec => []NoOpenArenaBehindMarker
  <1>1. IInv => NoOpenArenaBehindMarker
    BY DEF IInv, MarkerOK, NoOpenArenaBehindMarker
  <1> QED BY <1>1, InvariantHolds, PTL

\* The host blocks held are exactly those of the owned arenas.
THEOREM HostConserved == Spec => []NoHostLeak
  <1>1. IInv => NoHostLeak
    BY DEF IInv, ChainOK, NoHostLeak, owned_from
  <1> QED BY <1>1, InvariantHolds, PTL

\* The ceiling holds for every chain, and no owned arena is written off at birth.
THEOREM OptionsHold == Spec => []OptionsRespected
  <1>1. IInv => OptionsRespected
    BY DEF IInv, ShapeOK, OptionsRespected, is_multi_arena, Indices
  <1> QED BY <1>1, InvariantHolds, PTL

-----------------------------------------------------------------------------
(* New ground is opened only when no open arena had room.                  *)

NoRoom(n) == \A i \in Indices : used_up(arenas[i]) \/ remaining_bytes(arenas[i]) < n

\* An outcome that lengthens the chain found nothing, on either side of the
\* marker, and its new arena holds the request and nothing else.
LEMMA OpenedNoRoom ==
  ASSUME IInv, NEW n \in Multiples \ {0}, NEW o \in multi_arena_alloc(n),
         o.count = count + 1
  PROVE  NoRoom(n) /\ o.arenas[count].last_index = n
  <1>1. count \in Nat /\ first_open \in 0..count /\ count + 1 # count
        /\ arenas \in [0..(count - 1) -> Arenas]
    BY DEF IInv, ChainOK, MarkerOK
  <1>2. o \notin served(n)
    BY <1>1 DEF served
  <1>3. open_with_room(n) = {}
    BY <1>2 DEF multi_arena_alloc
  <1>4. PICK d \in HostBlocks \ host : o = opened(d, n)
    BY <1>1, <1>2 DEF multi_arena_alloc, alloc_refused, push_refused
  <1>5. o.arenas[count].last_index = n
    <2>1. fresh_arena(d, n).last_index + n = n
      BY DEF fresh_arena, arnm_intern, Multiples
    <2>2. o.arenas = appended(bump(fresh_arena(d, n), n))
      BY <1>4 DEF opened
    <2>3. o.arenas[count] = bump(fresh_arena(d, n), n)
      BY <1>1, <2>2 DEF appended
    <2> QED BY <2>1, <2>3 DEF bump, fresh_arena, arnm_intern
  <1>6. ASSUME NEW i \in Indices
        PROVE  used_up(arenas[i]) \/ remaining_bytes(arenas[i]) < n
    <2>1. CASE i < first_open
      BY <1>1, <2>1 DEF IInv, MarkerOK, Indices
    <2>2. CASE ~(i < first_open)
      <3>1. i \in first_open..(count - 1)
        BY <1>1, <2>2 DEF Indices
      <3>2. remaining_bytes(arenas[i]) \in Int /\ n \in Int
        <4>1. arenas[i] \in Arenas
          BY <1>1 DEF Indices
        <4>2. arenas[i].capacity \in Int /\ arenas[i].last_index \in Int
          BY <4>1 DEF Arenas, Multiples
        <4> QED BY <4>2 DEF remaining_bytes, Multiples
      <3> QED BY <1>3, <3>1, <3>2 DEF open_with_room
    <2> QED BY <2>1, <2>2
  <1> QED BY <1>5, <1>6 DEF NoRoom

Opens == count' = count + 1 /\ arenas'[count].type = OWNED

\* A step that lengthens the chain by an owned arena is an allocation that found nothing.
LEMMA OpensStep ==
  ASSUME IInv, Next, Opens
  PROVE  NoRoom(arenas'[count].last_index)
  <1>1. count \in Nat /\ count' # count
    BY DEF IInv, ChainOK, Opens
  <1>2. ASSUME NEW size \in Sizes, NEW r, AllocBlock(size, r)
        PROVE  NoRoom(arenas'[count].last_index)
    <2>1. arnm_align8_u32(size) # 0
      BY <1>1, <1>2 DEF AllocBlock, Refuse
    <2>2. arnm_align8_u32(size) \in Multiples \ {0}
      BY <2>1, AlignLemma, ChainAssumption
    <2> QED BY <1>1, <1>2, <2>2, OpenedNoRoom DEF AllocBlock, Refuse, Opens
  <1>3. ASSUME NEW b \in live \cup Foreign, arnm_free(b)
        PROVE  FALSE
    BY <1>1, <1>3 DEF arnm_free, Refuse, chain
  <1>4. ASSUME NEW b \in live \cup Foreign, NEW size \in Sizes, arnm_realloc(b, size)
        PROVE  NoRoom(arenas'[count].last_index)
    <2> DEFINE i == multi_arena_find_owner(b)
               old == Reserved(b)
               new == arnm_align8_u32(size)
    <2>1. /\ new # 0 /\ owners(b) # {}
          /\ \/ realloc_moved(b, size, i, old, new)
             \/ new > old /\ realloc_buried(b, size, i, old, new)
      BY <1>1, <1>4 DEF arnm_realloc, realloc_in_place, realloc_buried, Refuse, chain
    <2>2. new \in Multiples \ {0}
      BY <2>1, AlignLemma, ChainAssumption
    <2>3. b \in live
      BY <2>1, ForeignLemma
    <2>4. i \in 0..(count - 1) /\ i # count
      BY <1>1, <2>3, OwnerLemma DEF Indices
    <2>5. CASE realloc_moved(b, size, i, old, new)
      <3>1. PICK o \in multi_arena_alloc(new), j \in first_open..count :
              /\ count' = o.count
              /\ IF o.result = SUCCESS
                 THEN hand_back(o.arenas, i, old, j)
                 ELSE arenas' = o.arenas
        BY <2>5 DEF realloc_moved
      <3>2. NoRoom(new) /\ o.arenas[count].last_index = new
        BY <2>2, <3>1, OpenedNoRoom DEF Opens
      <3>3. CASE o.result # SUCCESS
        BY <3>1, <3>2, <3>3
      <3>4. CASE o.result = SUCCESS
        <4>1. arenas' = [o.arenas EXCEPT ![i] = bump(o.arenas[i], -old)]
          BY <3>1, <3>4 DEF hand_back
        <4>2. count \in DOMAIN o.arenas
          <5>1. PICK d \in HostBlocks \ host : o = opened(d, new)
            BY <1>1, <3>1 DEF multi_arena_alloc, alloc_refused, push_refused, served, Opens
          <5> QED BY <1>1, <5>1 DEF opened, appended
        <4>3. arenas'[count] = o.arenas[count]
          <5> HIDE DEF i, old
          <5> QED BY <2>4, <4>1, <4>2
        <4> QED BY <3>2, <4>3
      <3> QED BY <3>3, <3>4
    <2>6. CASE new > old /\ realloc_buried(b, size, i, old, new)
      <3>0. ~(new <= old)
        <4>1. old \in Nat /\ new \in Nat
          BY <2>2, <2>3, ReservedLemma DEF IInv, LiveOK, Multiples
        <4> HIDE DEF old, new
        <4> QED BY <2>6, <4>1
      <3>1. PICK o \in multi_arena_alloc(new) : count' = o.count /\ arenas' = o.arenas
        BY <2>6, <3>0 DEF realloc_buried
      <3> QED BY <2>2, <3>1, OpenedNoRoom DEF Opens
    <2> QED BY <2>1, <2>5, <2>6
  <1>5. ASSUME NEW d \in Blobs, NEW cap \in Capacities, arnm_multi_arena_borrow(d, cap)
        PROVE  FALSE
    <2>1. arenas' = appended(arnm_intern(EXTERNAL, d, cap))
      BY <1>1, <1>5 DEF arnm_multi_arena_borrow, Refuse
    <2>2. arenas'[count].type = EXTERNAL
      BY <1>1, <2>1 DEF appended, arnm_intern
    <2> QED BY <2>2 DEF Opens, OWNED, EXTERNAL
  <1>6. ASSUME NEW o \in OptionSets, arnm_create_multi_arena(o) PROVE FALSE
    <2>1. count = 0
      BY <1>6 DEF arnm_create_multi_arena, is_multi_arena, IInv, ShapeOK
    <2> QED BY <1>1, <1>6, <2>1 DEF arnm_create_multi_arena, Refuse
  <1>7. ASSUME NEW n, arnm_multi_arena_reserve(n) PROVE FALSE
    BY <1>1, <1>7 DEF arnm_multi_arena_reserve, Refuse
  <1>8. CASE arnm_multi_arena_shrink
    BY <1>1, <1>8 DEF arnm_multi_arena_shrink, Opens
  <1>9. CASE arnm_reset \/ arnm_release \/ arnm_destroy
    BY <1>1, <1>9 DEF arnm_reset, arnm_release, arnm_destroy, Opens
  <1>10. ASSUME NEW s \in Sizes, arnm_alloc(s) \/ arnm_realloc_null(s)
         PROVE  NoRoom(arenas'[count].last_index)
    BY <1>1, <1>2, <1>10 DEF arnm_alloc, arnm_realloc_null, Refuse
  <1> QED BY <1>3, <1>4, <1>5, <1>6, <1>7, <1>8, <1>9, <1>10 DEF Next

\* The chain asks the host for new ground only when no open arena of the
\* chain, wherever the marker stands, had room for the request.
THEOREM OpensLast == Spec => OpensOnlyWhenFull
  <1>1. IInv /\ [Next]_vars =>
          [count' = count + 1 /\ arenas'[count].type = OWNED
           => \A i \in Indices : used_up(arenas[i])
                \/ remaining_bytes(arenas[i]) < arenas'[count].last_index]_vars
    BY OpensStep DEF NoRoom, Opens
  <1> QED BY <1>1, InvariantHolds, PTL DEF Spec, OpensOnlyWhenFull

-----------------------------------------------------------------------------
(* The compressed sets.                                                    *)

-----------------------------------------------------------------------------
(* Division: a number is a word and a place in it, in the order of the two. *)

\* A number is made up of its word and its place in it.
LEMMA Quotient ==
  ASSUME NEW w \in Nat \ {0}, NEW a \in Nat
  PROVE  /\ a \div w \in Nat /\ a % w \in 0..(w - 1)
         /\ a = (a \div w) * w + (a % w)
  OBVIOUS

\* A word before another ends before it.
LEMMA WordsApart ==
  ASSUME NEW w \in Nat \ {0}, NEW j \in Nat, NEW k \in Nat, j < k
  PROVE  j * w + w <= k * w
  <1>1. k - j - 1 \in Nat
    OBVIOUS
  <1>2. (k - j - 1) * w \in Nat
    BY <1>1
  <1>3. (k - j - 1) * w = k * w - j * w - w
    OBVIOUS
  <1>4. j * w \in Int /\ k * w \in Int
    OBVIOUS
  <1> QED BY <1>2, <1>3, <1>4

\* And is put together from them.
LEMMA QuotientOf ==
  ASSUME NEW w \in Nat \ {0}, NEW k \in Nat, NEW l \in 0..(w - 1)
  PROVE  (k * w + l) \div w = k /\ (k * w + l) % w = l
  <1> DEFINE a == k * w + l
             q == a \div w
             m == a % w
  <1>1. a \in Nat
    BY k * w \in Nat
  <1>2. q \in Nat /\ m \in 0..(w - 1) /\ a = q * w + m
    BY <1>1, Quotient
  <1>3. k * w \in Int /\ q * w \in Int
    BY <1>2
  <1>4. a = k * w + l
    OBVIOUS
  <1> HIDE DEF a, q, m
  <1>5. ~(q < k)
    <2>1. SUFFICES ASSUME q < k PROVE FALSE
      OBVIOUS
    <2>2. q * w + w <= k * w
      BY <1>2, <2>1, WordsApart
    <2> QED BY <1>2, <1>3, <1>4, <2>2
  <1>6. ~(k < q)
    <2>1. SUFFICES ASSUME k < q PROVE FALSE
      OBVIOUS
    <2>2. k * w + w <= q * w
      BY <1>2, <2>1, WordsApart
    <2> QED BY <1>2, <1>3, <1>4, <2>2
  <1>7. q = k
    BY <1>2, <1>5, <1>6
  <1>8. m = l
    BY <1>2, <1>3, <1>4, <1>7
  <1> QED BY <1>7, <1>8 DEF q, m, a

\* Numbers are in the order of their words and, within one, of their places.
LEMMA WordOrder ==
  ASSUME NEW w \in Nat \ {0}, NEW a \in Nat, NEW b \in Nat
  PROVE  a <= b <=> \/ a \div w < b \div w
                    \/ a \div w = b \div w /\ a % w <= b % w
  <1> DEFINE q == a \div w
             m == a % w
             r == b \div w
             n == b % w
  <1>1. /\ q \in Nat /\ m \in 0..(w - 1) /\ a = q * w + m
        /\ r \in Nat /\ n \in 0..(w - 1) /\ b = r * w + n
    BY Quotient
  <1> HIDE DEF q, m, r, n
  <1>2. q * w \in Int /\ r * w \in Int
    BY <1>1
  <1>3. CASE q < r
    <2>1. q * w + w <= r * w
      BY <1>1, <1>3, WordsApart
    <2> QED BY <1>1, <1>2, <1>3, <2>1 DEF q, m, r, n
  <1>4. CASE r < q
    <2>1. r * w + w <= q * w
      BY <1>1, <1>4, WordsApart
    <2> QED BY <1>1, <1>2, <1>4, <2>1 DEF q, m, r, n
  <1>5. CASE q = r
    BY <1>1, <1>2, <1>5 DEF q, m, r, n
  <1> QED BY <1>1, <1>3, <1>4, <1>5

-----------------------------------------------------------------------------
(* A finite set of numbers in order.                                       *)

\* How many members come before x.
Before(S, x) == Cardinality({y \in S : y < x})

\* A finite set of numbers has a largest.
LEMMA FiniteMax ==
  ASSUME NEW S \in SUBSET Nat, IsFiniteSet(S), S # {}
  PROVE  \E m \in S : \A x \in S : x <= m
  <1> DEFINE Q(T) == T # {} => \E m \in T : \A x \in T : x <= m
             P == {T \in SUBSET S : Q(T)}
  <1>1. {} \in P
    OBVIOUS
  <1>2. ASSUME NEW T \in P, NEW x \in S \ T PROVE T \cup {x} \in P
    <2>1. T \in SUBSET S /\ Q(T) /\ T \cup {x} \in SUBSET S
      BY <1>2
    <2>2. CASE T = {}
      BY <2>1, <2>2
    <2>3. CASE T # {}
      <3>1. PICK m \in T : \A y \in T : y <= m
        BY <2>1, <2>3
      <3>2. m \in Nat /\ x \in Nat /\ \A y \in T : y \in Nat
        BY <2>1, <3>1
      <3>3. CASE m <= x
        <4>1. \A y \in T \cup {x} : y <= x
          BY <3>1, <3>2, <3>3
        <4> QED BY <2>1, <4>1
      <3>4. CASE x <= m
        <4>1. \A y \in T \cup {x} : y <= m
          BY <3>1, <3>2, <3>4
        <4>2. m \in T \cup {x}
          BY <3>1
        <4> QED BY <2>1, <4>1, <4>2
      <3> QED BY <3>2, <3>3, <3>4
    <2> QED BY <2>2, <2>3
  <1>3. P = SUBSET S
    <2>1. P \in SUBSET SUBSET S
      OBVIOUS
    <2> HIDE DEF P
    <2> QED BY <1>1, <1>2, <2>1, FiniteSetInduction
  <1>4. S \in P
    <2> HIDE DEF P
    <2> QED BY <1>3
  <1> QED BY <1>4

\* The least of some numbers.
LEMMA LeastOf ==
  ASSUME NEW n \in Nat, NEW S \in SUBSET (0..n), S # {}
  PROVE  Min(S) \in S /\ \A y \in S : Min(S) <= y
  <1> DEFINE R == {ss \in Nat \X Nat : ss[1] < ss[2]}
  <1>1. PICK x \in S : \A y \in Nat : <<y, x>> \in R => y \notin S
    <2>1. S \in SUBSET Nat
      OBVIOUS
    <2> HIDE DEF R
    <2> QED BY <2>1, NatWF, WFMin DEF R
  <1>2. ASSUME NEW y \in S PROVE x <= y
    <2>1. y \in Nat /\ x \in Nat
      OBVIOUS
    <2>2. y < x => <<y, x>> \in R
      BY <2>1
    <2> QED BY <1>1, <2>1, <2>2
  <1> QED BY <1>2 DEF Min

\* Each member has as many before it as the others before it, and one more.
LEMMA BeforeGrows ==
  ASSUME NEW S \in SUBSET Nat, IsFiniteSet(S)
  PROVE  /\ \A x \in S : Before(S, x) \in 0..(Cardinality(S) - 1)
         /\ \A x, y \in S : x < y => Before(S, x) < Before(S, y)
  <1> DEFINE B(x) == {z \in S : z < x}
  <1>1. ASSUME NEW x \in S
        PROVE  /\ IsFiniteSet(B(x)) /\ IsFiniteSet(B(x) \cup {x})
               /\ Cardinality(B(x) \cup {x}) = Cardinality(B(x)) + 1
               /\ Cardinality(B(x)) \in Nat
    <2>1. B(x) \subseteq S /\ x \notin B(x)
      OBVIOUS
    <2> HIDE DEF B
    <2> QED BY <2>1, FS_Subset, FS_AddElement, FS_CardinalityType
  <1>2. ASSUME NEW x \in S PROVE Cardinality(B(x)) \in 0..(Cardinality(S) - 1)
    <2>1. B(x) \cup {x} \subseteq S
      OBVIOUS
    <2> HIDE DEF B
    <2>2. Cardinality(B(x) \cup {x}) <= Cardinality(S) /\ Cardinality(S) \in Nat
      BY <2>1, FS_Subset, FS_CardinalityType
    <2> QED BY <1>1, <2>2
  <1>3. ASSUME NEW x \in S, NEW y \in S, x < y PROVE Cardinality(B(x)) < Cardinality(B(y))
    <2>1. B(x) \cup {x} \subseteq B(y)
      <3>1. \A z \in S : z \in Nat
        OBVIOUS
      <3>2. \A z \in S : z < x => z < y
        BY <1>3, <3>1
      <3> QED BY <1>3, <3>2
    <2> HIDE DEF B
    <2>2. IsFiniteSet(B(y)) /\ Cardinality(B(y)) \in Nat
      BY <1>1
    <2>3. Cardinality(B(x) \cup {x}) <= Cardinality(B(y))
      BY <2>1, <2>2, FS_Subset
    <2>4. Cardinality(B(x) \cup {x}) = Cardinality(B(x)) + 1 /\ Cardinality(B(x)) \in Nat
      BY <1>1
    <2> QED BY <2>2, <2>3, <2>4
  <1> HIDE DEF B
  <1> QED BY <1>2, <1>3 DEF Before, B

\* Every number of members is before some member.
LEMMA BeforeReaches ==
  ASSUME NEW S \in SUBSET Nat, IsFiniteSet(S)
  PROVE  \A i \in 1..Cardinality(S) : \E x \in S : Before(S, x) = i - 1
  <1> DEFINE Q(n) == \A T \in SUBSET S : Cardinality(T) = n =>
                       \A i \in 1..n : \E x \in T : Before(T, x) = i - 1
             P == {n \in Nat : Q(n)}
  <1>1. 0 \in P
    OBVIOUS
  <1>2. ASSUME NEW n \in P PROVE n + 1 \in P
    <2>1. n \in Nat /\ Q(n) /\ n + 1 \in Nat
      BY <1>2
    <2>2. ASSUME NEW T \in SUBSET S, Cardinality(T) = n + 1, NEW i \in 1..(n + 1)
          PROVE  \E x \in T : Before(T, x) = i - 1
      <3>1. IsFiniteSet(T) /\ T \in SUBSET Nat
        BY FS_Subset
      <3>2. T # {}
        BY <2>1, <2>2, FS_EmptySet
      <3>3. PICK m \in T : \A x \in T : x <= m
        BY <3>1, <3>2, FiniteMax
      <3> DEFINE U == T \ {m}
      <3>4. U \in SUBSET S /\ IsFiniteSet(U) /\ Cardinality(U) = n
        <4>1. IsFiniteSet(U) /\ Cardinality(U) = Cardinality(T) - 1
          BY <3>1, <3>3, FS_RemoveElement
        <4> QED BY <2>1, <2>2, <4>1
      <3>5. {y \in T : y < m} = U
        <4>1. \A y \in T : y \in Nat /\ m \in Nat
          BY <3>1
        <4>2. \A y \in T : y < m <=> y # m
          BY <3>3, <4>1
        <4> QED BY <4>2
      <3>6. CASE i = n + 1
        <4>1. Before(T, m) = n
          BY <3>4, <3>5 DEF Before
        <4> QED BY <2>1, <3>6, <4>1
      <3>7. CASE i # n + 1
        <4>1. i \in 1..n
          BY <2>1, <3>7
        <4>2. PICK x \in U : Before(U, x) = i - 1
          BY <2>1, <3>4, <4>1
        <4>3. {y \in T : y < x} = {y \in U : y < x}
          <5>1. x <= m /\ x \in Nat /\ m \in Nat
            BY <3>1, <3>3
          <5>2. ~(m < x)
            BY <5>1
          <5> QED BY <5>2
        <4>4. Before(T, x) = i - 1
          BY <4>2, <4>3 DEF Before
        <4> QED BY <4>4
      <3> QED BY <3>6, <3>7
    <2>3. Q(n + 1)
      BY <2>2
    <2> HIDE DEF Q
    <2> QED BY <2>1, <2>3
  <1>3. P = Nat
    <2> HIDE DEF P
    <2> QED BY <1>1, <1>2, NatSetInduction, P \in SUBSET Nat DEF P
  <1>4. Q(Cardinality(S)) /\ S \in SUBSET S
    <2>1. Cardinality(S) \in Nat
      BY FS_CardinalityType
    <2> HIDE DEF Q
    <2> QED BY <1>3, <2>1
  <1> QED BY <1>4

\* Numbers one after the other, each larger.
Ascends(s) ==
  /\ s \in Seq(Nat)
  /\ \A i, j \in 1..Len(s) : i < j => s[i] < s[j]

\* The members of a set in order (ascending), each once.
LEMMA AscendingIs ==
  ASSUME NEW S \in SUBSET Nat, IsFiniteSet(S)
  PROVE  /\ Ascends(ascending(S)) /\ ascending(S) \in Seq(S)
         /\ Len(ascending(S)) = Cardinality(S) /\ Cardinality(S) \in Nat
         /\ ToSet(ascending(S)) = S
  <1> DEFINE n == Cardinality(S)
             s == ascending(S)
  <1>1. n \in Nat
    BY FS_CardinalityType
  <1>2. s = [i \in 1..n |-> CHOOSE x \in S : Before(S, x) = i - 1]
    BY DEF ascending, Before
  <1>3. ASSUME NEW i \in 1..n PROVE s[i] \in S /\ Before(S, s[i]) = i - 1
    <2>1. \E x \in S : Before(S, x) = i - 1
      BY BeforeReaches
    <2>2. s[i] = CHOOSE x \in S : Before(S, x) = i - 1
      BY <1>2
    <2> HIDE DEF s
    <2> QED BY <2>1, <2>2
  <1> HIDE DEF s
  <1>4. s \in Seq(S) /\ Len(s) = n /\ DOMAIN s = 1..n
    BY <1>1, <1>2, <1>3
  <1>5. ASSUME NEW i \in 1..n, NEW j \in 1..n, i < j PROVE s[i] < s[j]
    <2>1. s[i] \in S /\ s[j] \in S /\ Before(S, s[i]) = i - 1 /\ Before(S, s[j]) = j - 1
      BY <1>3
    <2>2. s[j] < s[i] => j - 1 < i - 1
      BY <2>1, BeforeGrows
    <2>3. s[i] = s[j] => i - 1 = j - 1
      BY <2>1
    <2>6. s[i] \in Nat /\ s[j] \in Nat
      <3>1. \A x \in S : x \in Nat
        OBVIOUS
      <3> QED BY <2>1, <3>1, Zenon
    <2>7. i \in Nat /\ j \in Nat
      BY <1>1
    <2>4. i \in Nat /\ j \in Nat /\ s[i] \in Nat /\ s[j] \in Nat
      BY <2>6, <2>7
    <2>5. ~(s[j] < s[i]) /\ s[i] # s[j]
      BY <1>5, <2>2, <2>3, <2>4
    <2> QED BY <2>4, <2>5
  <1>6. ASSUME NEW x \in S PROVE \E i \in 1..n : s[i] = x
    <2> DEFINE i == Before(S, x) + 1
    <2>1. Before(S, x) \in 0..(n - 1)
      BY BeforeGrows
    <2>2. i \in 1..n /\ i - 1 = Before(S, x)
      BY <1>1, <2>1
    <2>3. s[i] \in S /\ Before(S, s[i]) = Before(S, x)
      BY <1>3, <2>2
    <2>4. s[i] \in Nat /\ x \in Nat
      BY <2>3
    <2>5. ~(s[i] < x) /\ ~(x < s[i])
      <3>1. Before(S, x) \in Int /\ ~(Before(S, x) < Before(S, x))
        BY <1>1, <2>1
      <3>2. \A y, z \in S : y < z => Before(S, y) < Before(S, z)
        BY BeforeGrows
      <3> HIDE DEF i
      <3> QED BY <2>3, <3>1, <3>2
    <2>6. s[i] = x
      BY <2>4, <2>5
    <2> QED BY <2>2, <2>6
  <1>7. s \in Seq(Nat)
    <2>1. \A i \in 1..n : s[i] \in Nat
      BY <1>3
    <2> QED BY <1>4, <2>1
  <1>8. Ascends(s)
    BY <1>4, <1>5, <1>7 DEF Ascends
  <1>9. ToSet(s) = S
    BY <1>3, <1>4, <1>6 DEF ToSet
  <1> QED BY <1>1, <1>4, <1>8, <1>9 DEF s

\* What ascends and holds the same numbers is the same.
LEMMA AscendsCounts ==
  ASSUME NEW s, Ascends(s)
  PROVE  /\ Cardinality(ToSet(s)) = Len(s) /\ IsFiniteSet(ToSet(s)) /\ Len(s) \in Nat
         /\ ToSet(s) \in SUBSET Nat
         /\ \A i, j \in 1..Len(s) : s[i] < s[j] <=> i < j
         /\ \A i, j \in 1..Len(s) : s[i] = s[j] => i = j
         /\ Len(s) > 0 => Last(s) \in ToSet(s) /\ \A v \in ToSet(s) : v <= Last(s)
  <1> DEFINE n == Len(s)
  <1>1. n \in Nat /\ s \in [1..n -> Nat] /\ DOMAIN s = 1..n
    BY DEF Ascends
  <1>2. \A i, j \in 1..n : i < j => s[i] < s[j]
    BY DEF Ascends
  <1> HIDE DEF n
  <1>3. ASSUME NEW i \in 1..n, NEW j \in 1..n PROVE s[i] < s[j] <=> i < j
    <2>1. i \in Nat /\ j \in Nat /\ s[i] \in Nat /\ s[j] \in Nat
      BY <1>1
    <2>2. i < j => s[i] < s[j]
      BY <1>2
    <2>3. j < i => s[j] < s[i]
      BY <1>2
    <2> QED BY <2>1, <2>2, <2>3
  <1>4. ASSUME NEW i \in 1..n, NEW j \in 1..n, s[i] = s[j] PROVE i = j
    <2>1. i \in Nat /\ j \in Nat /\ s[i] \in Nat
      BY <1>1
    <2>2. ~(i < j) /\ ~(j < i)
      BY <1>3, <1>4, <2>1
    <2> QED BY <2>1, <2>2
  <1>5. Cardinality(ToSet(s)) = n /\ IsFiniteSet(ToSet(s))
    <2> DEFINE T == ToSet(s)
    <2>1. T = {s[i] : i \in 1..n}
      BY <1>1 DEF ToSet
    <2>2. s \in Bijection(1..n, T)
      <3>1. s \in [1..n -> T] /\ \A x \in T : \E i \in 1..n : s[i] = x
        BY <1>1, <2>1
      <3> QED BY <1>4, <3>1, Zenon DEF Bijection, Injection, Surjection, IsInjective
    <2>3. IsFiniteSet(1..n) /\ Cardinality(1..n) = n
      BY <1>1, FS_Interval, 1 \in Int, n \in Int
    <2>4. ExistsBijection(1..n, T)
      BY <2>2 DEF ExistsBijection
    <2> HIDE DEF T
    <2> QED BY <2>3, <2>4, FS_Bijection DEF T
  <1>6. ToSet(s) \in SUBSET Nat
    BY <1>1 DEF ToSet
  <1>7. n > 0 => s[n] \in ToSet(s) /\ \A v \in ToSet(s) : v <= s[n]
    <2>1. SUFFICES ASSUME n > 0 PROVE s[n] \in ToSet(s) /\ \A v \in ToSet(s) : v <= s[n]
      OBVIOUS
    <2>2. n \in 1..n
      BY <1>1, <2>1
    <2>3. ASSUME NEW i \in 1..n PROVE s[i] <= s[n]
      <3>1. i < n \/ i = n
        BY <1>1
      <3>2. s[i] \in Nat /\ s[n] \in Nat
        BY <1>1, <2>2
      <3>3. i < n => s[i] < s[n]
        BY <1>2, <2>2
      <3> QED BY <3>1, <3>2, <3>3
    <2>4. s[n] \in ToSet(s)
      BY <1>1, <2>2 DEF ToSet
    <2>5. \A v \in ToSet(s) : \E i \in 1..n : v = s[i]
      BY <1>1 DEF ToSet
    <2> QED BY <2>3, <2>4, <2>5
  <1> QED BY <1>1, <1>3, <1>4, <1>5, <1>6, <1>7 DEF n, Last

\* t is what stands at the places P of array, in their order.
IsPicked(t, array, P) ==
  \E order \in [1..Cardinality(P) -> P] :
     /\ t = [i \in 1..Cardinality(P) |-> array[order[i]]]
     /\ \A i, j \in 1..Cardinality(P) : i < j => order[i] < order[j]
     /\ \A p \in P : \E i \in 1..Cardinality(P) : order[i] = p

\* A scan keeps what stands at some places, in order.
LEMMA AtPlacesIs ==
  ASSUME NEW n \in Nat, NEW P \in SUBSET (1..n), NEW array
  PROVE  /\ IsFiniteSet(P) /\ Cardinality(P) \in 0..n
         /\ IsPicked(at_places(array, P), array, P)
  <1>1. IsFiniteSet(P) /\ Cardinality(P) <= n
    <2>1. IsFiniteSet(1..n) /\ Cardinality(1..n) = n
      BY FS_Interval, 1 \in Int, n \in Int
    <2> QED BY <2>1, FS_Subset
  <1>2. P \in SUBSET Nat
    OBVIOUS
  <1> DEFINE order == ascending(P)
             m == Cardinality(P)
  <1>3. Ascends(order) /\ order \in Seq(P) /\ Len(order) = m /\ m \in Nat /\ ToSet(order) = P
    BY <1>1, <1>2, AscendingIs
  <1>4. at_places(array, P) = [i \in 1..m |-> array[order[i]]]
    BY DEF at_places
  <1> HIDE DEF order, m
  <1>5. order \in [1..m -> P] /\ DOMAIN order = 1..m
    BY <1>3
  <1>6. \A i, j \in 1..m : i < j => order[i] < order[j]
    BY <1>3 DEF Ascends
  <1>7. \A p \in P : \E i \in 1..m : order[i] = p
    BY <1>3, <1>5 DEF ToSet
  <1>8. IsPicked(at_places(array, P), array, P)
    BY <1>4, <1>5, <1>6, <1>7 DEF m, IsPicked
  <1> QED BY <1>1, <1>3, <1>8 DEF m

\* Of what ascends, it ascends.
LEMMA SiftedAscends ==
  ASSUME NEW s, Ascends(s), NEW P \in SUBSET DOMAIN s
  PROVE  /\ Ascends(at_places(s, P)) /\ Len(at_places(s, P)) <= Len(s)
         /\ ToSet(at_places(s, P)) = {s[i] : i \in P}
         /\ Len(at_places(s, P)) = Cardinality(P)
  <1> DEFINE n == Len(s)
             m == Cardinality(P)
             t == at_places(s, P)
  <1>1. n \in Nat /\ s \in [1..n -> Nat] /\ P \in SUBSET (1..n)
    BY DEF Ascends
  <1>2. \A i, j \in 1..n : i < j => s[i] < s[j]
    BY DEF Ascends
  <1> HIDE DEF n
  <1>3. m \in 0..n /\ IsPicked(t, s, P)
    BY <1>1, AtPlacesIs
  <1> HIDE DEF t, m
  <1>4. PICK order \in [1..m -> P] :
              /\ t = [i \in 1..m |-> s[order[i]]]
              /\ \A i, j \in 1..m : i < j => order[i] < order[j]
              /\ \A p \in P : \E i \in 1..m : order[i] = p
    BY <1>3 DEF IsPicked, m
  <1>5. m \in Nat /\ m <= n
    BY <1>1, <1>3
  <1>6. \A i \in 1..m : order[i] \in 1..n /\ s[order[i]] \in Nat
    BY <1>1
  <1>7. t \in Seq(Nat) /\ Len(t) = m /\ DOMAIN t = 1..m
    BY <1>4, <1>5, <1>6
  <1>8. \A i, j \in 1..m : i < j => t[i] < t[j]
    BY <1>2, <1>4, <1>6
  <1>9. Ascends(t)
    BY <1>7, <1>8 DEF Ascends
  <1>10. ToSet(t) = {s[i] : i \in P}
    <2>1. ToSet(t) = {t[i] : i \in 1..m}
      BY <1>7 DEF ToSet
    <2>2. \A i \in 1..m : t[i] = s[order[i]] /\ order[i] \in P
      BY <1>4
    <2> QED BY <1>4, <2>1, <2>2
  <1> QED BY <1>5, <1>7, <1>9, <1>10 DEF t, m, n

\* Bounds of a search: all below one side, all not below on the other.
LEMMA BoundsAre ==
  ASSUME NEW s, Ascends(s), NEW v \in Nat
  PROVE  /\ lower_bound(s, v) \in 0..Len(s)
         /\ \A i \in 1..Len(s) : s[i] < v <=> i <= lower_bound(s, v)
         /\ upper_bound(s, v) \in 0..Len(s)
         /\ \A i \in 1..Len(s) : s[i] <= v <=> i <= upper_bound(s, v)
  <1> DEFINE n == Len(s)
             L == {i - 1 : i \in {j \in DOMAIN s : s[j] >= v}} \cup {n}
             U == {i - 1 : i \in {j \in DOMAIN s : s[j] > v}} \cup {n}
  <1>1. n \in Nat /\ s \in [1..n -> Nat] /\ DOMAIN s = 1..n
    BY DEF Ascends
  <1>2. \A i, j \in 1..n : s[i] < s[j] <=> i < j
    BY AscendsCounts
  <1>3. lower_bound(s, v) = Min(L) /\ upper_bound(s, v) = Min(U)
    BY DEF lower_bound, upper_bound
  <1> HIDE DEF n
  <1>4. L \in SUBSET (0..n) /\ U \in SUBSET (0..n) /\ n \in L /\ n \in U
    BY <1>1
  <1>5. Min(L) \in L /\ \A y \in L : Min(L) <= y
    BY <1>1, <1>4, LeastOf
  <1>6. Min(U) \in U /\ \A y \in U : Min(U) <= y
    BY <1>1, <1>4, LeastOf
  <1>7. ASSUME NEW i \in 1..n PROVE s[i] < v <=> i <= Min(L)
    <2>1. i \in Nat /\ s[i] \in Nat /\ Min(L) \in 0..n
      BY <1>1, <1>4, <1>5
    <2>2. s[i] >= v => i - 1 \in L
      BY <1>1
    <2>3. s[i] >= v => Min(L) <= i - 1
      BY <1>5, <2>2
    <2>4. ASSUME Min(L) < i PROVE s[i] >= v
      <3>1. Min(L) # n
        BY <1>1, <2>1, <2>4
      <3>2. PICK j \in DOMAIN s : s[j] >= v /\ Min(L) = j - 1
        BY <1>5, <3>1
      <3>3. j \in 1..n /\ s[j] \in Nat /\ j <= i
        BY <1>1, <2>1, <2>4, <3>2
      <3>4. j = i \/ s[j] < s[i]
        BY <1>2, <2>1, <3>3
      <3> QED BY <2>1, <3>2, <3>3, <3>4
    <2> HIDE DEF L
    <2> QED BY <2>1, <2>3, <2>4
  <1>8. ASSUME NEW i \in 1..n PROVE s[i] <= v <=> i <= Min(U)
    <2>1. i \in Nat /\ s[i] \in Nat /\ Min(U) \in 0..n
      BY <1>1, <1>4, <1>6
    <2>2. s[i] > v => i - 1 \in U
      BY <1>1
    <2>3. s[i] > v => Min(U) <= i - 1
      BY <1>6, <2>2
    <2>4. ASSUME Min(U) < i PROVE s[i] > v
      <3>1. Min(U) # n
        BY <1>1, <2>1, <2>4
      <3>2. PICK j \in DOMAIN s : s[j] > v /\ Min(U) = j - 1
        BY <1>6, <3>1
      <3>3. j \in 1..n /\ s[j] \in Nat /\ j <= i
        BY <1>1, <2>1, <2>4, <3>2
      <3>4. j = i \/ s[j] < s[i]
        BY <1>2, <2>1, <3>3
      <3> QED BY <2>1, <3>2, <3>3, <3>4
    <2> HIDE DEF U
    <2> QED BY <2>1, <2>3, <2>4
  <1>9. Min(L) \in 0..n /\ Min(U) \in 0..n
    BY <1>4, <1>5, <1>6
  <1> HIDE DEF L, U
  <1> QED BY <1>3, <1>7, <1>8, <1>9 DEF n

\* What lies in a range is a run of what ascends.
LEMMA BetweenAscends ==
  ASSUME NEW s, Ascends(s), NEW min \in Nat, NEW max \in Nat
  PROVE  /\ Ascends(between(s, min, max)) /\ Len(between(s, min, max)) <= Len(s)
         /\ ToSet(between(s, min, max)) = {v \in ToSet(s) : min <= v /\ v <= max}
  <1> DEFINE n == Len(s)
             lo == lower_bound(s, min)
             hi == upper_bound(s, max)
             t == between(s, min, max)
  <1>1. n \in Nat /\ s \in [1..n -> Nat] /\ DOMAIN s = 1..n /\ s \in Seq(Nat)
    BY DEF Ascends
  <1>2. \A i, j \in 1..n : i < j => s[i] < s[j]
    BY DEF Ascends
  <1>3. /\ lo \in 0..n /\ hi \in 0..n
        /\ \A i \in 1..n : s[i] < min <=> i <= lo
        /\ \A i \in 1..n : s[i] <= max <=> i <= hi
    BY BoundsAre
  <1>4. t = SubSeq(s, lo + 1, hi)
    BY DEF between
  <1> HIDE DEF n, lo, hi, t
  <1> DEFINE m == IF lo < hi THEN hi - lo ELSE 0
  <1>5. m \in Nat /\ m <= n /\ \A i \in 1..m : lo + i \in 1..n /\ lo + i <= hi
    BY <1>1, <1>3
  <1>6. t \in Seq(Nat) /\ Len(t) = m /\ \A i \in 1..m : t[i] = s[lo + i]
    <2>1. CASE lo < hi
      <3>1. lo + 1 \in 1..(n + 1) /\ hi \in lo..n /\ lo + 1 \in Nat /\ hi \in Nat
        BY <1>1, <1>3, <2>1
      <3> QED BY <1>1, <1>3, <1>4, <2>1, <3>1, SubSeqProperties
    <2>2. CASE ~(lo < hi)
      <3>1. lo + 1 > hi /\ lo + 1 \in Int /\ hi \in Int
        BY <1>1, <1>3, <2>2
      <3>2. t = << >>
        BY <1>1, <1>4, <3>1
      <3> QED BY <2>2, <3>2
    <2> QED BY <2>1, <2>2
  <1>7. DOMAIN t = 1..m
    BY <1>6
  <1> HIDE DEF m
  <1>8. ASSUME NEW i \in 1..m, NEW j \in 1..m, i < j PROVE t[i] < t[j]
    <2>1. lo + i \in 1..n /\ lo + j \in 1..n /\ lo + i < lo + j
      BY <1>1, <1>3, <1>5, <1>8
    <2> QED BY <1>2, <1>6, <2>1
  <1>9. Ascends(t)
    BY <1>6, <1>8 DEF Ascends
  <1>10. ASSUME NEW v PROVE v \in ToSet(t) <=> v \in ToSet(s) /\ min <= v /\ v <= max
    <2>1. v \in ToSet(t) <=> \E i \in 1..m : v = t[i]
      BY <1>7 DEF ToSet
    <2>2. v \in ToSet(s) <=> \E i \in 1..n : v = s[i]
      BY <1>1 DEF ToSet
    <2>3. ASSUME NEW i \in 1..m PROVE t[i] = s[lo + i] /\ lo + i \in 1..n /\ min <= t[i] /\ t[i] <= max
      <3>1. t[i] = s[lo + i] /\ lo + i \in 1..n /\ lo + i <= hi
        BY <1>5, <1>6
      <3>2. s[lo + i] <= max
        BY <1>3, <3>1
      <3>3. ~(lo + i <= lo)
        BY <1>3, <1>5
      <3>4. ~(s[lo + i] < min)
        BY <1>3, <3>1, <3>3
      <3>5. s[lo + i] \in Nat
        BY <1>1, <3>1
      <3> QED BY <3>1, <3>2, <3>4, <3>5
    <2>4. ASSUME NEW j \in 1..n, min <= s[j], s[j] <= max PROVE \E i \in 1..m : t[i] = s[j]
      <3>1. j <= hi /\ ~(j <= lo) /\ s[j] \in Nat
        BY <1>1, <1>3, <2>4
      <3>2. j - lo \in 1..m
        BY <1>1, <1>3, <3>1 DEF m
      <3>3. lo + (j - lo) = j
        BY <1>1, <1>3
      <3> QED BY <1>6, <3>2, <3>3
    <2> QED BY <2>1, <2>2, <2>3, <2>4
  <1> QED BY <1>5, <1>6, <1>9, <1>10 DEF t, n

\* A larger number behind what ascends.
LEMMA AppendAscends ==
  ASSUME NEW s, Ascends(s), NEW v \in Nat, \A u \in ToSet(s) : u < v
  PROVE  /\ Ascends(Append(s, v)) /\ Len(Append(s, v)) = Len(s) + 1
         /\ ToSet(Append(s, v)) = ToSet(s) \cup {v} /\ v \notin ToSet(s)
  <1> DEFINE n == Len(s)
             t == Append(s, v)
  <1>1. n \in Nat /\ s \in [1..n -> Nat] /\ DOMAIN s = 1..n /\ s \in Seq(Nat)
    BY DEF Ascends
  <1>2. \A i, j \in 1..n : i < j => s[i] < s[j]
    BY DEF Ascends
  <1>3. t \in Seq(Nat) /\ Len(t) = n + 1 /\ t[n + 1] = v /\ \A i \in 1..n : t[i] = s[i]
    BY <1>1
  <1>4. \A i \in 1..n : s[i] < v /\ s[i] \in Nat
    BY <1>1 DEF ToSet
  <1> HIDE DEF n, t
  <1>5. \A i \in 1..(n + 1) : i \in 1..n \/ i = n + 1
    BY <1>1
  <1>6. ASSUME NEW i \in 1..(n + 1), NEW j \in 1..(n + 1), i < j PROVE t[i] < t[j]
    <2>1. i \in 1..n
      BY <1>1, <1>6
    <2> QED BY <1>2, <1>3, <1>4, <1>5, <1>6, <2>1
  <1>7. Ascends(t)
    BY <1>3, <1>6 DEF Ascends
  <1>8. ToSet(t) = ToSet(s) \cup {v}
    <2>1. DOMAIN t = 1..(n + 1)
      BY <1>1, <1>3
    <2>2. \A i \in 1..n : i \in 1..(n + 1)
      BY <1>1
    <2>3. n + 1 \in 1..(n + 1)
      BY <1>1
    <2>4. ToSet(t) = {t[i] : i \in 1..(n + 1)} /\ ToSet(s) = {s[i] : i \in 1..n}
      BY <1>1, <2>1 DEF ToSet
    <2> QED BY <1>3, <1>5, <2>2, <2>3, <2>4
  <1>9. v \notin ToSet(s)
    <2>1. ~(v < v)
      OBVIOUS
    <2> QED BY <2>1
  <1> QED BY <1>3, <1>7, <1>8, <1>9 DEF t, n

-----------------------------------------------------------------------------
(* SizesAre and powers.                                                       *)

\* The sizes, in powers that the provers can count with.
LEMMA SizesAre ==
  /\ LOWS \in Nat \ {0} /\ WORD_BITS \in Nat \ {0} /\ ARRAY_MAX \in Nat \ {0}
  /\ SPARSE_MAX \in Nat \ {0} /\ LOW_SIZE \in Nat \ {0} /\ VALUE_SIZE \in Nat \ {0}
  /\ BITMAP_LOG2 \in 0..31 /\ FIRST_LOG2 \in 0..31 /\ LOG2_MAX \in 0..31
  /\ ENTRY_SIZE = Pow(FIRST_LOG2) /\ ENTRY_SIZE \in Nat \ {0}
  /\ LOW_SIZE <= ENTRY_SIZE /\ VALUE_SIZE <= ENTRY_SIZE
  /\ SPARSE_MAX < ARRAY_MAX /\ 2 * SPARSE_MAX <= ARRAY_MAX
  /\ ARRAY_MAX * LOW_SIZE = Pow(BITMAP_LOG2)
  /\ SPARSE_MAX * VALUE_SIZE <= Pow(BITMAP_LOG2)
  <1>1. /\ LOWS \in Nat \ {0} /\ WORD_BITS \in Nat \ {0} /\ ARRAY_MAX \in Nat \ {0}
        /\ SPARSE_MAX \in Nat \ {0} /\ LOW_SIZE \in Nat \ {0} /\ VALUE_SIZE \in Nat \ {0}
    BY RoaringAssumption
  <1>2. BITMAP_LOG2 \in 0..31 /\ FIRST_LOG2 \in 0..31 /\ LOG2_MAX \in 0..31
    BY RoaringAssumption
  <1>3. /\ ENTRY_SIZE = Pow(FIRST_LOG2)
        /\ LOW_SIZE <= ENTRY_SIZE /\ VALUE_SIZE <= ENTRY_SIZE
        /\ SPARSE_MAX < ARRAY_MAX /\ 2 * SPARSE_MAX <= ARRAY_MAX
        /\ ARRAY_MAX * LOW_SIZE = Pow(BITMAP_LOG2)
        /\ SPARSE_MAX * VALUE_SIZE <= Pow(BITMAP_LOG2)
    BY RoaringAssumption DEF Pow
  <1>4. FIRST_LOG2 \in 0..32
    BY <1>2
  <1>5. Pow(FIRST_LOG2) \in Nat \ {0}
    BY <1>4, PowersGrow
  <1> QED BY <1>1, <1>2, <1>3, <1>5

\* A power of two is above its exponent.
LEMMA PowersAbove == \A e \in 0..31 : e < Pow(e)
  <1> DEFINE P == {e \in Nat : e <= 31 => e < Pow(e)}
  <1>1. 0 \in P
    BY PowerStep
  <1>2. ASSUME NEW e \in P PROVE e + 1 \in P
    <2>1. e \in Nat /\ e + 1 \in Nat
      BY <1>2
    <2>2. SUFFICES ASSUME e + 1 <= 31 PROVE e + 1 < Pow(e + 1)
      BY <2>1
    <2>3. e \in 0..31 /\ e < Pow(e) /\ e \in 0..32
      BY <1>2, <2>1, <2>2
    <2>4. Pow(e) \in Nat \ {0} /\ Pow(e + 1) = 2 * Pow(e)
      BY <2>3, PowersGrow, PowerStep
    <2> QED BY <2>1, <2>3, <2>4
  <1>3. P = Nat
    <2>1. P \in SUBSET Nat
      OBVIOUS
    <2> HIDE DEF P
    <2> QED BY <1>1, <1>2, <2>1, NatSetInduction
  <1> QED BY <1>3

\* The smallest block for some bytes holds them.
LEMMA Log2Is ==
  ASSUME NEW bytes \in Nat \ {0}, bytes <= Pow(BITMAP_LOG2)
  PROVE  /\ log2_for_bytes(bytes) \in Nat /\ FIRST_LOG2 <= log2_for_bytes(bytes)
         /\ bytes <= Pow(log2_for_bytes(bytes))
  <1> DEFINE M == {k \in 0..31 : FIRST_LOG2 <= k /\ bytes <= Pow(k)}
             m == Min(M)
             top == IF FIRST_LOG2 <= BITMAP_LOG2 THEN BITMAP_LOG2 ELSE FIRST_LOG2
             Fits(e) == bytes <= 2^e /\ (e = FIRST_LOG2 \/ 2^(e - 1) < bytes)
             e == log2_for_bytes(bytes)
  <1>1. FIRST_LOG2 \in 0..31 /\ BITMAP_LOG2 \in 0..31 /\ FIRST_LOG2 \in 0..32 /\ BITMAP_LOG2 \in 0..32
    BY SizesAre
  <1>2. top \in M
    <2>1. Pow(FIRST_LOG2) \in Nat /\ Pow(BITMAP_LOG2) \in Nat
      BY <1>1, PowersGrow
    <2>2. CASE FIRST_LOG2 <= BITMAP_LOG2
      BY <1>1, <2>2
    <2>3. CASE ~(FIRST_LOG2 <= BITMAP_LOG2)
      <3>1. Pow(BITMAP_LOG2) < Pow(FIRST_LOG2)
        BY <1>1, <2>3, PowersGrow
      <3>2. bytes <= Pow(FIRST_LOG2)
        BY <2>1, <3>1
      <3> QED BY <1>1, <2>3, <3>2
    <2> QED BY <2>2, <2>3
  <1>3. m \in M /\ \A k \in M : m <= k
    <2>1. M \in SUBSET (0..31) /\ M # {} /\ 31 \in Nat
      BY <1>2
    <2> HIDE DEF M
    <2> QED BY <2>1, LeastOf
  <1> HIDE DEF m
  <1>4. m \in 0..31 /\ FIRST_LOG2 <= m /\ bytes <= Pow(m)
    BY <1>3
  <1>5. m = FIRST_LOG2 \/ Pow(m - 1) < bytes
    <2>1. SUFFICES ASSUME m # FIRST_LOG2 PROVE Pow(m - 1) < bytes
      OBVIOUS
    <2>2. m - 1 \in 0..31 /\ FIRST_LOG2 <= m - 1 /\ ~(m <= m - 1) /\ m - 1 \in 0..32
      BY <1>1, <1>4, <2>1
    <2>3. ~(bytes <= Pow(m - 1))
      BY <1>3, <2>2
    <2>4. Pow(m - 1) \in Nat
      BY <2>2, PowersGrow
    <2> QED BY <2>3, <2>4
  <1>6. m \in FIRST_LOG2..(FIRST_LOG2 + bytes)
    <2>1. CASE m = FIRST_LOG2
      BY <1>1, <2>1
    <2>2. CASE m # FIRST_LOG2
      <3>1. m - 1 \in 0..31 /\ m - 1 \in 0..32
        BY <1>1, <1>4, <2>2
      <3>2. m - 1 < Pow(m - 1) /\ Pow(m - 1) \in Nat
        BY <3>1, PowersAbove, PowersGrow
      <3> QED BY <1>1, <1>4, <1>5, <2>2, <3>1, <3>2
    <2> QED BY <2>1, <2>2
  <1>7. Fits(m)
    BY <1>4, <1>5 DEF Pow
  <1>8. e \in FIRST_LOG2..(FIRST_LOG2 + bytes) /\ Fits(e)
    BY <1>6, <1>7 DEF log2_for_bytes
  <1> HIDE DEF e
  <1>9. bytes <= Pow(e)
    BY <1>8 DEF Pow
  <1> HIDE DEF Fits
  <1>10. e \in Nat /\ FIRST_LOG2 <= e
    BY <1>1, <1>8
  <1> QED BY <1>9, <1>10 DEF e

\* Room for some elements of a block, and for one more in a block twice the size.
LEMMA RoomGrows ==
  ASSUME NEW e \in FIRST_LOG2..LOG2_MAX, NEW n \in Nat, NEW size \in Nat \ {0}, size <= ENTRY_SIZE,
         n * size <= Pow(e)
  PROVE  /\ n # 2^e \div size => (n + 1) * size <= Pow(e)
         /\ e + 1 \in Nat /\ (n + 1) * size <= Pow(e + 1)
         /\ size <= Pow(e)
  <1>1. e \in 0..31 /\ e \in 0..32 /\ FIRST_LOG2 \in 0..32 /\ e + 1 \in Nat
    BY SizesAre
  <1>2. Pow(e) \in Nat \ {0} /\ Pow(e + 1) = 2 * Pow(e) /\ Pow(FIRST_LOG2) \in Nat
    BY <1>1, PowersGrow, PowerStep
  <1>3. size <= Pow(e)
    <2>1. FIRST_LOG2 = e \/ FIRST_LOG2 < e
      BY <1>1
    <2>2. Pow(FIRST_LOG2) <= Pow(e)
      BY <1>1, <1>2, <2>1, PowersGrow
    <2>3. size <= Pow(FIRST_LOG2)
      BY SizesAre
    <2> HIDE DEF Pow
    <2> QED BY <1>2, <2>2, <2>3
  <1>4. (n + 1) * size = n * size + size /\ n * size \in Nat
    OBVIOUS
  <1>5. n # 2^e \div size => (n + 1) * size <= Pow(e)
    <2> DEFINE p == Pow(e)
               q == p \div size
               d == p % size
    <2>1. SUFFICES ASSUME n # q PROVE (n + 1) * size <= p
      BY DEF Pow
    <2>2. p \in Nat
      BY <1>2
    <2>3. q \in Nat /\ d \in 0..(size - 1) /\ p = q * size + d
      BY <2>2, Quotient
    <2> HIDE DEF p, q, d
    <2>4. q * size \in Nat
      BY <2>3
    <2>5. ~(q < n)
      <3>1. SUFFICES ASSUME q < n PROVE FALSE
        OBVIOUS
      <3>2. q * size + size <= n * size
        BY <2>3, <3>1, WordsApart
      <3>3. n * size <= p
        BY DEF p
      <3> QED BY <1>4, <2>3, <2>4, <3>2, <3>3
    <2>6. n < q
      BY <2>1, <2>3, <2>5
    <2>7. n * size + size <= q * size
      BY <2>3, <2>6, WordsApart
    <2> QED BY <1>4, <2>3, <2>4, <2>7
  <1>6. (n + 1) * size <= Pow(e + 1)
    BY <1>2, <1>3, <1>4
  <1> QED BY <1>1, <1>3, <1>5, <1>6

-----------------------------------------------------------------------------
(* Containers, sets, pools and steps.                                      *)

Kinds      == {ARRAY, BITMAP}
LowRecords == Seq(Nat) \cup SUBSET Nat

Containers ==
  [key : Nat, kind : Kinds, lows : LowRecords,
   cardinality : Nat, block_log2 : Nat]

SetRecords ==
  [block : BOOLEAN, values : Seq(Nat), containers : Seq(Containers),
   cardinality : Nat, maximum : Nat, directory_log2 : Nat]

PoolRecords == [lent : [0..LOG2_MAX -> Int], left : Int]

Steps == [set : SetRecords, pool : PoolRecords, result : {SUCCESS, EXHAUSTED, INVALID_PARAM}]

\* The parts of a step.
LEMMA StepParts ==
  \A s \in Steps : /\ s.set \in SetRecords /\ s.pool \in PoolRecords
                    /\ s.result \in {SUCCESS, EXHAUSTED, INVALID_PARAM}
  BY Zenon DEF Steps

\* A step that differs in the result, the pool or the set.
LEMMA StepWith ==
  ASSUME NEW s \in Steps
  PROVE  /\ \A r \in {SUCCESS, EXHAUSTED, INVALID_PARAM} :
              /\ [s EXCEPT !.result = r] \in Steps /\ [s EXCEPT !.result = r].result = r
              /\ [s EXCEPT !.result = r].set = s.set /\ [s EXCEPT !.result = r].pool = s.pool
         /\ \A p \in PoolRecords :
              /\ [s EXCEPT !.pool = p] \in Steps /\ [s EXCEPT !.pool = p].result = s.result
              /\ [s EXCEPT !.pool = p].set = s.set /\ [s EXCEPT !.pool = p].pool = p
         /\ \A x \in SetRecords :
              /\ [s EXCEPT !.set = x] \in Steps /\ [s EXCEPT !.set = x].result = s.result
              /\ [s EXCEPT !.set = x].set = x /\ [s EXCEPT !.set = x].pool = s.pool
         /\ \A x \in SetRecords, p \in PoolRecords :
              /\ [s EXCEPT !.set = x, !.pool = p] \in Steps
              /\ [s EXCEPT !.set = x, !.pool = p].result = s.result
              /\ [s EXCEPT !.set = x, !.pool = p].set = x /\ [s EXCEPT !.set = x, !.pool = p].pool = p
  BY Zenon DEF Steps

\* The parts of a step that is put together.
IsStep(t, block, values, containers, cardinality, maximum, log2, pool, answered) ==
  /\ t \in Steps /\ t.set.block = block /\ t.set.values = values
  /\ t.set.containers = containers /\ t.set.cardinality = cardinality
  /\ t.set.maximum = maximum /\ t.set.directory_log2 = log2
  /\ t.pool = pool /\ t.result = answered

\* The set in another block.
LEMMA StepMoved ==
  ASSUME NEW s \in Steps, NEW p \in PoolRecords, NEW l \in Nat
  PROVE  IsStep([s EXCEPT !.set.block = TRUE, !.set.directory_log2 = l, !.pool = p],
                TRUE, s.set.values, s.set.containers, s.set.cardinality, s.set.maximum, l, p, s.result)
  <1> DEFINE t == [s EXCEPT !.set.block = TRUE, !.set.directory_log2 = l, !.pool = p]
  <1>1. TRUE \in BOOLEAN
    OBVIOUS
  <1> QED BY <1>1, Zenon DEF Steps, SetRecords, IsStep

\* With other containers.
LEMMA StepPushed ==
  ASSUME NEW s \in Steps, NEW cs \in Seq(Containers)
  PROVE  IsStep([s EXCEPT !.set.containers = cs], s.set.block, s.set.values, cs,
                s.set.cardinality, s.set.maximum, s.set.directory_log2, s.pool, s.result)
  BY Zenon DEF Steps, SetRecords, IsStep

\* With another count and maximum.
LEMMA StepCounted ==
  ASSUME NEW s \in Steps, NEW n \in Nat, NEW m \in Nat
  PROVE  IsStep([s EXCEPT !.set.cardinality = n, !.set.maximum = m], s.set.block, s.set.values,
                s.set.containers, n, m, s.set.directory_log2, s.pool, s.result)
  BY Zenon DEF Steps, SetRecords, IsStep

\* With other values, in the same block or in a new one.
LEMMA StepValued ==
  ASSUME NEW s \in Steps, NEW vs \in Seq(Nat), NEW n \in Nat, NEW m \in Nat
  PROVE  IsStep([s EXCEPT !.set.values = vs, !.set.cardinality = n, !.set.maximum = m],
                s.set.block, vs, s.set.containers, n, m, s.set.directory_log2, s.pool, s.result)
  BY Zenon DEF Steps, SetRecords, IsStep

\* With values in a block of their own.
LEMMA StepFilled ==
  ASSUME NEW s \in Steps, NEW vs \in Seq(Nat), NEW n \in Nat, NEW m \in Nat, NEW l \in Nat,
         NEW p \in PoolRecords
  PROVE  IsStep([s EXCEPT !.pool = p, !.set.block = TRUE, !.set.directory_log2 = l,
                          !.set.values = vs, !.set.cardinality = n, !.set.maximum = m],
                TRUE, vs, s.set.containers, n, m, l, p, s.result)
  BY Zenon DEF Steps, SetRecords, IsStep

\* With one container exchanged.
LEMMA StepExchanged ==
  ASSUME NEW s \in Steps, NEW i, NEW c, NEW p \in PoolRecords,
         [s.set.containers EXCEPT ![i] = c] \in Seq(Containers)
  PROVE  IsStep([s EXCEPT !.set.containers[i] = c, !.pool = p], s.set.block, s.set.values,
                [s.set.containers EXCEPT ![i] = c], s.set.cardinality, s.set.maximum,
                s.set.directory_log2, p, s.result)
  BY Zenon DEF Steps, SetRecords, IsStep

\* The fields of what is in a step, and of an empty set.
LEMMA Fields ==
  /\ \A x \in SetRecords :
       /\ x.block \in BOOLEAN /\ x.values \in Seq(Nat) /\ x.containers \in Seq(Containers)
       /\ x.cardinality \in Nat /\ x.maximum \in Nat /\ x.directory_log2 \in Nat
  /\ \A p \in PoolRecords : p.lent \in [0..LOG2_MAX -> Int] /\ p.left \in Int
  /\ \A c \in Containers :
       /\ c.key \in Nat /\ c.kind \in Kinds /\ c.lows \in LowRecords
       /\ c.cardinality \in Nat /\ c.block_log2 \in Nat
  /\ Zeroed \in SetRecords /\ Zeroed.values = << >> /\ Zeroed.containers = << >>
  /\ Zeroed.cardinality = 0 /\ Zeroed.block = FALSE
  <1>1. \A x \in SetRecords :
          /\ x.block \in BOOLEAN /\ x.values \in Seq(Nat) /\ x.containers \in Seq(Containers)
          /\ x.cardinality \in Nat /\ x.maximum \in Nat /\ x.directory_log2 \in Nat
    BY Zenon DEF SetRecords
  <1>2. \A p \in PoolRecords : p.lent \in [0..LOG2_MAX -> Int] /\ p.left \in Int
    BY DEF PoolRecords
  <1>3. \A c \in Containers :
          /\ c.key \in Nat /\ c.kind \in Kinds /\ c.lows \in LowRecords
          /\ c.cardinality \in Nat /\ c.block_log2 \in Nat
    BY Zenon DEF Containers
  <1>4. << >> \in Seq(Nat) /\ << >> \in Seq(Containers) /\ 0 \in Nat /\ FALSE \in BOOLEAN
    OBVIOUS
  <1>5. /\ Zeroed \in SetRecords /\ Zeroed.values = << >> /\ Zeroed.containers = << >>
        /\ Zeroed.cardinality = 0 /\ Zeroed.block = FALSE
    BY <1>4, Zenon DEF Zeroed, SetRecords
  <1> QED BY <1>1, <1>2, <1>3, <1>5

-----------------------------------------------------------------------------
(* The pool, and the blocks that are named.                                *)

\* One, where the exponents are the same.
Mark(log2, e) == IF log2 = e THEN 1 ELSE 0

\* A block taken from the pool or given back is counted under its exponent.
LEMMA TakeGive ==
  ASSUME NEW p \in PoolRecords, NEW l \in 0..LOG2_MAX
  PROVE  /\ take(p, l) \in PoolRecords
         /\ \A e \in 0..LOG2_MAX : take(p, l).lent[e] = p.lent[e] + Mark(l, e)
         /\ give(p, l) \in PoolRecords
         /\ \A e \in 0..LOG2_MAX : give(p, l).lent[e] = p.lent[e] - Mark(l, e)
  <1> DEFINE q == p.lent
             x == q[l] + 1
             y == q[l] - 1
             f == [q EXCEPT ![l] = x]
             g == [q EXCEPT ![l] = y]
             k == p.left - 1
  <1>1. q \in [0..LOG2_MAX -> Int] /\ p.left \in Int
    BY Fields
  <1>2. take(p, l).lent = f /\ give(p, l).lent = g
    BY Zenon DEF PoolRecords, take, give
  <1>3. k \in Int
    BY <1>1
  <1>4. f \in [0..LOG2_MAX -> Int] /\ g \in [0..LOG2_MAX -> Int]
    <2> HIDE DEF q
    <2>1. x \in Int /\ y \in Int
      BY <1>1
    <2> HIDE DEF x, y
    <2> QED BY <1>1, <2>1
  <1>5. take(p, l) \in PoolRecords /\ give(p, l) \in PoolRecords
    BY <1>3, <1>4, Zenon DEF PoolRecords, take, give
  <1>6. \A e \in 0..LOG2_MAX : f[e] = q[e] + Mark(l, e) /\ g[e] = q[e] - Mark(l, e)
    <2> HIDE DEF q
    <2> QED BY <1>1 DEF Mark
  <1> QED BY <1>2, <1>5, <1>6

\* What is lent is counted.
LEMMA LentCounts ==
  /\ \A p \in PoolRecords : \A e \in 0..LOG2_MAX : p.lent[e] \in Int
  /\ \A l, e : Mark(l, e) \in {0, 1}
  <1>1. ASSUME NEW p \in PoolRecords, NEW e \in 0..LOG2_MAX PROVE p.lent[e] \in Int
    <2> DEFINE f == p.lent
               D == 0..LOG2_MAX
    <2>1. f \in [D -> Int] /\ e \in D
      BY Fields
    <2> HIDE DEF f, D
    <2>2. f[e] \in Int
      BY <2>1
    <2> QED BY <2>2 DEF f
  <1>2. \A l, e : Mark(l, e) \in {0, 1}
    BY DEF Mark
  <1> QED BY <1>1, <1>2

\* Blocks of an exponent among the first n containers.
InBlocks(cs, n, e) == Cardinality({i \in 1..n : cs[i].block_log2 = e})

\* Container by container.
LEMMA InBlocksStep ==
  ASSUME NEW cs, NEW e, NEW n \in Nat
  PROVE  /\ InBlocks(cs, 0, e) = 0 /\ InBlocks(cs, n, e) \in Nat
         /\ InBlocks(cs, n + 1, e) = InBlocks(cs, n, e) + Mark(cs[n + 1].block_log2, e)
  <1> DEFINE S == {i \in 1..n : cs[i].block_log2 = e}
             T == {i \in 1..(n + 1) : cs[i].block_log2 = e}
  <1>1. {i \in 1..0 : cs[i].block_log2 = e} = {}
    OBVIOUS
  <1>2. IsFiniteSet(S)
    <2>1. IsFiniteSet(1..n) /\ S \in SUBSET (1..n)
      BY FS_Interval, 1 \in Int, n \in Int
    <2> HIDE DEF S
    <2> QED BY <2>1, FS_Subset
  <1>3. \A i \in 1..(n + 1) : i \in 1..n \/ i = n + 1
    OBVIOUS
  <1>4. n + 1 \notin S /\ n + 1 \in 1..(n + 1) /\ \A i \in 1..n : i \in 1..(n + 1)
    OBVIOUS
  <1>5. CASE cs[n + 1].block_log2 = e
    <2>1. T = S \cup {n + 1}
      BY <1>3, <1>4, <1>5
    <2> HIDE DEF S, T
    <2>2. Cardinality(T) = Cardinality(S) + 1 /\ Cardinality(S) \in Nat
      BY <1>2, <1>4, <2>1, FS_AddElement, FS_CardinalityType
    <2> QED BY <1>1, <1>5, <2>2, FS_EmptySet DEF S, T, InBlocks, Mark
  <1>6. CASE cs[n + 1].block_log2 # e
    <2>1. T = S
      BY <1>3, <1>4, <1>6
    <2> HIDE DEF S, T
    <2>2. Cardinality(T) = Cardinality(S) /\ Cardinality(S) \in Nat
      BY <1>2, <2>1, FS_CardinalityType
    <2>3. Cardinality(T) = Cardinality(S) + 0
      BY <2>2
    <2> QED BY <1>1, <1>6, <2>2, <2>3, FS_EmptySet DEF S, T, InBlocks, Mark
  <1> QED BY <1>5, <1>6

\* Only the exponents count.
LEMMA InBlocksSame ==
  ASSUME NEW cs, NEW ds, NEW n, NEW e, \A i \in 1..n : cs[i].block_log2 = ds[i].block_log2
  PROVE  InBlocks(cs, n, e) = InBlocks(ds, n, e)
  <1>1. {i \in 1..n : cs[i].block_log2 = e} = {i \in 1..n : ds[i].block_log2 = e}
    OBVIOUS
  <1> QED BY <1>1, Zenon DEF InBlocks

\* The block of the set itself.
OwnBlock(set, e) == IF set.block /\ set.directory_log2 = e THEN 1 ELSE 0

\* The blocks a set names are those of its containers and its own.
LEMMA NamedIs ==
  ASSUME NEW x \in SetRecords, NEW e
  PROVE  /\ named(x, e) = InBlocks(x.containers, Len(x.containers), e) + OwnBlock(x, e)
         /\ InBlocks(x.containers, Len(x.containers), e) \in Nat /\ OwnBlock(x, e) \in Nat
         /\ named(x, e) \in Nat /\ named(Zeroed, e) = 0
  <1>1. x.containers \in Seq(Containers) /\ Zeroed.containers = << >> /\ Zeroed.block = FALSE
    BY Fields
  <1>2. DOMAIN x.containers = 1..Len(x.containers) /\ Len(x.containers) \in Nat
    BY <1>1
  <1>3. named(x, e) = InBlocks(x.containers, Len(x.containers), e) + OwnBlock(x, e)
    BY <1>2, Zenon DEF named, InBlocks, OwnBlock
  <1>4. InBlocks(x.containers, Len(x.containers), e) \in Nat
    BY <1>2, InBlocksStep
  <1>5. OwnBlock(x, e) \in Nat
    BY DEF OwnBlock
  <1>6. named(Zeroed, e) = 0
    <2> DEFINE D == {i \in DOMAIN Zeroed.containers : Zeroed.containers[i].block_log2 = e}
    <2>1. D = {}
      BY <1>1
    <2>2. named(Zeroed, e) = Cardinality(D) + 0
      BY <1>1, Zenon DEF named
    <2> HIDE DEF D
    <2> QED BY <2>1, <2>2, FS_EmptySet
  <1> QED BY <1>3, <1>4, <1>5, <1>6

\* The pool has lent what it had, and the blocks that the set names.
Owes(out, set, base) ==
  /\ out \in [0..LOG2_MAX -> Int] /\ base \in [0..LOG2_MAX -> Int]
  /\ \A e \in 0..LOG2_MAX : out[e] = base[e] + named(set, e)

-----------------------------------------------------------------------------
(* What containers hold.                                                   *)

LowParts == 0..(LOWS - 1)

\* The low parts of a container, and the numbers of a key with some low parts.
Lows(c) == IF c.kind = BITMAP THEN c.lows ELSE ToSet(c.lows)
At(key, X) == {value_of(key, l) : l \in X}

\* A container that can be read: low parts in order, or bits.
IsReadable(c) ==
  /\ c.key \in Nat
  /\ \/ c.kind = ARRAY /\ Ascends(c.lows) /\ ToSet(c.lows) \subseteq LowParts /\ Len(c.lows) <= ARRAY_MAX
     \/ c.kind = BITMAP /\ c.lows \subseteq LowParts

\* The low parts of a key.
LEMMA LowPartsAre == LowParts \in SUBSET Nat /\ IsFiniteSet(LowParts)
  <1>1. LOWS \in Nat
    BY SizesAre
  <1>2. IsFiniteSet(LowParts)
    BY <1>1, FS_Interval, 0 \in Int, LOWS - 1 \in Int DEF LowParts
  <1> QED BY <1>1, <1>2 DEF LowParts

\* A number is its key and its low part (key_of, low_of, value_of).
LEMMA KeysAndLows ==
  /\ \A x \in Nat : key_of(x) \in Nat /\ low_of(x) \in LowParts /\ x = value_of(key_of(x), low_of(x))
  /\ \A k \in Nat : \A l \in LowParts :
       value_of(k, l) \in Nat /\ key_of(value_of(k, l)) = k /\ low_of(value_of(k, l)) = l
  <1>1. LOWS \in Nat \ {0}
    BY SizesAre
  <1>2. ASSUME NEW x \in Nat
        PROVE  key_of(x) \in Nat /\ low_of(x) \in LowParts /\ x = value_of(key_of(x), low_of(x))
    <2>1. x \div LOWS \in Nat /\ x % LOWS \in 0..(LOWS - 1) /\ x = (x \div LOWS) * LOWS + (x % LOWS)
      BY <1>1, Quotient
    <2> QED BY <2>1 DEF key_of, low_of, value_of, LowParts
  <1>3. ASSUME NEW k \in Nat, NEW l \in LowParts
        PROVE  value_of(k, l) \in Nat /\ key_of(value_of(k, l)) = k /\ low_of(value_of(k, l)) = l
    <2>1. l \in 0..(LOWS - 1)
      BY DEF LowParts
    <2>2. (k * LOWS + l) \div LOWS = k /\ (k * LOWS + l) % LOWS = l
      BY <1>1, <2>1, QuotientOf
    <2>3. k * LOWS \in Nat /\ l \in Nat
      BY <1>1, <2>1
    <2>4. k * LOWS + l \in Nat
      BY <2>3
    <2> QED BY <2>2, <2>4 DEF key_of, low_of, value_of
  <1> QED BY <1>2, <1>3

\* Numbers are in the order of their keys and, within one, of their low parts.
LEMMA KeyOrder ==
  ASSUME NEW x \in Nat, NEW y \in Nat
  PROVE  x <= y <=> key_of(x) < key_of(y) \/ (key_of(x) = key_of(y) /\ low_of(x) <= low_of(y))
  <1>1. LOWS \in Nat \ {0}
    BY SizesAre
  <1> QED BY <1>1, WordOrder, Zenon DEF key_of, low_of

\* The numbers of a key are as many as their low parts.
LEMMA AtIs ==
  ASSUME NEW key \in Nat, NEW X \in SUBSET LowParts
  PROVE  /\ \A x : x \in At(key, X) <=> x \in Nat /\ key_of(x) = key /\ low_of(x) \in X
         /\ IsFiniteSet(X) /\ IsFiniteSet(At(key, X)) /\ Cardinality(At(key, X)) = Cardinality(X)
         /\ Cardinality(X) \in Nat
  <1>1. ASSUME NEW x \in At(key, X) PROVE x \in Nat /\ key_of(x) = key /\ low_of(x) \in X
    <2>1. PICK l \in X : x = value_of(key, l)
      BY DEF At
    <2> QED BY <2>1, KeysAndLows
  <1>2. ASSUME NEW x \in Nat, key_of(x) = key, low_of(x) \in X PROVE x \in At(key, X)
    <2>1. x = value_of(key, low_of(x))
      BY <1>2, KeysAndLows
    <2> QED BY <1>2, <2>1 DEF At
  <1>3. IsFiniteSet(X)
    BY LowPartsAre, FS_Subset
  <1>4. IsFiniteSet(At(key, X)) /\ Cardinality(At(key, X)) = Cardinality(X)
    <2> DEFINE f == [l \in X |-> value_of(key, l)]
    <2>1. \A l, m \in X : value_of(key, l) = value_of(key, m) => l = m
      <3>1. ASSUME NEW l \in X, NEW m \in X, value_of(key, l) = value_of(key, m) PROVE l = m
        <4>1. low_of(value_of(key, l)) = l /\ low_of(value_of(key, m)) = m
          BY KeysAndLows
        <4> QED BY <3>1, <4>1, Zenon
      <3> QED BY <3>1
    <2>2. f \in [X -> At(key, X)] /\ \A x \in At(key, X) : \E l \in X : f[l] = x
      BY DEF At
    <2>3. \A l, m \in X : f[l] = f[m] => l = m
      BY <2>1
    <2> HIDE DEF f
    <2>4. f \in Bijection(X, At(key, X))
      BY <2>2, <2>3, Zenon DEF Bijection, Injection, Surjection, IsInjective
    <2>5. ExistsBijection(X, At(key, X))
      BY <2>4 DEF ExistsBijection
    <2> QED BY <1>3, <2>5, FS_Bijection
  <1> QED BY <1>1, <1>2, <1>3, <1>4, FS_CardinalityType

\* What a container holds is low parts.
LEMMA LowsAre ==
  ASSUME NEW c, IsReadable(c)
  PROVE  Lows(c) \in SUBSET LowParts /\ c.key \in Nat
  <1>1. ARRAY # BITMAP
    BY DEF ARRAY, BITMAP
  <1> QED BY <1>1 DEF IsReadable, Lows

\* A scan of a container meets its numbers.
LEMMA ValuesOfAre ==
  ASSUME NEW c, IsReadable(c)
  PROVE  ToSet(values_of(c)) = At(c.key, Lows(c))
  <1> DEFINE q == lows_in_order(c)
  <1>1. ARRAY # BITMAP
    BY DEF ARRAY, BITMAP
  <1>2. ToSet(q) = Lows(c) /\ q \in Seq(Nat)
    <2>1. CASE c.kind = BITMAP
      <3>1. c.lows \in SUBSET Nat /\ IsFiniteSet(c.lows)
        <4>1. c.lows \in SUBSET LowParts
          BY <1>1, <2>1 DEF IsReadable
        <4> QED BY <4>1, LowPartsAre, FS_Subset
      <3> QED BY <2>1, <3>1, AscendingIs DEF lows_in_order, Lows, Ascends
    <2>2. CASE c.kind # BITMAP
      BY <1>1, <2>2 DEF IsReadable, lows_in_order, Lows, Ascends
    <2> QED BY <2>1, <2>2
  <1> HIDE DEF q
  <1>3. values_of(c) = [i \in DOMAIN q |-> value_of(c.key, q[i])]
    BY DEF values_of, q
  <1>4. ToSet(values_of(c)) = {value_of(c.key, q[i]) : i \in DOMAIN q}
    BY <1>3 DEF ToSet
  <1>5. ToSet(q) = {q[i] : i \in DOMAIN q}
    BY DEF ToSet
  <1> QED BY <1>2, <1>4, <1>5 DEF At

\* A number is held as a value or by a container.
LEMMA ContentsAre ==
  ASSUME NEW x \in SetRecords, \A i \in 1..Len(x.containers) : IsReadable(x.containers[i])
  PROVE  \A v : v \in Contents(x) <=>
            \/ v \in ToSet(x.values)
            \/ \E i \in 1..Len(x.containers) : v \in At(x.containers[i].key, Lows(x.containers[i]))
  <1>1. DOMAIN x.containers = 1..Len(x.containers)
    <2>1. x.containers \in Seq(Containers)
      BY Fields
    <2> QED BY <2>1
  <1>2. \A i \in 1..Len(x.containers) :
           ToSet(values_of(x.containers[i])) = At(x.containers[i].key, Lows(x.containers[i]))
    BY ValuesOfAre
  <1>3. Contents(x) = ToSet(x.values) \cup UNION {ToSet(values_of(x.containers[i])) : i \in 1..Len(x.containers)}
    BY <1>1, Zenon DEF Contents
  <1> QED BY <1>2, <1>3

-----------------------------------------------------------------------------
(* Sets in good order.                                                     *)

\* A container that fills a block.
IsFilled(c) ==
  /\ c \in Containers /\ IsReadable(c)
  /\ c.cardinality = Cardinality(Lows(c)) /\ c.cardinality > 0
  /\ c.kind = ARRAY => FIRST_LOG2 <= c.block_log2 /\ c.cardinality * LOW_SIZE <= Pow(c.block_log2)
  /\ c.kind = BITMAP => ARRAY_MAX < c.cardinality /\ c.block_log2 = BITMAP_LOG2

\* And that the pool has such a block for.
IsStored(c) == IsFilled(c) /\ c.block_log2 <= LOG2_MAX

\* The count and the maximum are those of the numbers.
IsCounted(set) ==
  /\ Contents(set) \in SUBSET Nat /\ IsFiniteSet(Contents(set))
  /\ set.cardinality = Cardinality(Contents(set))
  /\ set.cardinality > 0 =>
       set.maximum \in Contents(set) /\ \A v \in Contents(set) : v <= set.maximum

HasBlock(set) == set \in SetRecords /\ set.block /\ set.directory_log2 \in FIRST_LOG2..LOG2_MAX

IsSparse(set) ==
  /\ HasBlock(set) /\ set.containers = << >>
  /\ Ascends(set.values) /\ Len(set.values) \in 1..SPARSE_MAX
  /\ set.cardinality = Len(set.values) /\ set.maximum = Last(set.values)
  /\ Len(set.values) * VALUE_SIZE <= Pow(set.directory_log2)

IsDirectory(set) ==
  /\ HasBlock(set) /\ set.values = << >> /\ set.containers # << >>
  /\ \A i \in 1..Len(set.containers) : IsStored(set.containers[i])
  /\ \A i, j \in 1..Len(set.containers) : i < j => set.containers[i].key < set.containers[j].key
  /\ Len(set.containers) * ENTRY_SIZE <= Pow(set.directory_log2)
  /\ IsCounted(set)

IsGood(set) == set = Zeroed \/ IsSparse(set) \/ IsDirectory(set)

\* What a set in good order is, whatever its form.
LEMMA GoodIs ==
  ASSUME NEW x, IsGood(x)
  PROVE  /\ x \in SetRecords /\ IsCounted(x)
         /\ \A i \in 1..Len(x.containers) : IsReadable(x.containers[i])
         /\ x.block <=> x.cardinality > 0
         /\ x.containers = << >> => Contents(x) = ToSet(x.values) /\ Ascends(x.values)
         /\ x.cardinality = 0 <=> x = Zeroed
         /\ Contents(x) = {} <=> x = Zeroed
  <1>1. x \in SetRecords
    BY Fields DEF IsGood, IsSparse, IsDirectory, HasBlock
  <1>2. \A i \in 1..Len(x.containers) : IsReadable(x.containers[i])
    <2>1. CASE x.containers = << >>
      BY <2>1
    <2>2. CASE x.containers # << >>
      <3>1. IsDirectory(x)
        BY <2>2, Fields DEF IsGood, IsSparse
      <3> QED BY <3>1 DEF IsDirectory, IsStored, IsFilled
    <2> QED BY <2>1, <2>2
  <1>3. \A v : v \in Contents(x) <=>
            \/ v \in ToSet(x.values)
            \/ \E i \in 1..Len(x.containers) : v \in At(x.containers[i].key, Lows(x.containers[i]))
    BY <1>1, <1>2, ContentsAre
  <1>4. x.containers = << >> => Contents(x) = ToSet(x.values)
    <2>1. SUFFICES ASSUME x.containers = << >> PROVE Contents(x) = ToSet(x.values)
      OBVIOUS
    <2>2. Len(x.containers) = 0
      BY <2>1
    <2>3. 1..Len(x.containers) = {}
      BY <2>2
    <2> QED BY <1>3, <2>3
  <1>5. CASE x = Zeroed
    <2>1. x.values = << >> /\ x.containers = << >> /\ x.cardinality = 0 /\ x.block = FALSE
      BY <1>5, Fields
    <2>2. ToSet(<< >>) = {}
      BY DEF ToSet
    <2>3. Contents(x) = {}
      BY <1>4, <2>1, <2>2
    <2>4. Ascends(<< >>)
      BY DEF Ascends
    <2>5. IsCounted(x)
      BY <2>1, <2>3, FS_EmptySet DEF IsCounted
    <2>6. x.block <=> x.cardinality > 0
      BY <2>1
    <2> QED BY <1>1, <1>2, <1>4, <1>5, <2>1, <2>3, <2>4, <2>5, <2>6
  <1>6. CASE IsSparse(x)
    <2>1. /\ x.containers = << >> /\ Ascends(x.values) /\ Len(x.values) \in 1..SPARSE_MAX
          /\ x.cardinality = Len(x.values) /\ x.maximum = Last(x.values) /\ x.block
      BY <1>6 DEF IsSparse, HasBlock
    <2>2. Contents(x) = ToSet(x.values)
      BY <1>4, <2>1
    <2>3. Len(x.values) > 0 /\ Len(x.values) # 0
      BY <2>1, SizesAre
    <2>4. IsCounted(x) /\ Contents(x) # {}
      <3>1. Cardinality(ToSet(x.values)) = Len(x.values) /\ IsFiniteSet(ToSet(x.values))
            /\ ToSet(x.values) \in SUBSET Nat
            /\ Last(x.values) \in ToSet(x.values) /\ \A v \in ToSet(x.values) : v <= Last(x.values)
        BY <2>1, <2>3, AscendsCounts
      <3> QED BY <2>1, <2>2, <3>1 DEF IsCounted
    <2>5. x # Zeroed
      BY <2>1, <2>3, Fields
    <2>6. x.block <=> x.cardinality > 0
      <3>1. x.block \in BOOLEAN /\ x.cardinality > 0
        BY <1>1, <2>1, <2>3, Fields
      <3> QED BY <2>1, <3>1
    <2> QED BY <1>1, <1>2, <2>1, <2>2, <2>3, <2>4, <2>5, <2>6
  <1>7. CASE IsDirectory(x)
    <2>1. /\ x.containers # << >> /\ x.block /\ IsCounted(x)
          /\ \A i \in 1..Len(x.containers) : IsStored(x.containers[i])
      BY <1>7 DEF IsDirectory, HasBlock
    <2>2. 1 \in 1..Len(x.containers)
      <3>1. x.containers \in Seq(Containers)
        BY <1>1, Fields
      <3> QED BY <2>1, <3>1
    <2>3. Contents(x) # {}
      <3> DEFINE c == x.containers[1]
      <3>1. IsReadable(c) /\ Cardinality(Lows(c)) > 0
        BY <2>1, <2>2 DEF IsStored, IsFilled
      <3>2. At(c.key, Lows(c)) # {}
        <4>1. c.key \in Nat /\ Lows(c) \in SUBSET LowParts
          BY <3>1, LowsAre
        <4>2. Cardinality(At(c.key, Lows(c))) > 0
          BY <3>1, <4>1, AtIs
        <4> QED BY <4>2, FS_EmptySet
      <3> QED BY <1>3, <2>2, <3>2
    <2>4. x.cardinality > 0 /\ x.cardinality # 0
      <3>1. Cardinality(Contents(x)) # 0 /\ Cardinality(Contents(x)) \in Nat
        BY <2>1, <2>3, FS_EmptySet, FS_CardinalityType DEF IsCounted
      <3> QED BY <2>1, <3>1 DEF IsCounted
    <2>5. x # Zeroed
      BY <2>4, Fields
    <2>6. x.block <=> x.cardinality > 0
      <3>1. x.block \in BOOLEAN /\ x.cardinality > 0
        BY <1>1, <2>4, Fields
      <3> QED BY <2>1, <3>1
    <2> QED BY <1>1, <1>2, <2>1, <2>3, <2>4, <2>5, <2>6
  <1> QED BY <1>5, <1>6, <1>7 DEF IsGood

-----------------------------------------------------------------------------
(* Room for one more, and a container pushed.                              *)

\* The block is as it is, another twice its size, or refused (room_for).
LEMMA RoomFor ==
  ASSUME NEW s \in Steps, s.result = SUCCESS, NEW base, Owes(s.pool.lent, s.set, base),
         NEW n \in Nat, NEW size \in Nat \ {0}, size <= ENTRY_SIZE,
         s.set.block => HasBlock(s.set) /\ n * size <= Pow(s.set.directory_log2),
         ~s.set.block => n = 0,
         NEW r, r = room_for(s, n, size)
  PROVE  \/ r = refused(s)
         \/ \E l \in FIRST_LOG2..LOG2_MAX, p \in PoolRecords :
              /\ IsStep(r, TRUE, s.set.values, s.set.containers, s.set.cardinality, s.set.maximum, l,
                        p, SUCCESS)
              /\ Owes(p.lent, r.set, base) /\ (n + 1) * size <= Pow(l)
  <1> DEFINE set == s.set
             l == IF set.block THEN set.directory_log2 + 1 ELSE FIRST_LOG2
             taken == take(s.pool, l)
             p == IF set.block THEN give(taken, set.directory_log2) ELSE taken
  <1>1. set \in SetRecords /\ s.pool \in PoolRecords /\ set.block \in BOOLEAN
    BY StepParts, Fields
  <1>2. CASE set.block /\ n # 2^set.directory_log2 \div size
    <2>1. r = s
      BY <1>2 DEF room_for
    <2>2. HasBlock(set) /\ n * size <= Pow(set.directory_log2)
      BY <1>2
    <2>3. set.directory_log2 \in FIRST_LOG2..LOG2_MAX
      BY <2>2 DEF HasBlock
    <2>4. (n + 1) * size <= Pow(set.directory_log2)
      BY <1>2, <2>2, <2>3, RoomGrows
    <2>5. IsStep(r, TRUE, set.values, set.containers, set.cardinality, set.maximum,
                 set.directory_log2, s.pool, SUCCESS)
      BY <1>1, <1>2, <2>1, Zenon DEF IsStep
    <2>6. Owes(s.pool.lent, r.set, base)
      BY <2>1
    <2> QED BY <1>1, <2>3, <2>4, <2>5, <2>6
  <1>3. CASE ~(set.block /\ n # 2^set.directory_log2 \div size) /\ ~grants(s.pool, l)
    BY <1>3 DEF room_for
  <1>4. CASE ~(set.block /\ n # 2^set.directory_log2 \div size) /\ grants(s.pool, l)
    <2>1. r = [s EXCEPT !.set.block = TRUE, !.set.directory_log2 = l, !.pool = p]
      BY <1>4 DEF room_for
    <2>2. l <= LOG2_MAX
      BY <1>4 DEF grants
    <2>3. set.block => set.directory_log2 \in FIRST_LOG2..LOG2_MAX
      BY DEF HasBlock
    <2>4. /\ l \in FIRST_LOG2..LOG2_MAX /\ l \in Nat /\ l \in 0..LOG2_MAX
          /\ set.block => set.directory_log2 \in 0..LOG2_MAX
      BY <2>2, <2>3, SizesAre
    <2>5. (n + 1) * size <= Pow(l)
      <3>1. CASE set.block
        BY <2>3, <3>1, RoomGrows
      <3>2. CASE ~set.block
        <4>1. n = 0 /\ l = FIRST_LOG2 /\ ENTRY_SIZE = Pow(FIRST_LOG2)
          BY <3>2, SizesAre
        <4>2. (0 + 1) * size = size
          OBVIOUS
        <4> QED BY <4>1, <4>2
      <3> QED BY <3>1, <3>2
    <2>6. taken \in PoolRecords /\ \A e \in 0..LOG2_MAX : taken.lent[e] = s.pool.lent[e] + Mark(l, e)
      BY <1>1, <2>4, TakeGive
    <2>7. p \in PoolRecords /\ \A e \in 0..LOG2_MAX :
             p.lent[e] = taken.lent[e] - (IF set.block THEN Mark(set.directory_log2, e) ELSE 0)
      <3>1. CASE set.block
        <4>1. p = give(taken, set.directory_log2) /\ set.directory_log2 \in 0..LOG2_MAX
          BY <2>4, <3>1
        <4> HIDE DEF taken, p
        <4>2. p \in PoolRecords /\ \A e \in 0..LOG2_MAX :
                 p.lent[e] = taken.lent[e] - Mark(set.directory_log2, e)
          BY <2>6, <4>1, TakeGive
        <4> QED BY <3>1, <4>2
      <3>2. CASE ~set.block
        <4> DEFINE f == taken.lent
        <4>1. p = taken /\ f \in [0..LOG2_MAX -> Int]
          BY <2>6, <3>2, Fields
        <4>2. \A e \in 0..LOG2_MAX : f[e] = f[e] - 0
          <5> HIDE DEF f
          <5> QED BY <4>1
        <4> HIDE DEF taken, p
        <4> QED BY <2>6, <3>2, <4>1, <4>2
      <3> QED BY <3>1, <3>2
    <2> HIDE DEF taken, p
    <2>8. IsStep(r, TRUE, set.values, set.containers, set.cardinality, set.maximum, l, p, SUCCESS)
      <3> HIDE DEF l, set
      <3>1. l \in Nat /\ p \in PoolRecords
        BY <2>4, <2>7
      <3>2. IsStep([s EXCEPT !.set.block = TRUE, !.set.directory_log2 = l, !.pool = p], TRUE,
                   s.set.values, s.set.containers, s.set.cardinality, s.set.maximum, l, p, s.result)
        BY <3>1, StepMoved
      <3> QED BY <2>1, <3>2, Zenon DEF set
    <2>9. Owes(p.lent, r.set, base)
      <3> HIDE DEF l
      <3>1. /\ r.set \in SetRecords /\ r.set.containers = set.containers /\ r.set.block = TRUE
            /\ r.set.directory_log2 = l /\ r.pool = p
        BY <2>8, StepParts, Zenon DEF IsStep
      <3>2. ASSUME NEW e \in 0..LOG2_MAX PROVE p.lent[e] = base[e] + named(r.set, e)
        <4> DEFINE k == InBlocks(set.containers, Len(set.containers), e)
        <4>1. named(set, e) = k + OwnBlock(set, e) /\ k \in Nat
          BY <1>1, NamedIs
        <4>2. named(r.set, e) = k + OwnBlock(r.set, e)
          BY <3>1, NamedIs
        <4>3. OwnBlock(r.set, e) = Mark(l, e) /\ Mark(l, e) \in Nat
          BY <3>1 DEF OwnBlock, Mark
        <4>4. OwnBlock(set, e) = IF set.block THEN Mark(set.directory_log2, e) ELSE 0
          BY DEF OwnBlock, Mark
        <4>5. s.pool.lent[e] = base[e] + named(set, e) /\ base[e] \in Int
          BY DEF Owes
        <4>6. taken.lent[e] = s.pool.lent[e] + Mark(l, e)
          BY <2>6
        <4>7. p.lent[e] = taken.lent[e] - OwnBlock(set, e)
          BY <2>7, <4>4
        <4>8. OwnBlock(set, e) \in Nat
          BY DEF OwnBlock
        <4> HIDE DEF k, set
        <4> QED BY <4>1, <4>2, <4>3, <4>5, <4>6, <4>7, <4>8
      <3>3. p.lent \in [0..LOG2_MAX -> Int]
        BY <2>7, Fields
      <3> QED BY <3>2, <3>3 DEF Owes
    <2> QED BY <2>4, <2>5, <2>7, <2>8, <2>9
  <1> QED BY <1>2, <1>3, <1>4

\* A number of each container.
LEMMA KeysHeld ==
  ASSUME NEW x, IsGood(x), NEW i \in 1..Len(x.containers)
  PROVE  \E v \in Contents(x) : v \in Nat /\ key_of(v) = x.containers[i].key
  <1> DEFINE c == x.containers[i]
  <1>1. x \in SetRecords /\ \A j \in 1..Len(x.containers) : IsReadable(x.containers[j])
    BY GoodIs
  <1>2. IsDirectory(x)
    <2>1. x.containers # << >>
      <3>1. SUFFICES ASSUME x.containers = << >> PROVE FALSE
        OBVIOUS
      <3>2. Len(x.containers) = 0
        BY <3>1
      <3> QED BY <3>2
    <2> QED BY <2>1, Fields DEF IsGood, IsSparse
  <1>3. IsReadable(c) /\ Cardinality(Lows(c)) > 0
    BY <1>2 DEF IsDirectory, IsStored, IsFilled
  <1>4. c.key \in Nat /\ Lows(c) \in SUBSET LowParts
    BY <1>3, LowsAre
  <1>5. Cardinality(At(c.key, Lows(c))) > 0 /\ \A v : v \in At(c.key, Lows(c)) => v \in Nat /\ key_of(v) = c.key
    BY <1>3, <1>4, AtIs
  <1>8. At(c.key, Lows(c)) # {}
    <2> DEFINE T == At(c.key, Lows(c))
    <2>1. Cardinality(T) > 0
      BY <1>5
    <2> HIDE DEF T
    <2>2. T # {}
      BY <2>1, FS_EmptySet
    <2> QED BY <2>2 DEF T
  <1>6. PICK v \in At(c.key, Lows(c)) : TRUE
    BY <1>8
  <1>7. v \in Contents(x)
    BY <1>1, <1>6, ContentsAre
  <1> QED BY <1>5, <1>6, <1>7

\* Sets that do not meet have as many members as both.
LEMMA DisjointCounts ==
  ASSUME NEW S, IsFiniteSet(S), NEW T, IsFiniteSet(T), S \cap T = {}
  PROVE  IsFiniteSet(S \cup T) /\ Cardinality(S \cup T) = Cardinality(S) + Cardinality(T)
  <1>1. Cardinality(S) \in Nat /\ Cardinality(T) \in Nat /\ Cardinality({}) = 0
    BY FS_CardinalityType, FS_EmptySet
  <1>2. /\ IsFiniteSet(S \cup T)
        /\ Cardinality(S \cup T) = Cardinality(S) + Cardinality(T) - Cardinality(S \cap T)
    BY FS_Union
  <1>3. Cardinality(S \cap T) = 0
    BY <1>1
  <1> QED BY <1>1, <1>2, <1>3

\* A container behind those of a set.
LEMMA Pushed ==
  ASSUME NEW x, IsGood(x), x.values = << >>,
         NEW c, IsStored(c), \A v \in Contents(x) : key_of(v) < c.key,
         NEW top \in Lows(c), \A l \in Lows(c) : l <= top,
         NEW y, HasBlock(y), y.values = << >>, y.containers = Append(x.containers, c),
         y.cardinality = x.cardinality + c.cardinality, y.maximum = value_of(c.key, top),
         (Len(x.containers) + 1) * ENTRY_SIZE <= Pow(y.directory_log2)
  PROVE  IsDirectory(y) /\ Contents(y) = Contents(x) \cup At(c.key, Lows(c))
  <1> DEFINE cs == x.containers
             ds == y.containers
             n == Len(cs)
             S == Contents(x)
             T == At(c.key, Lows(c))
  <1>1. /\ x \in SetRecords /\ IsCounted(x) /\ \A i \in 1..n : IsReadable(cs[i])
        /\ y \in SetRecords /\ c \in Containers /\ IsReadable(c)
    BY GoodIs DEF HasBlock, IsStored, IsFilled
  <1>2. cs \in Seq(Containers) /\ n \in Nat
    BY <1>1, Fields
  <1>3. /\ Len(ds) = n + 1 /\ ds # << >> /\ ds[n + 1] = c
        /\ \A i \in 1..n : ds[i] = cs[i]
    BY <1>1, <1>2, AppendProperties
  <1>4. c.key \in Nat /\ Lows(c) \in SUBSET LowParts
    BY <1>1, LowsAre
  <1>5. /\ \A v : v \in T <=> v \in Nat /\ key_of(v) = c.key /\ low_of(v) \in Lows(c)
        /\ IsFiniteSet(T) /\ Cardinality(T) = Cardinality(Lows(c)) /\ Cardinality(T) \in Nat
    BY <1>4, AtIs
  <1>6. IsDirectory(x) \/ n = 0
    BY Fields DEF IsGood, IsSparse
  <1>7. ASSUME NEW i \in 1..n PROVE IsStored(cs[i]) /\ cs[i].key < c.key
    <2>1. IsDirectory(x)
      BY <1>2, <1>6
    <2>2. PICK v \in S : v \in Nat /\ key_of(v) = cs[i].key
      BY KeysHeld
    <2> QED BY <2>1, <2>2 DEF IsDirectory
  <1>8. \A i, j \in 1..n : i < j => cs[i].key < cs[j].key
    BY <1>6 DEF IsDirectory
  <1> HIDE DEF cs, ds, n, S, T
  <1>9. \A i \in 1..(n + 1) : i \in 1..n \/ i = n + 1
    BY <1>2
  <1>10. \A i \in 1..Len(ds) : IsStored(ds[i])
    BY <1>3, <1>7, <1>9
  <1>11. ASSUME NEW i \in 1..Len(ds), NEW j \in 1..Len(ds), i < j PROVE ds[i].key < ds[j].key
    <2>1. i \in 1..n
      BY <1>2, <1>3, <1>11
    <2>2. ds[i] = cs[i] /\ cs[i].key < c.key
      BY <1>3, <1>7, <2>1
    <2> QED BY <1>3, <1>8, <1>9, <1>11, <2>1, <2>2
  <1>12. \A i \in 1..Len(ds) : IsReadable(ds[i])
    BY <1>10 DEF IsStored, IsFilled
  <1>13. Contents(y) = S \cup T
    <2>1. \A v : v \in Contents(y) <=> \E i \in 1..(n + 1) : v \in At(ds[i].key, Lows(ds[i]))
      <3>1. ToSet(<< >>) = {}
        BY DEF ToSet
      <3>2. \A v : v \in Contents(y) <=>
              v \in ToSet(y.values) \/ \E i \in 1..Len(y.containers) : v \in At(y.containers[i].key, Lows(y.containers[i]))
        BY <1>1, <1>12, ContentsAre DEF ds
      <3> QED BY <1>3, <3>1, <3>2 DEF ds
    <2>2. \A v : v \in S <=> \E i \in 1..n : v \in At(cs[i].key, Lows(cs[i]))
      <3>1. ToSet(<< >>) = {}
        BY DEF ToSet
      <3>2. \A v : v \in Contents(x) <=>
              v \in ToSet(x.values) \/ \E i \in 1..Len(x.containers) : v \in At(x.containers[i].key, Lows(x.containers[i]))
        BY <1>1, ContentsAre DEF n, cs
      <3> QED BY <3>1, <3>2 DEF cs, n, S
    <2>3. n + 1 \in 1..(n + 1) /\ \A i \in 1..n : i \in 1..(n + 1)
      BY <1>2
    <2>4. ASSUME NEW v PROVE v \in Contents(y) <=> v \in S \cup T
      <3>1. v \in T <=> v \in At(ds[n + 1].key, Lows(ds[n + 1]))
        BY <1>3 DEF T
      <3>2. \A i \in 1..n : v \in At(ds[i].key, Lows(ds[i])) <=> v \in At(cs[i].key, Lows(cs[i]))
        BY <1>3
      <3> QED BY <1>9, <2>1, <2>2, <2>3, <3>1, <3>2
    <2> QED BY <2>4
  <1>14. S \cap T = {}
    <2>1. ASSUME NEW v \in S, v \in T PROVE FALSE
      <3>1. key_of(v) < c.key /\ key_of(v) = c.key /\ c.key \in Nat
        BY <1>4, <1>5, <2>1 DEF S
      <3> QED BY <3>1
    <2> QED BY <2>1
  <1>15. S \in SUBSET Nat /\ IsFiniteSet(S) /\ x.cardinality = Cardinality(S)
    BY <1>1 DEF IsCounted, S
  <1>16. IsCounted(y)
    <2>1. IsFiniteSet(S \cup T) /\ Cardinality(S \cup T) = Cardinality(S) + Cardinality(T)
      BY <1>5, <1>14, <1>15, DisjointCounts
    <2>2. c.cardinality = Cardinality(T)
      BY <1>5 DEF IsStored, IsFilled
    <2>3. y.cardinality = Cardinality(Contents(y))
      BY <1>13, <1>15, <2>1, <2>2
    <2>4. S \cup T \in SUBSET Nat
      BY <1>5, <1>15
    <2> DEFINE m == value_of(c.key, top)
    <2>5. top \in LowParts
      BY <1>4
    <2>6. m \in Nat /\ key_of(m) = c.key /\ low_of(m) = top
      BY <1>4, <2>5, KeysAndLows
    <2> HIDE DEF m
    <2>7. m \in T
      BY <1>5, <2>6
    <2>8. ASSUME NEW v \in S \cup T PROVE v <= m
      <3>1. v \in Nat
        BY <2>4
      <3>2. CASE v \in S
        <4>1. key_of(v) < key_of(m)
          BY <2>6, <3>2 DEF S
        <4> QED BY <2>6, <3>1, <4>1, KeyOrder
      <3>3. CASE v \in T
        <4>1. key_of(v) = key_of(m) /\ low_of(v) <= low_of(m)
          BY <1>5, <2>6, <3>3
        <4> QED BY <2>6, <3>1, <4>1, KeyOrder
      <3> QED BY <3>2, <3>3
    <2>9. y.maximum = m
      BY DEF m
    <2> QED BY <1>13, <2>1, <2>3, <2>4, <2>7, <2>8, <2>9 DEF IsCounted
  <1>17. Len(ds) * ENTRY_SIZE <= Pow(y.directory_log2)
    BY <1>3 DEF n, cs
  <1>18. IsDirectory(y)
    BY <1>3, <1>10, <1>11, <1>16, <1>17 DEF IsDirectory, ds
  <1> QED BY <1>13, <1>18 DEF S, T

\* A step on a set in good order, the pool's blocks accounted for.
Working(s, base) ==
  /\ s \in Steps /\ s.result \in {SUCCESS, EXHAUSTED}
  /\ IsGood(s.set) /\ Owes(s.pool.lent, s.set, base)

\* A container pushed names its block beside the others.
LEMMA NamedPushed ==
  ASSUME NEW x \in SetRecords, NEW y \in SetRecords, NEW c \in Containers, NEW e,
         y.containers = Append(x.containers, c), y.block = x.block,
         y.directory_log2 = x.directory_log2
  PROVE  named(y, e) = named(x, e) + Mark(c.block_log2, e)
  <1> DEFINE cs == x.containers
             ds == y.containers
             n == Len(cs)
  <1>1. cs \in Seq(Containers) /\ n \in Nat
    BY Fields
  <1>2. /\ Len(ds) = n + 1 /\ ds[n + 1] = c
        /\ \A i \in 1..n : ds[i] = cs[i]
    BY <1>1, AppendProperties
  <1>3. named(x, e) = InBlocks(cs, n, e) + OwnBlock(x, e)
        /\ InBlocks(cs, n, e) \in Nat /\ OwnBlock(x, e) \in Nat
    BY NamedIs
  <1>4. named(y, e) = InBlocks(ds, Len(ds), e) + OwnBlock(y, e)
    BY NamedIs
  <1> HIDE DEF cs, ds, n
  <1>5. InBlocks(ds, n + 1, e) = InBlocks(ds, n, e) + Mark(ds[n + 1].block_log2, e)
    BY <1>1, InBlocksStep
  <1>6. InBlocks(ds, n, e) = InBlocks(cs, n, e)
    BY <1>2, InBlocksSame
  <1>7. OwnBlock(y, e) = OwnBlock(x, e)
    BY Zenon DEF OwnBlock
  <1>8. Mark(c.block_log2, e) \in Nat
    BY DEF Mark
  <1>9. InBlocks(ds, Len(ds), e) = InBlocks(cs, n, e) + Mark(c.block_log2, e)
    BY <1>2, <1>5, <1>6
  <1> QED BY <1>3, <1>4, <1>7, <1>8, <1>9

\* A refusal leaves the set and the pool.
LEMMA RefusedIs ==
  ASSUME NEW s \in Steps
  PROVE  /\ refused(s) \in Steps /\ refused(s).result = EXHAUSTED
         /\ refused(s).set = s.set /\ refused(s).pool = s.pool
  <1>1. EXHAUSTED \in {SUCCESS, EXHAUSTED, INVALID_PARAM}
    OBVIOUS
  <1> QED BY <1>1, StepWith, StepParts DEF refused

\* The answers differ.
LEMMA ResultsDiffer == SUCCESS # EXHAUSTED /\ SUCCESS # INVALID_PARAM /\ EXHAUSTED # INVALID_PARAM
  BY DEF SUCCESS, EXHAUSTED, INVALID_PARAM

\* A container pushed into room for it, or refused.
LEMMA PushIs ==
  ASSUME NEW s \in Steps, s.result = SUCCESS, IsGood(s.set), s.set.values = << >>,
         NEW base, Owes(s.pool.lent, s.set, base), NEW c \in Containers,
         NEW p, p = arnm_roaring_push_container(s, c)
  PROVE  \/ p = refused(s)
         \/ \E l \in FIRST_LOG2..LOG2_MAX, pool \in PoolRecords :
              /\ IsStep(p, TRUE, << >>, Append(s.set.containers, c), s.set.cardinality, s.set.maximum,
                        l, pool, SUCCESS)
              /\ \A e \in 0..LOG2_MAX : pool.lent[e] + Mark(c.block_log2, e) = base[e] + named(p.set, e)
              /\ (Len(s.set.containers) + 1) * ENTRY_SIZE <= Pow(l)
  <1> DEFINE n == Len(s.set.containers)
             r == room_for(s, n, ENTRY_SIZE)
  <1>1. /\ s.set \in SetRecords /\ s.set.containers \in Seq(Containers) /\ n \in Nat
        /\ Append(s.set.containers, c) \in Seq(Containers)
    <2>1. s.set \in SetRecords /\ s.set.containers \in Seq(Containers)
      BY StepParts, Fields
    <2> QED BY <2>1
  <1>2. IsDirectory(s.set) \/ s.set = Zeroed
    <2>1. ~IsSparse(s.set)
      <3>1. SUFFICES ASSUME IsSparse(s.set) PROVE FALSE
        OBVIOUS
      <3>2. Len(s.set.values) \in 1..SPARSE_MAX
        BY <3>1 DEF IsSparse
      <3>3. Len(s.set.values) = 0
        OBVIOUS
      <3> QED BY <3>2, <3>3, SizesAre
    <2> QED BY <2>1 DEF IsGood
  <1>3. s.set.block => HasBlock(s.set) /\ n * ENTRY_SIZE <= Pow(s.set.directory_log2)
    BY <1>2, Fields DEF IsDirectory
  <1>4. ~s.set.block => n = 0
    BY <1>2, Fields DEF IsDirectory, HasBlock
  <1>5. ENTRY_SIZE \in Nat \ {0} /\ ENTRY_SIZE <= ENTRY_SIZE
    BY SizesAre
  <1> HIDE DEF n
  <1>6. \/ r = refused(s)
        \/ \E l \in FIRST_LOG2..LOG2_MAX, q \in PoolRecords :
             /\ IsStep(r, TRUE, s.set.values, s.set.containers, s.set.cardinality, s.set.maximum, l,
                       q, SUCCESS)
             /\ Owes(q.lent, r.set, base) /\ (n + 1) * ENTRY_SIZE <= Pow(l)
    BY <1>1, <1>3, <1>4, <1>5, RoomFor
  <1> HIDE DEF r
  <1>7. p = IF r.result # SUCCESS THEN r ELSE [r EXCEPT !.set.containers = Append(r.set.containers, c)]
    BY DEF arnm_roaring_push_container, r, n
  <1>8. CASE r = refused(s)
    BY <1>7, <1>8, RefusedIs, ResultsDiffer
  <1>9. ASSUME NEW l \in FIRST_LOG2..LOG2_MAX, NEW q \in PoolRecords,
               IsStep(r, TRUE, s.set.values, s.set.containers, s.set.cardinality, s.set.maximum, l,
                      q, SUCCESS),
               Owes(q.lent, r.set, base), (n + 1) * ENTRY_SIZE <= Pow(l)
        PROVE  \E m \in FIRST_LOG2..LOG2_MAX, pool \in PoolRecords :
              /\ IsStep(p, TRUE, << >>, Append(s.set.containers, c), s.set.cardinality, s.set.maximum,
                        m, pool, SUCCESS)
              /\ \A e \in 0..LOG2_MAX : pool.lent[e] + Mark(c.block_log2, e) = base[e] + named(p.set, e)
              /\ (n + 1) * ENTRY_SIZE <= Pow(m)
    <2>1. /\ r \in Steps /\ r.result = SUCCESS /\ r.set.containers = s.set.containers
          /\ r.set.directory_log2 = l /\ r.pool = q /\ r.set.block = TRUE
          /\ r.set.values = << >>
          /\ r.set.cardinality = s.set.cardinality /\ r.set.maximum = s.set.maximum
      BY <1>9, Zenon DEF IsStep
    <2>2. p = [r EXCEPT !.set.containers = Append(s.set.containers, c)]
      BY <1>7, <2>1
    <2>3. IsStep(p, r.set.block, r.set.values, Append(s.set.containers, c),
                 r.set.cardinality, r.set.maximum, r.set.directory_log2, r.pool, r.result)
      BY <1>1, <2>1, <2>2, StepPushed, Zenon
    <2>4. IsStep(p, TRUE, << >>, Append(s.set.containers, c), s.set.cardinality, s.set.maximum,
                 l, q, SUCCESS)
      BY <2>1, <2>3, Zenon
    <2>5. ASSUME NEW e \in 0..LOG2_MAX
          PROVE  q.lent[e] + Mark(c.block_log2, e) = base[e] + named(p.set, e)
      <3>1. r.set \in SetRecords /\ p.set \in SetRecords
        BY <2>1, <2>3, StepParts, Zenon DEF IsStep
      <3>2. p.set.block = r.set.block /\ p.set.directory_log2 = r.set.directory_log2
            /\ p.set.containers = Append(r.set.containers, c)
        BY <2>1, <2>3, Zenon DEF IsStep
      <3>3. named(p.set, e) = named(r.set, e) + Mark(c.block_log2, e)
        BY <3>1, <3>2, NamedPushed, SMTT(40)
      <3>4. q.lent[e] = base[e] + named(r.set, e) /\ base[e] \in Int
        BY <1>9 DEF Owes
      <3>5. named(r.set, e) \in Nat /\ Mark(c.block_log2, e) \in Nat
        BY <3>1, NamedIs DEF Mark
      <3> QED BY <3>3, <3>4, <3>5
    <2> QED BY <1>9, <2>4, <2>5
  <1> QED BY <1>6, <1>8, <1>9 DEF n

\* What came of adding X to the set of s: it is in it, or the set is what it was.
Outcome(t, s, base, X) ==
  /\ Working(t, base) /\ t.set.values = << >>
  /\ t.result = SUCCESS => Contents(t.set) = Contents(s.set) \cup X
  /\ t.result # SUCCESS => t.set = s.set

\* A step that stands refused.
LEMMA RefusedOutcome ==
  ASSUME NEW s, NEW base, Working(s, base), s.set.values = << >>, NEW X
  PROVE  Outcome(refused(s), s, base, X)
  <1>1. /\ refused(s) \in Steps /\ refused(s).result = EXHAUSTED
        /\ refused(s).set = s.set /\ refused(s).pool = s.pool
    BY RefusedIs DEF Working
  <1>2. Working(refused(s), base)
    BY <1>1 DEF Working
  <1> QED BY <1>1, <1>2, ResultsDiffer DEF Outcome

\* A block taken for a container that is pushed, and given back when it finds no room.
LEMMA TakenPush ==
  ASSUME NEW s, NEW base, Working(s, base), s.result = SUCCESS, s.set.values = << >>,
         NEW c \in Containers, NEW log2, log2 = c.block_log2, grants(s.pool, log2),
         NEW p, p = arnm_roaring_push_container([s EXCEPT !.pool = take(s.pool, log2)], c),
         NEW f, f = [p EXCEPT !.pool = give(p.pool, log2)]
  PROVE  /\ log2 \in 0..LOG2_MAX
         /\ \/ /\ p.result = EXHAUSTED /\ f \in Steps /\ f.result = EXHAUSTED /\ f.set = s.set
               /\ Owes(f.pool.lent, f.set, base)
            \/ \E l \in FIRST_LOG2..LOG2_MAX, pool \in PoolRecords :
                 /\ IsStep(p, TRUE, << >>, Append(s.set.containers, c), s.set.cardinality,
                           s.set.maximum, l, pool, SUCCESS)
                 /\ Owes(pool.lent, p.set, base)
                 /\ (Len(s.set.containers) + 1) * ENTRY_SIZE <= Pow(l)
  <1> DEFINE q == [s EXCEPT !.pool = take(s.pool, log2)]
             above == [e \in 0..LOG2_MAX |-> base[e] + Mark(log2, e)]
  <1>1. /\ s \in Steps /\ IsGood(s.set) /\ Owes(s.pool.lent, s.set, base) /\ log2 \in Nat
        /\ s.set \in SetRecords /\ s.pool \in PoolRecords /\ s.set.cardinality \in Nat
    BY StepParts, Fields DEF Working
  <1>2. log2 \in 0..LOG2_MAX
    BY <1>1, SizesAre DEF grants
  <1>3. /\ take(s.pool, log2) \in PoolRecords
        /\ \A e \in 0..LOG2_MAX : take(s.pool, log2).lent[e] = s.pool.lent[e] + Mark(log2, e)
    BY <1>1, <1>2, TakeGive
  <1>4. /\ q \in Steps /\ q.set = s.set /\ q.pool = take(s.pool, log2) /\ q.result = SUCCESS
    BY <1>1, <1>3, StepWith
  <1>5. p = arnm_roaring_push_container(q, c)
    OBVIOUS
  <1> HIDE DEF q
  <1>6. /\ base \in [0..LOG2_MAX -> Int]
        /\ \A e \in 0..LOG2_MAX : s.pool.lent[e] = base[e] + named(s.set, e) /\ named(s.set, e) \in Nat
    BY <1>1, NamedIs DEF Owes
  <1>7. \A e \in 0..LOG2_MAX : above[e] = base[e] + Mark(log2, e) /\ Mark(log2, e) \in Int
    BY DEF Mark
  <1>8. above \in [0..LOG2_MAX -> Int]
    BY <1>6 DEF Mark
  <1> HIDE DEF above
  <1>9. Owes(q.pool.lent, q.set, above)
    <2>1. q.pool.lent \in [0..LOG2_MAX -> Int]
      BY <1>3, <1>4, Fields
    <2>2. ASSUME NEW e \in 0..LOG2_MAX PROVE q.pool.lent[e] = above[e] + named(q.set, e)
      <3>1. q.pool.lent[e] = s.pool.lent[e] + Mark(log2, e)
        BY <1>3, <1>4
      <3>2. /\ s.pool.lent[e] = base[e] + named(s.set, e) /\ base[e] \in Int
            /\ named(s.set, e) \in Nat /\ q.set = s.set
        BY <1>4, <1>6
      <3>3. above[e] = base[e] + Mark(log2, e) /\ Mark(log2, e) \in Int
        BY <1>7
      <3> QED BY <3>1, <3>2, <3>3
    <2> QED BY <1>8, <2>1, <2>2 DEF Owes
  <1>10. \/ p = refused(q)
         \/ \E l \in FIRST_LOG2..LOG2_MAX, pool \in PoolRecords :
              /\ IsStep(p, TRUE, << >>, Append(q.set.containers, c), q.set.cardinality, q.set.maximum,
                        l, pool, SUCCESS)
              /\ \A e \in 0..LOG2_MAX : pool.lent[e] + Mark(c.block_log2, e) = above[e] + named(p.set, e)
              /\ (Len(q.set.containers) + 1) * ENTRY_SIZE <= Pow(l)
    BY <1>1, <1>4, <1>5, <1>9, PushIs
  <1>11. CASE p = refused(q)
    <2>1. p \in Steps /\ p.result = EXHAUSTED /\ p.set = s.set /\ p.pool = q.pool
      BY <1>4, <1>11, RefusedIs
    <2> DEFINE g == give(p.pool, log2)
    <2>2. p.pool \in PoolRecords /\ g \in PoolRecords
          /\ \A e \in 0..LOG2_MAX : g.lent[e] = p.pool.lent[e] - Mark(log2, e)
      BY <1>2, <2>1, StepParts, TakeGive
    <2>3. f = [p EXCEPT !.pool = g]
      OBVIOUS
    <2> HIDE DEF g
    <2>4. /\ [p EXCEPT !.pool = g] \in Steps /\ [p EXCEPT !.pool = g].result = p.result
          /\ [p EXCEPT !.pool = g].set = p.set /\ [p EXCEPT !.pool = g].pool = g
      BY ONLY <2>1, <2>2, StepWith
    <2>5. f \in Steps /\ f.result = EXHAUSTED /\ f.set = s.set /\ f.pool = g
      BY <2>1, <2>3, <2>4, Zenon
    <2>6. ASSUME NEW e \in 0..LOG2_MAX PROVE g.lent[e] = base[e] + named(s.set, e)
      <3>1. g.lent[e] = p.pool.lent[e] - Mark(log2, e) /\ p.pool.lent[e] = s.pool.lent[e] + Mark(log2, e)
        BY <1>3, <1>4, <2>1, <2>2
      <3>2. s.pool.lent[e] = base[e] + named(s.set, e) /\ base[e] \in Int /\ named(s.set, e) \in Nat
        BY <1>6
      <3>3. Mark(log2, e) \in Int
        BY DEF Mark
      <3> QED BY <3>1, <3>2, <3>3
    <2>7. g.lent \in [0..LOG2_MAX -> Int]
      BY <2>2, Fields
    <2>8. Owes(f.pool.lent, f.set, base)
      BY <1>6, <2>5, <2>6, <2>7 DEF Owes
    <2> QED BY <1>2, <2>1, <2>5, <2>8
  <1>12. ASSUME NEW l \in FIRST_LOG2..LOG2_MAX, NEW pool \in PoolRecords,
                IsStep(p, TRUE, << >>, Append(q.set.containers, c), q.set.cardinality, q.set.maximum,
                       l, pool, SUCCESS),
                \A e \in 0..LOG2_MAX : pool.lent[e] + Mark(c.block_log2, e) = above[e] + named(p.set, e),
                (Len(q.set.containers) + 1) * ENTRY_SIZE <= Pow(l)
         PROVE  /\ IsStep(p, TRUE, << >>, Append(s.set.containers, c), s.set.cardinality,
                          s.set.maximum, l, pool, SUCCESS)
                /\ Owes(pool.lent, p.set, base)
                /\ (Len(s.set.containers) + 1) * ENTRY_SIZE <= Pow(l)
    <2>1. IsStep(p, TRUE, << >>, Append(s.set.containers, c), s.set.cardinality, s.set.maximum, l,
                 pool, SUCCESS)
      BY <1>4, <1>12, Zenon
    <2>2. p.set \in SetRecords
      BY <2>1, StepParts DEF IsStep
    <2>3. ASSUME NEW e \in 0..LOG2_MAX PROVE pool.lent[e] = base[e] + named(p.set, e)
      <3>1. pool.lent[e] + Mark(log2, e) = above[e] + named(p.set, e)
        BY <1>12
      <3>2. above[e] = base[e] + Mark(log2, e) /\ Mark(log2, e) \in Int /\ base[e] \in Int
        BY <1>6, <1>7
      <3>3. named(p.set, e) \in Nat /\ pool.lent[e] \in Int
        BY <2>2, NamedIs, LentCounts
      <3> QED BY <3>1, <3>2, <3>3
    <2>4. pool.lent \in [0..LOG2_MAX -> Int]
      BY Fields
    <2> QED BY <1>4, <1>6, <1>12, <2>1, <2>3, <2>4 DEF Owes
  <1> QED BY <1>2, <1>10, <1>11, <1>12

\* A container in a block of its own behind the others; or nothing of it.
LEMMA EmitIs ==
  ASSUME NEW s, NEW base, Working(s, base), s.result = SUCCESS, s.set.values = << >>,
         NEW c, IsFilled(c), \A v \in Contents(s.set) : key_of(v) < c.key,
         NEW top \in Lows(c), \A l \in Lows(c) : l <= top,
         NEW t, t = emit(s, c, top)
  PROVE  Outcome(t, s, base, At(c.key, Lows(c)))
  <1> DEFINE log2 == c.block_log2
             p == arnm_roaring_push_container([s EXCEPT !.pool = take(s.pool, log2)], c)
             f == [p EXCEPT !.pool = give(p.pool, log2)]
  <1>1. /\ s \in Steps /\ IsGood(s.set) /\ c \in Containers /\ c.cardinality \in Nat
        /\ s.set \in SetRecords /\ s.set.cardinality \in Nat
    BY StepParts, Fields DEF Working, IsFilled
  <1>2. CASE s.set.cardinality > COUNT_MAX - c.cardinality \/ ~grants(s.pool, log2)
    <2>1. t = refused(s)
      BY <1>2 DEF emit
    <2> QED BY <2>1, RefusedOutcome
  <1>3. CASE ~(s.set.cardinality > COUNT_MAX - c.cardinality \/ ~grants(s.pool, log2))
    <2>1. t = IF p.result # SUCCESS THEN f
              ELSE [p EXCEPT !.set.cardinality = p.set.cardinality + c.cardinality,
                             !.set.maximum = value_of(c.key, top)]
      BY <1>3 DEF emit
    <2>2. /\ log2 \in 0..LOG2_MAX
          /\ \/ /\ p.result = EXHAUSTED /\ f \in Steps /\ f.result = EXHAUSTED /\ f.set = s.set
                /\ Owes(f.pool.lent, f.set, base)
             \/ \E l \in FIRST_LOG2..LOG2_MAX, pool \in PoolRecords :
                  /\ IsStep(p, TRUE, << >>, Append(s.set.containers, c), s.set.cardinality,
                            s.set.maximum, l, pool, SUCCESS)
                  /\ Owes(pool.lent, p.set, base)
                  /\ (Len(s.set.containers) + 1) * ENTRY_SIZE <= Pow(l)
      BY <1>1, <1>3, TakenPush
    <2> HIDE DEF p, f
    <2>3. ASSUME p.result = EXHAUSTED, f \in Steps, f.result = EXHAUSTED, f.set = s.set,
                 Owes(f.pool.lent, f.set, base)
          PROVE  Outcome(t, s, base, At(c.key, Lows(c)))
      <3>1. t = f
        BY <2>1, <2>3, ResultsDiffer
      <3>2. Working(f, base)
        BY <1>1, <2>3 DEF Working
      <3> QED BY <2>3, <3>1, <3>2, ResultsDiffer DEF Outcome
    <2>4. ASSUME NEW l \in FIRST_LOG2..LOG2_MAX, NEW pool \in PoolRecords,
                 IsStep(p, TRUE, << >>, Append(s.set.containers, c), s.set.cardinality,
                        s.set.maximum, l, pool, SUCCESS),
                 Owes(pool.lent, p.set, base),
                 (Len(s.set.containers) + 1) * ENTRY_SIZE <= Pow(l)
          PROVE  Outcome(t, s, base, At(c.key, Lows(c)))
      <3> DEFINE k == s.set.cardinality + c.cardinality
                 m == value_of(c.key, top)
      <3>1. /\ p \in Steps /\ p.result = SUCCESS /\ p.set.containers = Append(s.set.containers, c)
            /\ p.set.values = << >> /\ p.set.block = TRUE /\ p.set.directory_log2 = l
            /\ p.set.cardinality = s.set.cardinality /\ p.pool = pool
        BY <2>4, Zenon DEF IsStep
      <3>2. t = [p EXCEPT !.set.cardinality = k, !.set.maximum = m]
        BY <2>1, <3>1
      <3>3. k \in Nat /\ m \in Nat
        <4>1. k \in Nat
          BY <1>1
        <4>2. c.key \in Nat /\ top \in LowParts
          BY LowsAre DEF IsFilled
        <4> QED BY <4>1, <4>2, KeysAndLows
      <3> HIDE DEF k, m
      <3>4. IsStep(t, p.set.block, p.set.values, p.set.containers, k, m, p.set.directory_log2, p.pool, p.result)
        BY <3>1, <3>2, <3>3, StepCounted, ZenonT(60)
      <3>5. /\ t \in Steps /\ t.set.block = TRUE /\ t.set.values = << >>
            /\ t.set.containers = Append(s.set.containers, c) /\ t.set.cardinality = k
            /\ t.set.maximum = m /\ t.set.directory_log2 = l /\ t.pool = pool /\ t.result = SUCCESS
        BY <3>1, <3>4, Zenon DEF IsStep
      <3>6. HasBlock(t.set) /\ (Len(s.set.containers) + 1) * ENTRY_SIZE <= Pow(t.set.directory_log2)
        BY <2>4, <3>5, StepParts DEF HasBlock
      <3>7. IsStored(c)
        BY <2>2 DEF IsStored
      <3>8. IsDirectory(t.set) /\ Contents(t.set) = Contents(s.set) \cup At(c.key, Lows(c))
        BY <1>1, <3>5, <3>6, <3>7, Pushed DEF k, m
      <3>9. Owes(t.pool.lent, t.set, base)
        <4>1. \A e : named(t.set, e) = named(p.set, e)
          BY <3>1, <3>5, Zenon DEF named
        <4> QED BY <2>4, <3>5, <4>1 DEF Owes
      <3>10. Working(t, base)
        BY <3>5, <3>8, <3>9 DEF Working, IsGood
      <3> QED BY <3>5, <3>8, <3>10 DEF Outcome
    <2> QED BY <2>2, <2>3, <2>4
  <1> QED BY <1>2, <1>3

\* The fields of a container.
LEMMA ContainerIs ==
  ASSUME NEW key \in Nat, NEW kind \in Kinds, NEW lows \in LowRecords,
         NEW n \in Nat, NEW log2 \in Nat
  PROVE  /\ Container(key, kind, lows, n, log2) \in Containers
         /\ Container(key, kind, lows, n, log2).key = key
         /\ Container(key, kind, lows, n, log2).kind = kind
         /\ Container(key, kind, lows, n, log2).lows = lows
         /\ Container(key, kind, lows, n, log2).cardinality = n
         /\ Container(key, kind, lows, n, log2).block_log2 = log2
  BY Zenon DEF Container, Containers

\* The kinds differ.
LEMMA KindsDiffer == ARRAY # BITMAP
  BY DEF ARRAY, BITMAP

\* Low parts in order become a container (arnm_roaring_emit_array).
LEMMA EmitArrayIs ==
  ASSUME NEW s, NEW base, Working(s, base), s.result = SUCCESS, s.set.values = << >>,
         NEW key \in Nat, \A v \in Contents(s.set) : key_of(v) < key,
         NEW q, Ascends(q), ToSet(q) \subseteq LowParts, Len(q) <= ARRAY_MAX,
         NEW t, t = arnm_roaring_emit_array(s, key, q)
  PROVE  Outcome(t, s, base, At(key, ToSet(q)))
  <1> DEFINE n == Len(q)
             bytes == n * LOW_SIZE
             log2 == log2_for_bytes(bytes)
             c == Container(key, ARRAY, q, n, log2)
  <1>1. n \in Nat /\ q \in Seq(Nat) /\ ARRAY_MAX \in Nat \ {0} /\ LOW_SIZE \in Nat \ {0}
    BY SizesAre DEF Ascends
  <1>2. CASE q = << >>
    <2>1. t = s
      BY <1>2 DEF arnm_roaring_emit_array
    <2>2. ToSet(q) = {}
      BY <1>2 DEF ToSet
    <2>3. At(key, ToSet(q)) = {}
      BY <2>2 DEF At
    <2> QED BY <2>1, <2>3 DEF Outcome
  <1>3. CASE q # << >>
    <2>1. t = emit(s, c, Last(q))
      BY <1>3 DEF arnm_roaring_emit_array
    <2>2. n > 0
      BY <1>1, <1>3
    <2>3. bytes \in Nat \ {0} /\ bytes <= Pow(BITMAP_LOG2)
      <3>1. ARRAY_MAX * LOW_SIZE = Pow(BITMAP_LOG2)
        BY SizesAre
      <3> DEFINE d == ARRAY_MAX - n
      <3>2. d \in Nat /\ ARRAY_MAX = n + d
        BY <1>1
      <3>3. d * LOW_SIZE \in Nat
        BY <1>1, <3>2
      <3>4. ARRAY_MAX * LOW_SIZE = n * LOW_SIZE + d * LOW_SIZE
        BY <1>1, <3>2
      <3>5. bytes \in Nat \ {0}
        BY <1>1, <2>2
      <3> HIDE DEF d
      <3> QED BY <3>1, <3>3, <3>4, <3>5
    <2> HIDE DEF bytes
    <2>4. log2 \in Nat /\ FIRST_LOG2 <= log2 /\ bytes <= Pow(log2)
      BY <2>3, Log2Is
    <2> HIDE DEF log2
    <2>5. /\ c \in Containers /\ c.key = key /\ c.kind = ARRAY /\ c.lows = q
          /\ c.cardinality = n /\ c.block_log2 = log2
      <3>1. ARRAY \in Kinds /\ q \in LowRecords /\ n \in Nat /\ log2 \in Nat
        BY <1>1, <2>4 DEF Kinds, LowRecords
      <3> HIDE DEF n
      <3> QED BY ONLY <3>1, key \in Nat, ContainerIs
    <2> HIDE DEF c
    <2>6. Lows(c) = ToSet(q)
      BY <2>5, KindsDiffer DEF Lows
    <2>7. Cardinality(ToSet(q)) = n /\ Last(q) \in ToSet(q) /\ \A v \in ToSet(q) : v <= Last(q)
      BY <2>2, AscendsCounts
    <2>8. IsFilled(c)
      <3>1. IsReadable(c)
        BY <2>5 DEF IsReadable
      <3>2. c.cardinality * LOW_SIZE <= Pow(c.block_log2)
        BY <2>4, <2>5 DEF bytes
      <3> QED BY <2>2, <2>4, <2>5, <2>6, <2>7, <3>1, <3>2, KindsDiffer DEF IsFilled
    <2> HIDE DEF n
    <2>9. Outcome(t, s, base, At(c.key, Lows(c)))
      BY <2>1, <2>5, <2>6, <2>7, <2>8, EmitIs
    <2> QED BY <2>5, <2>6, <2>9
  <1> QED BY <1>2, <1>3

\* Bits become an array or a bitmap by their count (arnm_roaring_emit_words).
LEMMA EmitWordsIs ==
  ASSUME NEW s, NEW base, Working(s, base), s.result = SUCCESS, s.set.values = << >>,
         NEW key \in Nat, \A v \in Contents(s.set) : key_of(v) < key,
         NEW bits \in SUBSET LowParts,
         NEW t, t = arnm_roaring_emit_words(s, key, bits)
  PROVE  Outcome(t, s, base, At(key, bits))
  <1> DEFINE n == Cardinality(bits)
             c == Container(key, BITMAP, bits, n, BITMAP_LOG2)
  <1>1. bits \in SUBSET Nat /\ IsFiniteSet(bits) /\ n \in Nat /\ ARRAY_MAX \in Nat
    BY LowPartsAre, FS_Subset, FS_CardinalityType, SizesAre
  <1>2. CASE n <= ARRAY_MAX
    <2>1. t = arnm_roaring_emit_array(s, key, ascending(bits))
      BY <1>2 DEF arnm_roaring_emit_words
    <2>2. /\ Ascends(ascending(bits)) /\ Len(ascending(bits)) = n /\ ToSet(ascending(bits)) = bits
      BY <1>1, AscendingIs
    <2>3. Outcome(t, s, base, At(key, ToSet(ascending(bits))))
      BY <1>2, <2>1, <2>2, EmitArrayIs
    <2> QED BY <2>2, <2>3
  <1>3. CASE ~(n <= ARRAY_MAX)
    <2>1. t = emit(s, c, Max(bits))
      BY <1>3 DEF arnm_roaring_emit_words
    <2>2. Max(bits) \in bits /\ \A x \in bits : x <= Max(bits)
      <3>1. bits # {}
        <4>1. SUFFICES ASSUME bits = {} PROVE FALSE
          OBVIOUS
        <4>2. n = 0
          BY <4>1, FS_EmptySet
        <4> QED BY <1>1, <1>3, <4>2
      <3>2. PICK m \in bits : \A x \in bits : x <= m
        BY <1>1, <3>1, FiniteMax
      <3>3. \A x \in bits : m >= x
        <4>1. \A x \in bits : x \in Nat
          BY <1>1
        <4> QED BY <3>2, <4>1
      <3>4. Max(bits) \in bits /\ \A x \in bits : Max(bits) >= x
        BY <3>3 DEF Max
      <3>5. \A x \in bits : x \in Nat
        BY <1>1
      <3> QED BY <3>4, <3>5
    <2> HIDE DEF n
    <2>3. BITMAP_LOG2 \in Nat
      BY SizesAre
    <2>4. /\ c \in Containers /\ c.key = key /\ c.kind = BITMAP /\ c.lows = bits
          /\ c.cardinality = n /\ c.block_log2 = BITMAP_LOG2
      <3>1. BITMAP \in Kinds /\ bits \in LowRecords /\ n \in Nat
        BY <1>1 DEF n, Kinds, LowRecords
      <3> QED BY ONLY <2>3, <3>1, key \in Nat, ContainerIs
    <2> HIDE DEF c
    <2>5. Lows(c) = bits
      BY <2>4 DEF Lows
    <2>6. IsFilled(c)
      <3>1. IsReadable(c)
        BY <2>4 DEF IsReadable
      <3>2. ARRAY_MAX < n /\ n > 0
        BY <1>1, <1>3
      <3> QED BY <2>4, <2>5, <3>1, <3>2, KindsDiffer DEF IsFilled, n
    <2>7. Outcome(t, s, base, At(c.key, Lows(c)))
      BY <2>1, <2>2, <2>4, <2>5, <2>6, EmitIs
    <2> QED BY <2>4, <2>5, <2>7
  <1> QED BY <1>2, <1>3

-----------------------------------------------------------------------------
(* The folds: blocks given back, values split into keys, and two sources   *)
(* merged key by key.                                                      *)

Freeing                  == [kind |-> "free"]
Splitting(values)        == [kind |-> "values", values |-> values]
Meeting(sa, sb, r)       == [kind |-> "and", sa |-> sa, sb |-> sb, r |-> r]
Merging(sa, sb, r)       == [kind |-> "or", sa |-> sa, sb |-> sb, r |-> r]
Reducing(sa, sb, r)      == [kind |-> "andnot", sa |-> sa, sb |-> sb, r |-> r]
Copying(sa, r)           == [kind |-> "copy", sa |-> sa, r |-> r]

\* A turn of one of them.
Turn(how, s, x) ==
  CASE how.kind = "free" -> give(s, x.block_log2)
    [] how.kind = "values" -> values_key(s, how.values, x)
    [] how.kind = "and" -> and_key(s, how.sa, how.sb, how.r, x)
    [] how.kind = "or" -> or_key(s, how.sa, how.sb, how.r, x)
    [] how.kind = "andnot" -> andnot_key(s, how.sa, how.sb, how.r, x)
    [] how.kind = "copy" -> copy_key(s, how.sa, how.r, x)

\* The library's fold is a recursive function of the sets of places.
Folding(how, b, q, n, f) ==
  [S \in SUBSET (1..n) |->
     IF S = {} THEN b ELSE Turn(how, f[S \ {Max(S)}], q[Max(S)])]

\* The greatest of the first n places is the last.
LEMMA LastOf ==
  ASSUME NEW n \in Nat, NEW S \in SUBSET (1..n), n \in S
  PROVE  Max(S) = n
  <1>1. n \in S /\ \A y \in S : n >= y
    OBVIOUS
  <1>2. Max(S) \in S /\ \A y \in S : Max(S) >= y
    BY <1>1 DEF Max
  <1> DEFINE x == Max(S)
  <1>3. x \in S /\ x >= n /\ n >= x
    BY <1>1, <1>2
  <1> HIDE DEF x
  <1>4. x \in Nat
    BY <1>3
  <1>5. x = n
    BY <1>3, <1>4
  <1> QED BY <1>5 DEF x

\* Such a function exists, for as many places as there are.
LEMMA FoldingExists ==
  ASSUME NEW how, NEW b, NEW q, NEW N \in Nat
  PROVE  \E f : f = Folding(how, b, q, N, f)
  <1> DEFINE Is(f, n) == f = Folding(how, b, q, n, f)
             P == {n \in Nat : \E f : Is(f, n)}
  <1>1. 0 \in P
    <2> DEFINE f == [S \in SUBSET (1..0) |-> b]
    <2>1. \A S \in SUBSET (1..0) : S = {}
      OBVIOUS
    <2>2. Is(f, 0)
      BY <2>1 DEF Folding
    <2> HIDE DEF f, Is
    <2> QED BY <2>2
  <1>2. ASSUME NEW n \in P PROVE n + 1 \in P
    <2>1. n \in Nat /\ n + 1 \in Nat
      BY <1>2
    <2>2. PICK f : Is(f, n)
      BY <1>2
    <2> DEFINE t == n + 1
               g == [S \in SUBSET (1..t) |->
                       IF t \in S THEN Turn(how, f[S \ {t}], q[t]) ELSE f[S]]
    <2>3. \A S \in SUBSET (1..t) : t \notin S => S \in SUBSET (1..n)
      BY <2>1
    <2>4. \A S \in SUBSET (1..n) :
             f[S] = IF S = {} THEN b ELSE Turn(how, f[S \ {Max(S)}], q[Max(S)])
      BY <2>2 DEF Folding
    <2>5. ASSUME NEW S \in SUBSET (1..t)
          PROVE  g[S] = IF S = {} THEN b ELSE Turn(how, g[S \ {Max(S)}], q[Max(S)])
      <3>1. CASE t \in S
        <4>1. Max(S) = t
          BY <2>1, <3>1, LastOf
        <4>2. S \ {t} \in SUBSET (1..t) /\ t \notin S \ {t} /\ S # {}
          BY <3>1
        <4>3. g[S \ {t}] = f[S \ {t}] /\ g[S] = Turn(how, f[S \ {t}], q[t])
          BY <3>1, <4>2
        <4> HIDE DEF g, t
        <4> QED BY <4>1, <4>2, <4>3, Zenon
      <3>2. CASE t \notin S
        <4> DEFINE x == Max(S)
        <4>1. /\ S \in SUBSET (1..n) /\ S \ {x} \in SUBSET (1..n) /\ t \notin S \ {x}
              /\ S \ {x} \in SUBSET (1..t)
          BY <2>3, <3>2
        <4>2. f[S] = IF S = {} THEN b ELSE Turn(how, f[S \ {x}], q[x])
          BY <2>4, <4>1
        <4>3. g[S] = f[S] /\ g[S \ {x}] = f[S \ {x}]
          <5> HIDE DEF x
          <5> QED BY <3>2, <4>1
        <4> HIDE DEF g, t
        <4> QED BY <4>2, <4>3, Zenon
      <3> QED BY <3>1, <3>2
    <2>6. g = [S \in SUBSET (1..t) |-> g[S]]
      OBVIOUS
    <2>7. Is(g, t)
      <3> HIDE DEF g, t
      <3>1. Folding(how, b, q, t, g) = [S \in SUBSET (1..t) |-> g[S]]
        BY <2>5, Zenon DEF Folding
      <3> QED BY <2>6, <3>1
    <2> HIDE DEF g, Is
    <2> QED BY <2>1, <2>7
  <1>3. P = Nat
    <2> HIDE DEF P
    <2> QED BY <1>1, <1>2, NatSetInduction, P \in SUBSET Nat DEF P
  <1> QED BY <1>3

\* H[i] is what the first i turns make of b.
InTurn(H, how, b, q, n) ==
  /\ H[0] = b
  /\ \A i \in 1..n : H[i] = Turn(how, H[i - 1], q[i])

\* The fold takes its turns one after the other.
LEMMA FoldInTurn ==
  ASSUME NEW how, NEW b, NEW q, NEW n \in Nat, NEW f, f = Folding(how, b, q, n, f)
  PROVE  \E H : InTurn(H, how, b, q, n) /\ H[n] = f[1..n]
  <1> DEFINE H == [i \in 0..n |-> f[1..i]]
  <1>1. \A S \in SUBSET (1..n) :
           f[S] = IF S = {} THEN b ELSE Turn(how, f[S \ {Max(S)}], q[Max(S)])
    BY DEF Folding
  <1>2. H[0] = b
    <2>1. 1..0 = {} /\ 0 \in 0..n /\ {} \in SUBSET (1..n)
      OBVIOUS
    <2>2. f[{}] = b
      BY <1>1, <2>1
    <2> QED BY <2>1, <2>2
  <1>3. ASSUME NEW i \in 1..n PROVE H[i] = Turn(how, H[i - 1], q[i])
    <2> DEFINE S == 1..i
    <2>1. /\ i \in Nat /\ S \in SUBSET (1..n) /\ S # {} /\ i \in S /\ S \in SUBSET (1..i)
          /\ i \in 0..n /\ i - 1 \in 0..n
      OBVIOUS
    <2>2. S \ {i} = 1..(i - 1)
      OBVIOUS
    <2>3. H[i] = f[S] /\ H[i - 1] = f[1..(i - 1)]
      BY <2>1
    <2> HIDE DEF S, H
    <2>4. Max(S) = i
      BY <2>1, LastOf
    <2>5. f[S] = Turn(how, f[S \ {Max(S)}], q[Max(S)])
      BY <1>1, <2>1
    <2>6. f[S] = Turn(how, f[1..(i - 1)], q[i])
      BY <2>2, <2>4, <2>5, Zenon
    <2> QED BY <2>3, <2>6, Zenon
  <1>4. H[n] = f[1..n]
    OBVIOUS
  <1> HIDE DEF H
  <1>5. InTurn(H, how, b, q, n)
    BY <1>2, <1>3 DEF InTurn
  <1> QED BY <1>4, <1>5

Freed(b, q) == FoldLeft(LAMBDA s, x : give(s, x.block_log2), b, q)
Split(values, b, q) == FoldLeft(LAMBDA s, x : values_key(s, values, x), b, q)
Met(sa, sb, r, b, q) == FoldLeft(LAMBDA s, x : and_key(s, sa, sb, r, x), b, q)
Merged(sa, sb, r, b, q) == FoldLeft(LAMBDA s, x : or_key(s, sa, sb, r, x), b, q)
Reduced(sa, sb, r, b, q) == FoldLeft(LAMBDA s, x : andnot_key(s, sa, sb, r, x), b, q)
Copied(sa, r, b, q) == FoldLeft(LAMBDA s, x : copy_key(s, sa, r, x), b, q)

\* A turn of each.
LEMMA Turns ==
  ASSUME NEW s, NEW x, NEW values, NEW sa, NEW sb, NEW r
  PROVE  /\ Turn(Freeing, s, x) = give(s, x.block_log2)
         /\ Turn(Splitting(values), s, x) = values_key(s, values, x)
         /\ Turn(Meeting(sa, sb, r), s, x) = and_key(s, sa, sb, r, x)
         /\ Turn(Merging(sa, sb, r), s, x) = or_key(s, sa, sb, r, x)
         /\ Turn(Reducing(sa, sb, r), s, x) = andnot_key(s, sa, sb, r, x)
         /\ Turn(Copying(sa, r), s, x) = copy_key(s, sa, r, x)
  <1>1. /\ Freeing.kind = "free"
        /\ Splitting(values).kind = "values" /\ Splitting(values).values = values
        /\ Meeting(sa, sb, r).kind = "and" /\ Meeting(sa, sb, r).sa = sa /\ Meeting(sa, sb, r).sb = sb /\ Meeting(sa, sb, r).r = r
        /\ Merging(sa, sb, r).kind = "or" /\ Merging(sa, sb, r).sa = sa /\ Merging(sa, sb, r).sb = sb /\ Merging(sa, sb, r).r = r
        /\ Reducing(sa, sb, r).kind = "andnot" /\ Reducing(sa, sb, r).sa = sa /\ Reducing(sa, sb, r).sb = sb /\ Reducing(sa, sb, r).r = r
        /\ Copying(sa, r).kind = "copy" /\ Copying(sa, r).sa = sa /\ Copying(sa, r).r = r
    BY DEF Freeing, Splitting, Meeting, Merging, Reducing, Copying
  <1> HIDE DEF Freeing, Splitting, Meeting, Merging, Reducing, Copying
  <1>2. /\ "free" # "values" /\ "free" # "and" /\ "free" # "or" /\ "free" # "andnot" /\ "free" # "copy"
        /\ "values" # "free" /\ "values" # "and" /\ "values" # "or" /\ "values" # "andnot" /\ "values" # "copy"
        /\ "and" # "free" /\ "and" # "values" /\ "and" # "or" /\ "and" # "andnot" /\ "and" # "copy"
        /\ "or" # "free" /\ "or" # "values" /\ "or" # "and" /\ "or" # "andnot" /\ "or" # "copy"
        /\ "andnot" # "free" /\ "andnot" # "values" /\ "andnot" # "and" /\ "andnot" # "or" /\ "andnot" # "copy"
        /\ "copy" # "free" /\ "copy" # "values" /\ "copy" # "and" /\ "copy" # "or" /\ "copy" # "andnot"
    OBVIOUS
  <1> QED BY <1>1, <1>2, SMT DEF Turn

\* The containers of a set are given back one after the other.
LEMMA FreedInTurn ==
  ASSUME NEW b, NEW q, NEW n \in Nat, DOMAIN q = 1..n
  PROVE  \E H : InTurn(H, Freeing, b, q, n) /\ Freed(b, q) = H[n]
  <1> DEFINE A(f) == [S \in SUBSET (DOMAIN q) |->
                        IF S = {} THEN b ELSE give(f[S \ {Max(S)}], q[Max(S)].block_log2)]
             f == CHOOSE g : g = A(g)
  <1>1. Freed(b, q) = f[DOMAIN q]
    BY Zenon DEF Freed, FoldLeft, MapThenFoldSet
  <1>2. ASSUME NEW g PROVE A(g) = Folding(Freeing, b, q, n, g)
    BY Turns DEF Folding
  <1> HIDE DEF A
  <1>3. f = A(f)
    BY <1>2, FoldingExists
  <1> HIDE DEF f
  <1>4. f = Folding(Freeing, b, q, n, f)
    BY <1>2, <1>3, Zenon
  <1>5. PICK H : InTurn(H, Freeing, b, q, n) /\ H[n] = f[1..n]
    BY <1>4, FoldInTurn
  <1> QED BY <1>1, <1>5, Zenon

\* Values become containers one key after the other.
LEMMA SplitInTurn ==
  ASSUME NEW values, NEW b, NEW q, NEW n \in Nat, DOMAIN q = 1..n
  PROVE  \E H : InTurn(H, Splitting(values), b, q, n) /\ Split(values, b, q) = H[n]
  <1> DEFINE A(f) == [S \in SUBSET (DOMAIN q) |->
                        IF S = {} THEN b ELSE values_key(f[S \ {Max(S)}], values, q[Max(S)])]
             f == CHOOSE g : g = A(g)
  <1>1. Split(values, b, q) = f[DOMAIN q]
    BY Zenon DEF Split, FoldLeft, MapThenFoldSet
  <1>2. ASSUME NEW g PROVE A(g) = Folding(Splitting(values), b, q, n, g)
    BY Turns DEF Folding
  <1> HIDE DEF A
  <1>3. f = A(f)
    BY <1>2, FoldingExists
  <1> HIDE DEF f
  <1>4. f = Folding(Splitting(values), b, q, n, f)
    BY <1>2, <1>3, Zenon
  <1>5. PICK H : InTurn(H, Splitting(values), b, q, n) /\ H[n] = f[1..n]
    BY <1>4, FoldInTurn
  <1> QED BY <1>1, <1>5, Zenon

\* The keys of an intersection are met one after the other.
LEMMA MetInTurn ==
  ASSUME NEW sa, NEW sb, NEW r, NEW b, NEW q, NEW n \in Nat, DOMAIN q = 1..n
  PROVE  \E H : InTurn(H, Meeting(sa, sb, r), b, q, n) /\ Met(sa, sb, r, b, q) = H[n]
  <1> DEFINE A(f) == [S \in SUBSET (DOMAIN q) |->
                        IF S = {} THEN b ELSE and_key(f[S \ {Max(S)}], sa, sb, r, q[Max(S)])]
             f == CHOOSE g : g = A(g)
  <1>1. Met(sa, sb, r, b, q) = f[DOMAIN q]
    BY Zenon DEF Met, FoldLeft, MapThenFoldSet
  <1>2. ASSUME NEW g PROVE A(g) = Folding(Meeting(sa, sb, r), b, q, n, g)
    BY Turns DEF Folding
  <1> HIDE DEF A
  <1>3. f = A(f)
    BY <1>2, FoldingExists
  <1> HIDE DEF f
  <1>4. f = Folding(Meeting(sa, sb, r), b, q, n, f)
    BY <1>2, <1>3, Zenon
  <1>5. PICK H : InTurn(H, Meeting(sa, sb, r), b, q, n) /\ H[n] = f[1..n]
    BY <1>4, FoldInTurn
  <1> QED BY <1>1, <1>5, Zenon

\* Those of a union,
LEMMA MergedInTurn ==
  ASSUME NEW sa, NEW sb, NEW r, NEW b, NEW q, NEW n \in Nat, DOMAIN q = 1..n
  PROVE  \E H : InTurn(H, Merging(sa, sb, r), b, q, n) /\ Merged(sa, sb, r, b, q) = H[n]
  <1> DEFINE A(f) == [S \in SUBSET (DOMAIN q) |->
                        IF S = {} THEN b ELSE or_key(f[S \ {Max(S)}], sa, sb, r, q[Max(S)])]
             f == CHOOSE g : g = A(g)
  <1>1. Merged(sa, sb, r, b, q) = f[DOMAIN q]
    BY Zenon DEF Merged, FoldLeft, MapThenFoldSet
  <1>2. ASSUME NEW g PROVE A(g) = Folding(Merging(sa, sb, r), b, q, n, g)
    BY Turns DEF Folding
  <1> HIDE DEF A
  <1>3. f = A(f)
    BY <1>2, FoldingExists
  <1> HIDE DEF f
  <1>4. f = Folding(Merging(sa, sb, r), b, q, n, f)
    BY <1>2, <1>3, Zenon
  <1>5. PICK H : InTurn(H, Merging(sa, sb, r), b, q, n) /\ H[n] = f[1..n]
    BY <1>4, FoldInTurn
  <1> QED BY <1>1, <1>5, Zenon

\* of a difference,
LEMMA ReducedInTurn ==
  ASSUME NEW sa, NEW sb, NEW r, NEW b, NEW q, NEW n \in Nat, DOMAIN q = 1..n
  PROVE  \E H : InTurn(H, Reducing(sa, sb, r), b, q, n) /\ Reduced(sa, sb, r, b, q) = H[n]
  <1> DEFINE A(f) == [S \in SUBSET (DOMAIN q) |->
                        IF S = {} THEN b ELSE andnot_key(f[S \ {Max(S)}], sa, sb, r, q[Max(S)])]
             f == CHOOSE g : g = A(g)
  <1>1. Reduced(sa, sb, r, b, q) = f[DOMAIN q]
    BY Zenon DEF Reduced, FoldLeft, MapThenFoldSet
  <1>2. ASSUME NEW g PROVE A(g) = Folding(Reducing(sa, sb, r), b, q, n, g)
    BY Turns DEF Folding
  <1> HIDE DEF A
  <1>3. f = A(f)
    BY <1>2, FoldingExists
  <1> HIDE DEF f
  <1>4. f = Folding(Reducing(sa, sb, r), b, q, n, f)
    BY <1>2, <1>3, Zenon
  <1>5. PICK H : InTurn(H, Reducing(sa, sb, r), b, q, n) /\ H[n] = f[1..n]
    BY <1>4, FoldInTurn
  <1> QED BY <1>1, <1>5, Zenon

\* and of a copy.
LEMMA CopiedInTurn ==
  ASSUME NEW sa, NEW r, NEW b, NEW q, NEW n \in Nat, DOMAIN q = 1..n
  PROVE  \E H : InTurn(H, Copying(sa, r), b, q, n) /\ Copied(sa, r, b, q) = H[n]
  <1> DEFINE A(f) == [S \in SUBSET (DOMAIN q) |->
                        IF S = {} THEN b ELSE copy_key(f[S \ {Max(S)}], sa, r, q[Max(S)])]
             f == CHOOSE g : g = A(g)
  <1>1. Copied(sa, r, b, q) = f[DOMAIN q]
    BY Zenon DEF Copied, FoldLeft, MapThenFoldSet
  <1>2. ASSUME NEW g PROVE A(g) = Folding(Copying(sa, r), b, q, n, g)
    BY Turns DEF Folding
  <1> HIDE DEF A
  <1>3. f = A(f)
    BY <1>2, FoldingExists
  <1> HIDE DEF f
  <1>4. f = Folding(Copying(sa, r), b, q, n, f)
    BY <1>2, <1>3, Zenon
  <1>5. PICK H : InTurn(H, Copying(sa, r), b, q, n) /\ H[n] = f[1..n]
    BY <1>4, FoldInTurn
  <1> QED BY <1>1, <1>5, Zenon

\* A set given back: every block it names, once.
LEMMA FreeIs ==
  ASSUME NEW x, IsGood(x), NEW p \in PoolRecords, NEW f, f = arnm_roaring_free(x, p)
  PROVE  f \in PoolRecords /\ \A e \in 0..LOG2_MAX : f.lent[e] = p.lent[e] - named(x, e)
  <1> DEFINE cs == x.containers
             n == Len(cs)
             g == Freed(p, cs)
  <1>1. x \in SetRecords /\ cs \in Seq(Containers) /\ n \in Nat /\ DOMAIN cs = 1..n
    <2>1. x \in SetRecords /\ cs \in Seq(Containers)
      BY GoodIs, Fields
    <2> QED BY <2>1
  <1>2. \A i \in 1..n : cs[i].block_log2 \in 0..LOG2_MAX
    <2>1. \A i \in 1..n : IsStored(cs[i])
      <3>1. CASE cs = << >>
        BY <3>1
      <3>2. CASE cs # << >>
        BY <3>2, Fields DEF IsGood, IsSparse, IsDirectory
      <3> QED BY <3>1, <3>2
    <2>2. ASSUME NEW i \in 1..n PROVE cs[i].block_log2 \in 0..LOG2_MAX
      <3>1. cs[i] \in Containers /\ cs[i].block_log2 <= LOG2_MAX
        BY <2>1 DEF IsStored, IsFilled
      <3>2. cs[i].block_log2 \in Nat
        BY <3>1, Fields
      <3> QED BY <3>1, <3>2, SizesAre
    <2> QED BY <2>2
  <1>3. f = IF x.block THEN give(g, x.directory_log2) ELSE g
    BY DEF arnm_roaring_free, Freed
  <1>4. PICK H : InTurn(H, Freeing, p, cs, n) /\ g = H[n]
    BY <1>1, FreedInTurn, Zenon
  <1> HIDE DEF g, cs, n
  <1> DEFINE Q(i) == H[i] \in PoolRecords /\ \A e \in 0..LOG2_MAX : H[i].lent[e] = p.lent[e] - InBlocks(cs, i, e)
             P == {i \in Nat : i <= n => Q(i)}
  <1>5. p.lent \in [0..LOG2_MAX -> Int]
    BY Fields
  <1>6. 0 \in P
    <2>1. H[0] = p
      BY <1>4 DEF InTurn
    <2>2. ASSUME NEW e \in 0..LOG2_MAX PROVE p.lent[e] = p.lent[e] - InBlocks(cs, 0, e)
      <3>1. InBlocks(cs, 0, e) = 0
        BY InBlocksStep
      <3>2. p.lent[e] \in Int
        BY LentCounts
      <3> QED BY <3>1, <3>2
    <2> QED BY <2>1, <2>2
  <1>7. ASSUME NEW i \in P PROVE i + 1 \in P
    <2>1. i \in Nat /\ i + 1 \in Nat /\ (i <= n => Q(i))
      BY <1>7
    <2>2. SUFFICES ASSUME i + 1 <= n PROVE Q(i + 1)
      BY <2>1
    <2>3. i + 1 \in 1..n /\ i <= n /\ (i + 1) - 1 = i
      BY <1>1, <2>1, <2>2
    <2> DEFINE l == cs[i + 1].block_log2
    <2>4. Q(i) /\ l \in 0..LOG2_MAX
      BY <1>2, <2>1, <2>3
    <2>5. H[i + 1] = give(H[i], l)
      <3>1. H[i + 1] = Turn(Freeing, H[i], cs[i + 1])
        BY <1>4, <2>3 DEF InTurn
      <3> QED BY <3>1, Turns
    <2>6. H[i + 1] \in PoolRecords /\ \A e \in 0..LOG2_MAX : H[i + 1].lent[e] = H[i].lent[e] - Mark(l, e)
      <3>1. H[i] \in PoolRecords /\ l \in 0..LOG2_MAX
        BY <2>4
      <3> DEFINE h == H[i]
                 k == H[i + 1]
      <3>2. k = give(h, l) /\ h \in PoolRecords
        BY <2>5, <3>1
      <3> HIDE DEF l, h, k
      <3>3. k \in PoolRecords /\ \A e \in 0..LOG2_MAX : k.lent[e] = h.lent[e] - Mark(l, e)
        BY <3>1, <3>2, TakeGive
      <3> QED BY <3>3 DEF h, k
    <2>7. ASSUME NEW e \in 0..LOG2_MAX PROVE H[i + 1].lent[e] = p.lent[e] - InBlocks(cs, i + 1, e)
      <3>1. InBlocks(cs, i + 1, e) = InBlocks(cs, i, e) + Mark(l, e) /\ InBlocks(cs, i, e) \in Nat
        BY <2>1, InBlocksStep
      <3>2. p.lent[e] \in Int /\ Mark(l, e) \in Int
        BY LentCounts
      <3>3. H[i + 1].lent[e] = H[i].lent[e] - Mark(l, e) /\ H[i].lent[e] = p.lent[e] - InBlocks(cs, i, e)
        BY <2>4, <2>6
      <3> HIDE DEF l
      <3> QED BY <3>1, <3>2, <3>3
    <2> QED BY <2>6, <2>7
  <1>8. P = Nat
    <2>1. P \in SUBSET Nat
      OBVIOUS
    <2> HIDE DEF P
    <2> QED BY <1>6, <1>7, <2>1, NatSetInduction
  <1>9. n \in P /\ n <= n
    <2> HIDE DEF P
    <2> QED BY <1>1, <1>8
  <1>10. g \in PoolRecords /\ \A e \in 0..LOG2_MAX : g.lent[e] = p.lent[e] - InBlocks(cs, n, e)
    BY <1>4, <1>9
  <1>11. \A e : named(x, e) = InBlocks(cs, n, e) + OwnBlock(x, e)
                /\ InBlocks(cs, n, e) \in Nat /\ OwnBlock(x, e) \in Nat
    BY <1>1, NamedIs DEF cs, n
  <1>12. CASE x.block
    <2>1. x.directory_log2 \in 0..LOG2_MAX
      <3>1. HasBlock(x)
        BY <1>12, Fields DEF IsGood, IsSparse, IsDirectory
      <3> QED BY <3>1, SizesAre DEF HasBlock
    <2>2. f = give(g, x.directory_log2)
      BY <1>3, <1>12
    <2>3. f \in PoolRecords /\ \A e \in 0..LOG2_MAX : f.lent[e] = g.lent[e] - Mark(x.directory_log2, e)
      <3> DEFINE dl == x.directory_log2
      <3>1. dl \in 0..LOG2_MAX /\ g \in PoolRecords /\ f = give(g, dl)
        BY <1>10, <2>1, <2>2
      <3> HIDE DEF dl
      <3>3. /\ give(g, dl) \in PoolRecords
            /\ \A e \in 0..LOG2_MAX : give(g, dl).lent[e] = g.lent[e] - Mark(dl, e)
        BY ONLY <3>1, TakeGive
      <3>2. f \in PoolRecords /\ \A e \in 0..LOG2_MAX : f.lent[e] = g.lent[e] - Mark(dl, e)
        BY ONLY <3>1, <3>3, Zenon
      <3> QED BY <3>2 DEF dl
    <2>4. ASSUME NEW e \in 0..LOG2_MAX PROVE f.lent[e] = p.lent[e] - named(x, e)
      <3>1. OwnBlock(x, e) = Mark(x.directory_log2, e)
        BY <1>12 DEF OwnBlock, Mark
      <3>2. p.lent[e] \in Int
        BY LentCounts
      <3>3. f.lent[e] = g.lent[e] - Mark(x.directory_log2, e) /\ g.lent[e] = p.lent[e] - InBlocks(cs, n, e)
        BY <1>10, <2>3
      <3> QED BY <1>11, <3>1, <3>2, <3>3
    <2> QED BY <2>3, <2>4
  <1>13. CASE ~x.block
    <2>1. f = g
      BY <1>3, <1>13
    <2>2. ASSUME NEW e \in 0..LOG2_MAX PROVE f.lent[e] = p.lent[e] - named(x, e)
      <3>1. OwnBlock(x, e) = 0
        BY <1>13 DEF OwnBlock
      <3>2. named(x, e) = InBlocks(cs, n, e)
        BY <1>11, <3>1
      <3> QED BY <1>10, <2>1, <3>2
    <2> QED BY <1>10, <2>1, <2>2
  <1> QED BY <1>12, <1>13

\* After a refusal nothing is left of what was built.
LEMMA FinishIs ==
  ASSUME NEW s, NEW base, Working(s, base), NEW t, t = finish(s)
  PROVE  Working(t, base) /\ (s.result = SUCCESS => t = s)
         /\ (s.result # SUCCESS => t.result = EXHAUSTED /\ t.set = Zeroed)
  <1>1. CASE s.result = SUCCESS
    BY <1>1 DEF finish
  <1>2. CASE s.result # SUCCESS
    <2> DEFINE p == arnm_roaring_free(s.set, s.pool)
    <2>1. t = [s EXCEPT !.set = Zeroed, !.pool = p]
      BY <1>2 DEF finish
    <2>2. s \in Steps /\ s.set \in SetRecords /\ s.pool \in PoolRecords /\ IsGood(s.set)
          /\ Owes(s.pool.lent, s.set, base) /\ s.result = EXHAUSTED
      BY <1>2, StepParts DEF Working
    <2>3. p \in PoolRecords /\ \A e \in 0..LOG2_MAX : p.lent[e] = s.pool.lent[e] - named(s.set, e)
      BY <2>2, FreeIs
    <2> HIDE DEF p
    <2>4. t \in Steps /\ t.set = Zeroed /\ t.pool = p /\ t.result = EXHAUSTED
      <3>1. /\ [s EXCEPT !.set = Zeroed, !.pool = p] \in Steps
            /\ [s EXCEPT !.set = Zeroed, !.pool = p].result = s.result
            /\ [s EXCEPT !.set = Zeroed, !.pool = p].set = Zeroed
            /\ [s EXCEPT !.set = Zeroed, !.pool = p].pool = p
        <4>1. s \in Steps /\ p \in PoolRecords
          BY <2>2, <2>3
        <4>2. Zeroed \in SetRecords
          BY Fields
        <4> QED BY <4>1, <4>2, Zenon DEF Steps
      <3> QED BY <2>1, <2>2, <3>1, Zenon
    <2>5. Owes(t.pool.lent, t.set, base)
      <3>1. ASSUME NEW e \in 0..LOG2_MAX PROVE p.lent[e] = base[e] + named(Zeroed, e)
        <4>1. p.lent[e] = s.pool.lent[e] - named(s.set, e)
          BY <2>3
        <4>2. s.pool.lent[e] = base[e] + named(s.set, e) /\ base[e] \in Int
          BY <2>2 DEF Owes
        <4>3. named(s.set, e) \in Nat /\ named(Zeroed, e) = 0
          BY <2>2, NamedIs
        <4> QED BY <4>1, <4>2, <4>3
      <3>2. p.lent \in [0..LOG2_MAX -> Int] /\ base \in [0..LOG2_MAX -> Int]
        BY <2>2, <2>3, Fields DEF Owes
      <3> QED BY <2>4, <3>1, <3>2 DEF Owes
    <2> QED BY <1>2, <2>4, <2>5 DEF Working, IsGood
  <1> QED BY <1>1, <1>2

-----------------------------------------------------------------------------
(* Key by key.                                                             *)

\* The numbers of a key among some, and their low parts.
OfKey(T, key)  == {v \in T : key_of(v) = key}
LowsIn(T, key) == {low_of(v) : v \in OfKey(T, key)}

\* The numbers of a key are their low parts at that key.
LEMMA OfKeyIs ==
  ASSUME NEW T \in SUBSET Nat, NEW key \in Nat
  PROVE  LowsIn(T, key) \in SUBSET LowParts /\ At(key, LowsIn(T, key)) = OfKey(T, key)
  <1>1. \A v \in T : v \in Nat
    OBVIOUS
  <1>2. LowsIn(T, key) \in SUBSET LowParts
    <2>1. \A v \in OfKey(T, key) : low_of(v) \in LowParts
      BY <1>1, KeysAndLows DEF OfKey
    <2> QED BY <2>1 DEF LowsIn
  <1>3. ASSUME NEW v PROVE v \in At(key, LowsIn(T, key)) <=> v \in OfKey(T, key)
    <2>1. v \in At(key, LowsIn(T, key)) <=> v \in Nat /\ key_of(v) = key /\ low_of(v) \in LowsIn(T, key)
      BY <1>2, AtIs
    <2>2. ASSUME v \in OfKey(T, key) PROVE v \in Nat /\ key_of(v) = key /\ low_of(v) \in LowsIn(T, key)
      BY <1>1, <2>2 DEF OfKey, LowsIn
    <2>3. ASSUME v \in Nat, key_of(v) = key, low_of(v) \in LowsIn(T, key) PROVE v \in OfKey(T, key)
      <3>1. PICK u \in OfKey(T, key) : low_of(v) = low_of(u)
        BY <2>3, Zenon DEF LowsIn
      <3>2. u \in T /\ u \in Nat /\ key_of(u) = key
        BY <1>1, <3>1 DEF OfKey
      <3>3. u = value_of(key_of(u), low_of(u)) /\ v = value_of(key_of(v), low_of(v))
        BY <2>3, <3>2, KeysAndLows
      <3>4. u = v
        BY <2>3, <3>1, <3>2, <3>3, Zenon
      <3> QED BY <3>1, <3>4
    <2> QED BY <2>1, <2>2, <2>3, Zenon
  <1> QED BY <1>2, <1>3

\* The run of one key in what ascends: its low parts ascend.
LEMMA LowsOfKey ==
  ASSUME NEW q, Ascends(q), NEW key \in Nat
  PROVE  /\ Ascends(lows_of_key(q, key)) /\ Len(lows_of_key(q, key)) <= Len(q)
         /\ ToSet(lows_of_key(q, key)) = LowsIn(ToSet(q), key)
         /\ LowsIn(ToSet(q), key) \in SUBSET LowParts
  <1> DEFINE P == {i \in DOMAIN q : key_of(q[i]) = key}
             t == at_places(q, P)
             m == Len(t)
             r == lows_of_key(q, key)
  <1>1. q \in Seq(Nat) /\ P \in SUBSET DOMAIN q
    BY DEF Ascends
  <1>2. Ascends(t) /\ Len(t) <= Len(q) /\ ToSet(t) = {q[i] : i \in P}
    <2> HIDE DEF P
    <2> QED BY <1>1, SiftedAscends
  <1>3. t \in Seq(Nat) /\ m \in Nat /\ DOMAIN t = 1..m
    <2> HIDE DEF t
    <2>1. t \in Seq(Nat)
      BY <1>2 DEF Ascends
    <2> QED BY <2>1
  <1>4. r = [i \in DOMAIN t |-> low_of(t[i])]
    BY DEF lows_of_key
  <1>5. ToSet(t) = OfKey(ToSet(q), key)
    <2>1. {q[i] : i \in P} = OfKey(ToSet(q), key)
      BY DEF OfKey, ToSet
    <2> HIDE DEF t, P
    <2> QED BY <1>2, <2>1
  <1> HIDE DEF t, r, m, P
  <1>6. \A i \in 1..m : t[i] \in ToSet(t) /\ t[i] \in Nat /\ key_of(t[i]) = key /\ low_of(t[i]) \in LowParts
    <2>1. ASSUME NEW i \in 1..m PROVE t[i] \in ToSet(t) /\ t[i] \in Nat
      BY <1>3 DEF ToSet
    <2>2. \A v \in ToSet(t) : key_of(v) = key
      BY <1>5 DEF OfKey
    <2> QED BY <2>1, <2>2, KeysAndLows
  <1>7. r = [i \in 1..m |-> low_of(t[i])] /\ Len(r) = m /\ DOMAIN r = 1..m /\ r \in Seq(Nat)
    <2>1. r = [i \in 1..m |-> low_of(t[i])]
      BY <1>3, <1>4, Zenon
    <2>2. \A i \in 1..m : low_of(t[i]) \in Nat
      BY <1>6, LowPartsAre
    <2> QED BY <1>3, <2>1, <2>2
  <1>8. Ascends(r)
    <2>1. ASSUME NEW i \in 1..m, NEW j \in 1..m, i < j PROVE r[i] < r[j]
      <3>1. t[i] < t[j]
        BY <1>2, <2>1 DEF Ascends, m
      <3>2. t[i] \in Nat /\ t[j] \in Nat /\ key_of(t[i]) = key /\ key_of(t[j]) = key
            /\ low_of(t[i]) \in Nat /\ low_of(t[j]) \in Nat
        BY <1>6, LowPartsAre
      <3>3. t[j] <= t[i] <=> key_of(t[j]) < key_of(t[i]) \/ (key_of(t[j]) = key_of(t[i]) /\ low_of(t[j]) <= low_of(t[i]))
        BY <3>2, KeyOrder
      <3>4. low_of(t[i]) < low_of(t[j])
        BY <3>1, <3>2, <3>3
      <3> QED BY <1>7, <3>4
    <2> QED BY <1>7, <2>1 DEF Ascends
  <1>9. ToSet(r) = LowsIn(ToSet(q), key)
    <2>1. ToSet(r) = {low_of(t[i]) : i \in 1..m}
      BY <1>7, Zenon DEF ToSet
    <2>2. ToSet(t) = {t[i] : i \in 1..m}
      BY <1>3, Zenon DEF ToSet
    <2>3. LowsIn(ToSet(q), key) = {low_of(v) : v \in ToSet(t)}
      BY <1>5, Zenon DEF LowsIn
    <2> QED BY <2>1, <2>2, <2>3
  <1>10. ToSet(q) \in SUBSET Nat
    BY AscendsCounts
  <1> QED BY <1>2, <1>7, <1>8, <1>9, <1>10, OfKeyIs DEF r, m

\* Each key's turn adds the numbers of T with that key, after all lower keys.
BuildsAt(how, base, T, K) ==
  \A u, key : Working(u, base) /\ u.set.values = << >> /\ key \in K =>
     /\ u.result = SUCCESS /\ (\A v \in Contents(u.set) : key_of(v) < key) =>
          Outcome(Turn(how, u, key), u, base, OfKey(T, key))
     /\ u.result # SUCCESS => Turn(how, u, key) = u

\* What a merge has become: all of T, or a refusal.
Built(t, base, T) ==
  /\ Working(t, base) /\ t.set.values = << >>
  /\ t.result = SUCCESS => Contents(t.set) = T

\* An empty set is in good order and holds nothing.
LEMMA EmptyContents == IsGood(Zeroed) /\ Contents(Zeroed) = {} /\ Zeroed.values = << >>
  <1>1. IsGood(Zeroed)
    BY DEF IsGood
  <1> QED BY <1>1, GoodIs, Fields

\* Turns that each add the numbers of their key, in the order of the keys, add all of them.
LEMMA KeyFold ==
  ASSUME NEW base, NEW s, Working(s, base), s.result = SUCCESS, s.set = Zeroed,
         NEW T \in SUBSET Nat, NEW K \in SUBSET Nat, IsFiniteSet(K), \A v \in T : key_of(v) \in K,
         NEW how, BuildsAt(how, base, T, K),
         NEW H, InTurn(H, how, s, ascending(K), Cardinality(K))
  PROVE  Built(H[Cardinality(K)], base, T)
  <1> DEFINE n == Cardinality(K)
             q == ascending(K)
             Upto(i) == {v \in T : \E j \in 1..i : key_of(v) = q[j]}
             Q(i) == Built(H[i], base, Upto(i))
             P == {i \in Nat : i <= n => Q(i)}
  <1>1. n \in Nat /\ Ascends(q) /\ Len(q) = n /\ ToSet(q) = K /\ q \in Seq(Nat) /\ DOMAIN q = 1..n
    <2>1. n \in Nat /\ Ascends(q) /\ Len(q) = n /\ ToSet(q) = K
      BY AscendingIs
    <2> HIDE DEF q, n
    <2> QED BY <2>1 DEF Ascends
  <1>2. InTurn(H, how, s, q, n)
    OBVIOUS
  <1> HIDE DEF n, q
  <1>3. 0 \in P
    <2>1. H[0] = s
      BY <1>2 DEF InTurn
    <2>2. Upto(0) = {}
      OBVIOUS
    <2> HIDE DEF Upto
    <2> QED BY <2>1, <2>2, EmptyContents DEF Built
  <1>4. ASSUME NEW i \in P PROVE i + 1 \in P
    <2>1. i \in Nat /\ i + 1 \in Nat /\ (i <= n => Q(i))
      BY <1>4
    <2>2. SUFFICES ASSUME i + 1 <= n PROVE Q(i + 1)
      BY <2>1
    <2>3. i + 1 \in 1..n /\ i <= n /\ (i + 1) - 1 = i
      BY <1>1, <2>1, <2>2
    <2> DEFINE u == H[i]
               key == q[i + 1]
               t == H[i + 1]
    <2>4. t = Turn(how, u, key)
      BY <1>2, <2>3 DEF InTurn
    <2>5. key \in K
      BY <1>1, <2>3 DEF ToSet
    <2>6. Built(u, base, Upto(i))
      BY <2>1, <2>3
    <2>7. Upto(i + 1) = Upto(i) \cup OfKey(T, key)
      <3>1. \A j : j \in 1..(i + 1) <=> j \in 1..i \/ j = i + 1
        BY <2>1
      <3> QED BY <3>1 DEF OfKey
    <2>8. \A v \in Upto(i) : key_of(v) < key
      <3>1. \A j \in 1..i : q[j] < q[i + 1]
        BY <1>1, <2>1, <2>3 DEF Ascends
      <3> QED BY <3>1
    <2> HIDE DEF u, key, t, Upto
    <2>9. Built(t, base, Upto(i + 1))
      <3>1. CASE u.result = SUCCESS
        <4>1. Outcome(t, u, base, OfKey(T, key)) /\ Contents(u.set) = Upto(i)
          BY <2>4, <2>5, <2>6, <2>8, <3>1, Zenon DEF Built, BuildsAt
        <4> QED BY <2>7, <4>1, Zenon DEF Outcome, Built
      <3>2. CASE u.result # SUCCESS
        <4>1. t = u
          BY <2>4, <2>5, <2>6, <3>2, Zenon DEF Built, BuildsAt
        <4> QED BY <2>6, <3>2, <4>1, Zenon DEF Built
      <3> QED BY <3>1, <3>2
    <2> QED BY <2>9 DEF t
  <1>5. P = Nat
    <2>1. P \in SUBSET Nat
      OBVIOUS
    <2> HIDE DEF P
    <2> QED BY <1>3, <1>4, <2>1, NatSetInduction
  <1>6. Built(H[n], base, Upto(n))
    <2>1. n \in P /\ n <= n
      <3> HIDE DEF P
      <3> QED BY <1>1, <1>5
    <2> QED BY <2>1
  <1>7. Upto(n) = T
    <2>1. ASSUME NEW v \in T PROVE \E j \in 1..n : key_of(v) = q[j]
      <3>1. key_of(v) \in ToSet(q)
        BY <1>1
      <3> QED BY <1>1, <3>1 DEF ToSet
    <2> QED BY <2>1
  <1> HIDE DEF Upto
  <1> QED BY <1>6, <1>7, Zenon DEF n

-----------------------------------------------------------------------------
(* Values made into a set.                                                 *)

\* What a call has made of an empty set: T, or a refusal.
Made(t, base, T) == Working(t, base) /\ (t.result = SUCCESS => Contents(t.set) = T)

\* The keys of some values.
LEMMA KeysOfAre ==
  ASSUME NEW q, Ascends(q)
  PROVE  /\ keys_of(q) \in SUBSET Nat /\ IsFiniteSet(keys_of(q))
         /\ \A v \in ToSet(q) : v \in Nat /\ key_of(v) \in keys_of(q)
         /\ \A k \in keys_of(q) : \E v \in ToSet(q) : key_of(v) = k
  <1> DEFINE n == Len(q)
             K == keys_of(q)
             f == [i \in 1..n |-> key_of(q[i])]
  <1>1. q \in Seq(Nat) /\ n \in Nat /\ DOMAIN q = 1..n
    BY DEF Ascends
  <1>2. K = {key_of(q[i]) : i \in 1..n} /\ ToSet(q) = {q[i] : i \in 1..n}
    BY <1>1 DEF keys_of, ToSet
  <1>3. \A i \in 1..n : q[i] \in Nat /\ key_of(q[i]) \in Nat
    <2>1. \A i \in 1..n : q[i] \in Nat
      <3> HIDE DEF n
      <3> QED BY <1>1
    <2> HIDE DEF n
    <2> QED BY <2>1, KeysAndLows
  <1> HIDE DEF n, K
  <1>4. f \in Surjection(1..n, K)
    BY <1>2 DEF Surjection
  <1>5. IsFiniteSet(1..n)
    BY <1>1, FS_Interval, 1 \in Int, n \in Int
  <1>6. IsFiniteSet(K)
    <2> HIDE DEF f
    <2> QED BY <1>4, <1>5, FS_Surjection
  <1>7. K \in SUBSET Nat
    BY <1>2, <1>3
  <1>8. \A v \in ToSet(q) : v \in Nat /\ key_of(v) \in K
    BY <1>2, <1>3
  <1>9. \A k \in K : \E v \in ToSet(q) : key_of(v) = k
    BY <1>2
  <1> QED BY <1>6, <1>7, <1>8, <1>9 DEF K

\* Values split by key into containers (arnm_roaring_values_to_containers), or a refusal.
LEMMA SplitIs ==
  ASSUME NEW s, NEW base, Working(s, base), s.result = SUCCESS, s.set = Zeroed,
         NEW q, Ascends(q), Len(q) <= ARRAY_MAX,
         NEW t, t = arnm_roaring_values_to_containers(s, q)
  PROVE  Built(t, base, ToSet(q))
  <1> DEFINE K == keys_of(q)
             T == ToSet(q)
             n == Cardinality(K)
             a == ascending(K)
             how == Splitting(q)
  <1>1. K \in SUBSET Nat /\ IsFiniteSet(K) /\ (\A v \in T : key_of(v) \in K) /\ T \in SUBSET Nat
    BY KeysOfAre
  <1>2. n \in Nat /\ DOMAIN a = 1..n
    <2>1. a \in Seq(K) /\ Len(a) = n /\ n \in Nat
      BY <1>1, AscendingIs
    <2> HIDE DEF a, n
    <2> QED BY <2>1
  <1>3. t = Split(q, s, a)
    BY DEF arnm_roaring_values_to_containers, Split
  <1>4. PICK H : InTurn(H, how, s, a, n) /\ t = H[n]
    <2> HIDE DEF a, n
    <2>1. \E H : InTurn(H, Splitting(q), s, a, n) /\ Split(q, s, a) = H[n]
      BY <1>2, SplitInTurn
    <2> QED BY <1>3, <2>1
  <1>5. ASSUME NEW u, NEW key, Working(u, base), u.set.values = << >>, key \in K
        PROVE  /\ u.result = SUCCESS /\ (\A v \in Contents(u.set) : key_of(v) < key) =>
                    Outcome(Turn(how, u, key), u, base, OfKey(T, key))
               /\ u.result # SUCCESS => Turn(how, u, key) = u
    <2>1. Turn(how, u, key) = values_key(u, q, key) /\ key \in Nat
      BY <1>1, <1>5, Turns
    <2>2. ASSUME u.result # SUCCESS PROVE Turn(how, u, key) = u
      BY <2>1, <2>2 DEF values_key
    <2>3. ASSUME u.result = SUCCESS, \A v \in Contents(u.set) : key_of(v) < key
          PROVE  Outcome(Turn(how, u, key), u, base, OfKey(T, key))
      <3> DEFINE x == lows_of_key(q, key)
                 y == Turn(how, u, key)
      <3>1. y = arnm_roaring_emit_array(u, key, x)
        BY <2>1, <2>3 DEF values_key
      <3>2. Ascends(x) /\ Len(x) <= Len(q) /\ ToSet(x) = LowsIn(T, key) /\ LowsIn(T, key) \in SUBSET LowParts
        BY <2>1, LowsOfKey
      <3>3. Len(x) <= ARRAY_MAX
        <4>1. Len(x) \in Nat /\ Len(q) \in Nat /\ ARRAY_MAX \in Nat
          BY <3>2, AscendsCounts, SizesAre
        <4> QED BY <3>2, <4>1
      <3>4. ToSet(x) \subseteq LowParts
        BY <3>2
      <3> HIDE DEF x, y, how, T
      <3>5. Outcome(y, u, base, At(key, ToSet(x)))
        BY <1>5, <2>1, <2>3, <3>1, <3>2, <3>3, <3>4, EmitArrayIs
      <3>6. At(key, ToSet(x)) = OfKey(T, key)
        BY <1>1, <2>1, <3>2, OfKeyIs
      <3> QED BY <3>5, <3>6, Zenon DEF y
    <2> QED BY <2>2, <2>3
  <1> HIDE DEF K, T, n, a, how
  <1>6. BuildsAt(how, base, T, K)
    BY <1>5, Zenon DEF BuildsAt
  <1>7. Built(H[n], base, T)
    BY <1>1, <1>4, <1>6, KeyFold DEF n, a
  <1> QED BY <1>4, <1>7 DEF T

\* A sparse set made a directory, or as it was.
LEMMA SparseToContainersIs ==
  ASSUME NEW s, NEW base, Working(s, base), s.result = SUCCESS, IsSparse(s.set),
         NEW t, t = sparse_to_containers(s)
  PROVE  /\ Working(t, base) /\ Contents(t.set) = Contents(s.set)
         /\ t.result = SUCCESS => IsDirectory(t.set)
         /\ t.result # SUCCESS => t.set = s.set
  <1> DEFINE z == [s EXCEPT !.set = Zeroed]
             q == s.set.values
             b == arnm_roaring_values_to_containers(z, q)
             lent1 == s.pool.lent
             dl == s.set.directory_log2
  <1>1. /\ s \in Steps /\ s.set \in SetRecords /\ s.pool \in PoolRecords
        /\ Ascends(q) /\ Len(q) \in 1..SPARSE_MAX /\ dl \in 0..LOG2_MAX
        /\ Owes(lent1, s.set, base) /\ s.set.containers = << >> /\ s.set.block
    <2>1. s \in Steps /\ Owes(lent1, s.set, base) /\ s.set \in SetRecords /\ s.pool \in PoolRecords
      BY StepParts DEF Working
    <2>2. Ascends(q) /\ Len(q) \in 1..SPARSE_MAX /\ s.set.containers = << >> /\ s.set.block
      BY DEF IsSparse, HasBlock
    <2>3. dl \in 0..LOG2_MAX
      <3>1. dl \in FIRST_LOG2..LOG2_MAX
        BY DEF IsSparse, HasBlock
      <3> HIDE DEF dl
      <3> QED BY <3>1, SizesAre
    <2> QED BY <2>1, <2>2, <2>3, Zenon
  <1>2. z \in Steps /\ z.set = Zeroed /\ z.pool = s.pool /\ z.result = SUCCESS
    <2>1. Zeroed \in SetRecords
      BY Fields
    <2> QED BY <1>1, <2>1, Zenon DEF Steps
  <1>3. Len(q) <= ARRAY_MAX
    BY <1>1, SizesAre
  <1>4. \A e : named(Zeroed, e) = 0 /\ named(s.set, e) = Mark(dl, e)
    <2>1. ASSUME NEW e PROVE named(s.set, e) = Mark(dl, e)
      <3>1. InBlocks(s.set.containers, 0, e) = 0
        BY InBlocksStep
      <3>2. Len(s.set.containers) = 0
        BY <1>1
      <3>3. named(s.set, e) = InBlocks(s.set.containers, Len(s.set.containers), e) + OwnBlock(s.set, e)
        BY <1>1, NamedIs
      <3>4. OwnBlock(s.set, e) = Mark(dl, e) /\ OwnBlock(s.set, e) \in Nat
        BY <1>1 DEF OwnBlock, Mark
      <3> QED BY <3>1, <3>2, <3>3, <3>4
    <2> QED BY <1>1, <2>1, NamedIs
  <1>5. lent1 \in [0..LOG2_MAX -> Int] /\ \A e \in 0..LOG2_MAX : lent1[e] \in Int
    BY <1>1, LentCounts, Fields
  <1> HIDE DEF z, q, b, lent1, dl
  <1>6. Working(z, lent1)
    <2>1. z.pool.lent = lent1
      BY <1>2 DEF lent1
    <2>2. Owes(lent1, Zeroed, lent1)
      BY <1>4, <1>5 DEF Owes
    <2> QED BY <1>2, <2>1, <2>2, EmptyContents DEF Working
  <1>7. Built(b, lent1, ToSet(q))
    BY <1>1, <1>2, <1>3, <1>6, SplitIs DEF b
  <1>8. /\ b \in Steps /\ b.result \in {SUCCESS, EXHAUSTED} /\ IsGood(b.set)
        /\ b.set \in SetRecords /\ b.pool \in PoolRecords
        /\ Owes(b.pool.lent, b.set, lent1)
    BY <1>7, StepParts DEF Built, Working
  <1>9. Contents(s.set) = ToSet(q) /\ ToSet(q) # {}
    <2>1. Contents(s.set) = ToSet(q)
      BY <1>1, GoodIs DEF q, Working
    <2>2. Contents(s.set) # {}
      BY <1>1, GoodIs, Fields DEF Working
    <2> QED BY <2>1, <2>2
  <1>10. CASE b.result = SUCCESS
    <2> DEFINE p == give(b.pool, dl)
    <2>1. t = [b EXCEPT !.pool = p]
      BY <1>10 DEF sparse_to_containers, b, q, z, dl
    <2>2. p \in PoolRecords /\ \A e \in 0..LOG2_MAX : p.lent[e] = b.pool.lent[e] - Mark(dl, e)
      <3> DEFINE bp == b.pool
      <3>1. bp \in PoolRecords
        BY <1>8
      <3> HIDE DEF bp
      <3>2. give(bp, dl) \in PoolRecords /\ \A e \in 0..LOG2_MAX : give(bp, dl).lent[e] = bp.lent[e] - Mark(dl, e)
        BY <1>1, <3>1, TakeGive
      <3> QED BY <3>2 DEF bp
    <2> HIDE DEF p
    <2>3. t \in Steps /\ t.set = b.set /\ t.pool = p /\ t.result = SUCCESS
      BY <1>8, <1>10, <2>1, <2>2, Zenon DEF Steps
    <2>4. Owes(t.pool.lent, t.set, base)
      <3>1. ASSUME NEW e \in 0..LOG2_MAX PROVE p.lent[e] = base[e] + named(b.set, e)
        <4>1. b.pool.lent[e] = lent1[e] + named(b.set, e) /\ lent1[e] = base[e] + named(s.set, e)
          BY <1>1, <1>8 DEF Owes
        <4>2. base[e] + named(s.set, e) \in Int /\ named(s.set, e) = Mark(dl, e) /\ named(b.set, e) \in Nat
          BY <1>4, <1>5, <1>8, <4>1, NamedIs
        <4>3. Mark(dl, e) \in Int
          BY LentCounts
        <4>4. base[e] \in Int
          BY <1>1 DEF Owes
        <4> QED BY <2>2, <4>1, <4>2, <4>3, <4>4
      <3>2. p.lent \in [0..LOG2_MAX -> Int] /\ base \in [0..LOG2_MAX -> Int]
        BY <1>1, <2>2, Fields DEF Owes
      <3> QED BY <2>3, <3>1, <3>2, Zenon DEF Owes
    <2>5. Contents(t.set) = ToSet(q) /\ t.set.values = << >>
      BY <1>7, <1>10, <2>3 DEF Built
    <2>6. IsDirectory(t.set)
      <3>1. t.set # Zeroed
        BY <1>9, <2>5, EmptyContents
      <3>2. ~IsSparse(t.set)
        BY <2>5 DEF IsSparse
      <3> QED BY <1>8, <2>3, <3>1, <3>2 DEF IsGood
    <2> QED BY <1>8, <1>9, <2>3, <2>4, <2>5, <2>6 DEF Working
  <1>11. CASE b.result # SUCCESS
    <2> DEFINE p == arnm_roaring_free(b.set, b.pool)
               x == s.set
    <2>1. t = [b EXCEPT !.set = x, !.pool = p] /\ b.result = EXHAUSTED
      BY <1>8, <1>11 DEF sparse_to_containers, b, q, z, dl
    <2>2. p \in PoolRecords /\ \A e \in 0..LOG2_MAX : p.lent[e] = b.pool.lent[e] - named(b.set, e)
      BY <1>8, FreeIs
    <2>3. x \in SetRecords
      BY <1>1
    <2> HIDE DEF p, x
    <2>4. t \in Steps /\ t.set = x /\ t.pool = p /\ t.result = EXHAUSTED
      BY <1>8, <2>1, <2>2, <2>3, Zenon DEF Steps
    <2>5. Owes(t.pool.lent, t.set, base)
      <3>1. ASSUME NEW e \in 0..LOG2_MAX PROVE p.lent[e] = base[e] + named(x, e)
        <4>1. b.pool.lent[e] = lent1[e] + named(b.set, e) /\ lent1[e] = base[e] + named(s.set, e)
          BY <1>1, <1>8 DEF Owes
        <4>2. lent1[e] \in Int /\ named(b.set, e) \in Nat
          BY <1>5, <1>8, NamedIs
        <4>3. p.lent[e] = lent1[e]
          BY <2>2, <4>1, <4>2
        <4> QED BY <4>1, <4>3 DEF x
      <3>2. p.lent \in [0..LOG2_MAX -> Int] /\ base \in [0..LOG2_MAX -> Int]
        BY <1>1, <2>2, Fields DEF Owes
      <3> QED BY <2>4, <3>1, <3>2, Zenon DEF Owes
    <2>6. t.set = s.set /\ IsGood(t.set)
      BY <2>4 DEF x, Working
    <2> QED BY <2>4, <2>5, <2>6, ResultsDiffer DEF Working
  <1> QED BY <1>10, <1>11

\* A sparse set names one block.
LEMMA SparseNamed ==
  ASSUME NEW x \in SetRecords, x.containers = << >>, x.block, NEW e
  PROVE  named(x, e) = Mark(x.directory_log2, e)
  <1>1. InBlocks(x.containers, 0, e) = 0
    BY InBlocksStep
  <1>2. Len(x.containers) = 0
    OBVIOUS
  <1>3. named(x, e) = InBlocks(x.containers, Len(x.containers), e) + OwnBlock(x, e)
    BY NamedIs
  <1>4. OwnBlock(x, e) = Mark(x.directory_log2, e) /\ OwnBlock(x, e) \in Nat
    BY DEF OwnBlock, Mark
  <1> QED BY <1>1, <1>2, <1>3, <1>4

\* A few values in a block of their own, or containers; or a refusal.
LEMMA ValuesResultIs ==
  ASSUME NEW s, NEW base, Working(s, base), s.result = SUCCESS, s.set = Zeroed,
         NEW q, Ascends(q), Len(q) <= ARRAY_MAX,
         NEW t, t = arnm_roaring_values_result(s, q)
  PROVE  Made(t, base, ToSet(q))
  <1> DEFINE n == Len(q)
             bytes == n * VALUE_SIZE
             log2 == log2_for_bytes(bytes)
             p == take(s.pool, log2)
             top == Last(q)
  <1>1. /\ n \in Nat /\ q \in Seq(Nat) /\ s \in Steps /\ s.pool \in PoolRecords
        /\ SPARSE_MAX \in Nat /\ VALUE_SIZE \in Nat \ {0}
    BY SizesAre, StepParts DEF Ascends, Working
  <1>2. CASE n = 0
    <2>1. t = s
      BY <1>2 DEF arnm_roaring_values_result
    <2>2. q = << >>
      BY <1>1, <1>2
    <2>3. ToSet(q) = {}
      BY <2>2 DEF ToSet
    <2> QED BY <2>1, <2>3, EmptyContents DEF Made
  <1>3. CASE n # 0 /\ n > SPARSE_MAX
    <2>1. t = arnm_roaring_values_to_containers(s, q)
      BY <1>3 DEF arnm_roaring_values_result
    <2>2. Built(t, base, ToSet(q))
      BY <2>1, SplitIs
    <2> QED BY <2>2 DEF Built, Made
  <1>4. CASE n # 0 /\ ~(n > SPARSE_MAX) /\ ~grants(s.pool, log2)
    <2>1. t = refused(s)
      BY <1>4 DEF arnm_roaring_values_result
    <2> QED BY <2>1, RefusedIs, <1>1, ResultsDiffer DEF Working, Made
  <1>5. CASE n # 0 /\ ~(n > SPARSE_MAX) /\ grants(s.pool, log2)
    <2>1. t = [s EXCEPT !.pool = take(s.pool, log2),
                    !.set.block = TRUE, !.set.directory_log2 = log2,
                    !.set.values = q, !.set.cardinality = n, !.set.maximum = top]
      BY <1>5 DEF arnm_roaring_values_result
    <2>2. bytes \in Nat \ {0} /\ bytes <= Pow(BITMAP_LOG2)
      <3>1. SPARSE_MAX * VALUE_SIZE <= Pow(BITMAP_LOG2) /\ Pow(BITMAP_LOG2) \in Nat
        BY SizesAre
      <3> DEFINE d == SPARSE_MAX - n
      <3>2. d \in Nat /\ SPARSE_MAX = n + d
        BY <1>1, <1>5
      <3>3. d * VALUE_SIZE \in Nat
        BY <1>1, <3>2
      <3>4. SPARSE_MAX * VALUE_SIZE = n * VALUE_SIZE + d * VALUE_SIZE
        BY <1>1, <3>2
      <3>5. bytes \in Nat \ {0}
        BY <1>1, <1>5
      <3> HIDE DEF d
      <3> QED BY <3>1, <3>3, <3>4, <3>5
    <2>3. log2 \in FIRST_LOG2..LOG2_MAX /\ bytes <= Pow(log2) /\ log2 \in 0..LOG2_MAX
      <3> HIDE DEF bytes
      <3>1. log2 \in Nat /\ FIRST_LOG2 <= log2 /\ bytes <= Pow(log2)
        BY <2>2, Log2Is
      <3>2. log2 <= LOG2_MAX
        BY <1>5 DEF grants
      <3> QED BY <3>1, <3>2, SizesAre
    <2>4. top \in ToSet(q) /\ ToSet(q) \in SUBSET Nat /\ top \in Nat
      <3>1. n > 0
        BY <1>1, <1>5
      <3>2. top \in ToSet(q) /\ ToSet(q) \in SUBSET Nat
        BY <3>1, AscendsCounts
      <3> QED BY <3>2
    <2> HIDE DEF log2, top
    <2>5. p \in PoolRecords /\ \A e \in 0..LOG2_MAX : p.lent[e] = s.pool.lent[e] + Mark(log2, e)
      <3> DEFINE sp == s.pool
      <3>1. sp \in PoolRecords
        BY <1>1
      <3> HIDE DEF sp
      <3>2. take(sp, log2) \in PoolRecords /\ \A e \in 0..LOG2_MAX : take(sp, log2).lent[e] = sp.lent[e] + Mark(log2, e)
        BY <2>3, <3>1, TakeGive
      <3> QED BY <3>2 DEF sp
    <2>6. t = [s EXCEPT !.pool = p, !.set.block = TRUE, !.set.directory_log2 = log2,
                    !.set.values = q, !.set.cardinality = n, !.set.maximum = top]
      BY <2>1
    <2> HIDE DEF p, n
    <2>7. IsStep(t, TRUE, q, s.set.containers, n, top, log2, p, s.result)
      <3>1. log2 \in Nat
        BY <2>3, SizesAre
      <3>2. n \in Nat /\ q \in Seq(Nat) /\ top \in Nat /\ p \in PoolRecords /\ s \in Steps
        BY <1>1, <2>4, <2>5 DEF n
      <3>3. IsStep([s EXCEPT !.pool = p, !.set.block = TRUE, !.set.directory_log2 = log2,
                    !.set.values = q, !.set.cardinality = n, !.set.maximum = top],
                TRUE, q, s.set.containers, n, top, log2, p, s.result)
        BY ONLY <3>1, <3>2, StepFilled, Zenon
      <3> QED BY <2>6, <3>3, Zenon
    <2>8. /\ t \in Steps /\ t.set.block = TRUE /\ t.set.values = q /\ t.set.containers = << >>
          /\ t.set.cardinality = n /\ t.set.maximum = top /\ t.set.directory_log2 = log2
          /\ t.pool = p /\ t.result = SUCCESS /\ t.set \in SetRecords
      <3>1. Zeroed.containers = << >>
        BY Fields
      <3> QED BY <2>7, <3>1, StepParts DEF IsStep
    <2>9. IsSparse(t.set)
      <3>1. HasBlock(t.set)
        BY <2>3, <2>8 DEF HasBlock
      <3>2. Len(t.set.values) = n /\ n \in 1..SPARSE_MAX
        BY <1>1, <1>5, <2>8 DEF n
      <3>3. Len(t.set.values) * VALUE_SIZE <= Pow(t.set.directory_log2)
        BY <2>3, <2>8, <3>2
      <3> QED BY <2>8, <3>1, <3>2, <3>3 DEF IsSparse, top
    <2>10. IsGood(t.set) /\ Contents(t.set) = ToSet(q)
      <3>1. IsGood(t.set)
        BY <2>9 DEF IsGood
      <3> QED BY <2>8, <3>1, GoodIs
    <2>11. Owes(t.pool.lent, t.set, base)
      <3>1. ASSUME NEW e \in 0..LOG2_MAX PROVE p.lent[e] = base[e] + named(t.set, e)
        <4>1. named(t.set, e) = Mark(log2, e) /\ named(Zeroed, e) = 0
          BY <2>8, SparseNamed, NamedIs, Fields
        <4>2. s.pool.lent[e] = base[e] + named(Zeroed, e) /\ base[e] \in Int
          BY DEF Working, Owes
        <4> QED BY <2>5, <4>1, <4>2
      <3>2. p.lent \in [0..LOG2_MAX -> Int] /\ base \in [0..LOG2_MAX -> Int]
        BY <2>5, Fields DEF Working, Owes
      <3> QED BY <2>8, <3>1, <3>2, Zenon DEF Owes
    <2> QED BY <2>8, <2>10, <2>11 DEF Working, Made
  <1> QED BY <1>2, <1>3, <1>4, <1>5

-----------------------------------------------------------------------------
(* Reading sets.                                                           *)

\* A search meets a value where it would stand.
LEMMA SearchIs ==
  ASSUME NEW s, Ascends(s), NEW v \in Nat
  PROVE  (lower_bound(s, v) < Len(s) /\ s[lower_bound(s, v) + 1] = v) <=> v \in ToSet(s)
  <1> DEFINE at == lower_bound(s, v)
             n == Len(s)
  <1>1. s \in Seq(Nat) /\ n \in Nat /\ DOMAIN s = 1..n
    BY DEF Ascends
  <1>2. at \in 0..n /\ \A i \in 1..n : s[i] < v <=> i <= at
    BY BoundsAre
  <1>3. ASSUME at < n, s[at + 1] = v PROVE v \in ToSet(s)
    <2>1. at + 1 \in 1..n
      <3> HIDE DEF at, n
      <3> QED BY <1>1, <1>2, <1>3
    <2> QED BY <1>1, <1>3, <2>1 DEF ToSet
  <1>4. ASSUME v \in ToSet(s) PROVE at < n /\ s[at + 1] = v
    <2>1. PICK i \in 1..n : s[i] = v
      BY <1>1, <1>4 DEF ToSet
    <2>2. at < i
      <3> HIDE DEF at, n
      <3> QED BY <1>1, <1>2, <2>1
    <2>3. at + 1 \in 1..n /\ at < n /\ ~(at + 1 <= at)
      <3> HIDE DEF at, n
      <3> QED BY <1>1, <1>2, <2>1, <2>2
    <2>4. ~(s[at + 1] < v)
      BY <1>2, <2>3
    <2>5. CASE at + 1 = i
      BY <2>1, <2>3, <2>5
    <2>6. CASE at + 1 # i
      <3>1. at + 1 < i
        <4> HIDE DEF at, n
        <4> QED BY <1>1, <1>2, <2>1, <2>2, <2>6
      <3>2. s[at + 1] < s[i]
        BY <2>3, <3>1 DEF Ascends
      <3> QED BY <2>1, <2>4, <3>2
    <2> QED BY <2>5, <2>6
  <1> QED BY <1>3, <1>4

\* The containers of a set in good order.
LEMMA DirectoryIs ==
  ASSUME NEW x, IsGood(x), x.containers # << >>
  PROVE  IsDirectory(x) /\ ToSet(x.values) = {}
  <1>1. IsDirectory(x)
    BY Fields DEF IsGood, IsSparse
  <1>2. x.values = << >>
    BY <1>1 DEF IsDirectory
  <1> QED BY <1>1, <1>2 DEF ToSet

\* A sparse set is its values.
LEMMA SparseIs ==
  ASSUME NEW x, IsGood(x), x.containers = << >>
  PROVE  /\ Ascends(x.values) /\ x.cardinality = Len(x.values) /\ Len(x.values) <= SPARSE_MAX
         /\ Contents(x) = ToSet(x.values)
  <1>1. CASE x = Zeroed
    <2>1. Len(x.values) = 0 /\ x.cardinality = 0
      BY <1>1, Fields
    <2> QED BY <2>1, GoodIs, SizesAre
  <1>2. CASE x # Zeroed
    <2>1. IsSparse(x)
      BY <1>2 DEF IsGood, IsDirectory
    <2> QED BY <2>1, GoodIs DEF IsSparse
  <1> QED BY <1>1, <1>2

\* A container is asked for a low part (container_has).
LEMMA ContainerHasIs ==
  ASSUME NEW c, IsFilled(c), NEW low \in LowParts
  PROVE  container_has(c, low) <=> low \in Lows(c)
  <1>1. IsReadable(c) /\ c.cardinality = Cardinality(Lows(c)) /\ low \in Nat
    BY LowPartsAre DEF IsFilled
  <1>2. CASE c.kind = BITMAP
    BY <1>2 DEF container_has, Lows
  <1>3. CASE c.kind # BITMAP
    <2>1. Ascends(c.lows) /\ Lows(c) = ToSet(c.lows)
      BY <1>1, <1>3 DEF IsReadable, Lows
    <2>2. c.cardinality = Len(c.lows)
      BY <1>1, <2>1, AscendsCounts
    <2> QED BY <1>1, <1>3, <2>1, <2>2, SearchIs DEF container_has
  <1> QED BY <1>2, <1>3

\* A set is asked for a number (arnm_roaring_contains).
LEMMA ContainsIs ==
  ASSUME NEW x, IsGood(x), NEW v \in Nat
  PROVE  arnm_roaring_contains(x, v) <=> v \in Contents(x)
  <1>1. CASE x.containers = << >>
    <2>1. Ascends(x.values) /\ x.cardinality = Len(x.values) /\ Contents(x) = ToSet(x.values)
      BY <1>1, SparseIs
    <2> QED BY <1>1, <2>1, SearchIs DEF arnm_roaring_contains, arnm_roaring_is_sparse
  <1>2. CASE x.containers # << >>
    <2> DEFINE cs == x.containers
               n == Len(cs)
               k == key_of(v)
               l == low_of(v)
    <2>1. x \in SetRecords /\ (\A i \in 1..n : IsReadable(cs[i])) /\ DOMAIN cs = 1..n
      <3>1. x \in SetRecords /\ (\A i \in 1..n : IsReadable(cs[i]))
        BY GoodIs
      <3>2. cs \in Seq(Containers)
        BY <3>1, Fields
      <3> QED BY <3>1, <3>2
    <2>2. \A i \in 1..n : IsFilled(cs[i])
      BY <1>2, DirectoryIs DEF IsDirectory, IsStored
    <2>3. ToSet(x.values) = {}
      BY <1>2, DirectoryIs
    <2>4. l \in LowParts
      BY KeysAndLows
    <2>5. arnm_roaring_contains(x, v) <=> \E i \in 1..n : cs[i].key = k /\ container_has(cs[i], l)
      BY <1>2, <2>1 DEF arnm_roaring_contains, arnm_roaring_is_sparse
    <2>6. v \in Contents(x) <=> \E i \in 1..n : v \in At(cs[i].key, Lows(cs[i]))
      BY <2>1, <2>3, ContentsAre
    <2>7. ASSUME NEW i \in 1..n
          PROVE  cs[i].key = k /\ container_has(cs[i], l) <=> v \in At(cs[i].key, Lows(cs[i]))
      <3> DEFINE c == cs[i]
      <3>1. IsFilled(c) /\ IsReadable(c)
        BY <2>1, <2>2
      <3> HIDE DEF c, l, k
      <3>2. container_has(c, l) <=> l \in Lows(c)
        BY <2>4, <3>1, ContainerHasIs
      <3>3. Lows(c) \in SUBSET LowParts /\ c.key \in Nat
        BY <3>1, LowsAre
      <3>4. v \in At(c.key, Lows(c)) <=> k = c.key /\ l \in Lows(c)
        BY <3>3, AtIs DEF k, l
      <3> QED BY <3>2, <3>4 DEF c
    <2> HIDE DEF cs, n, k, l
    <2> QED BY <2>5, <2>6, <2>7
  <1> QED BY <1>1, <1>2

-----------------------------------------------------------------------------
(* A set read key by key.                                                  *)

\* The numbers in the containers of a range.
InKeys(T, r) == {v \in T : key_of(v) \in key_of(r[1])..key_of(r[2])}

\* A source that has the numbers of T.
Reads(src, T) ==
  /\ keys_in(src) \in SUBSET Nat /\ IsFiniteSet(keys_in(src))
  /\ \A v \in T : key_of(v) \in keys_in(src)
  /\ \A key \in keys_in(src) :
       /\ IsReadable(at_key(src, key)) /\ at_key(src, key).key = key
       /\ Lows(at_key(src, key)) = LowsIn(T, key)

\* The container of a key.
LEMMA AtKeyIs ==
  ASSUME NEW src, NEW key \in keys_in(src)
  PROVE  \E i \in DOMAIN src : src[i].key = key /\ at_key(src, key) = src[i]
  <1>1. \E i \in DOMAIN src : src[i].key = key
    BY DEF keys_in
  <1> DEFINE j == CHOOSE i \in DOMAIN src : src[i].key = key
  <1>2. j \in DOMAIN src /\ src[j].key = key
    BY <1>1
  <1>3. at_key(src, key) = src[j]
    BY DEF at_key
  <1> HIDE DEF j
  <1> QED BY <1>2, <1>3

\* It suffices that each container read has the numbers of its key.
LEMMA ReadsIf ==
  ASSUME NEW src, NEW T, NEW K \in SUBSET Nat, IsFiniteSet(K), keys_in(src) = K,
         \A v \in T : key_of(v) \in K,
         \A i \in DOMAIN src : IsReadable(src[i]) /\ Lows(src[i]) = LowsIn(T, src[i].key)
  PROVE  Reads(src, T)
  <1>1. ASSUME NEW key \in keys_in(src)
        PROVE  /\ IsReadable(at_key(src, key)) /\ at_key(src, key).key = key
               /\ Lows(at_key(src, key)) = LowsIn(T, key)
    <2>1. PICK i \in DOMAIN src : src[i].key = key /\ at_key(src, key) = src[i]
      BY AtKeyIs
    <2>2. IsReadable(src[i]) /\ Lows(src[i]) = LowsIn(T, src[i].key)
      OBVIOUS
    <2> QED BY <2>1, <2>2, Zenon
  <1> QED BY <1>1 DEF Reads

\* A sparse set, seen as containers.
LEMMA SparseSourceIs ==
  ASSUME NEW x, IsGood(x), x.containers = << >>, NEW r \in Nat \X Nat
  PROVE  Reads(source(x, r), InKeys(Contents(x), r))
  <1> DEFINE q == x.values
             keys == key_of(r[1])..key_of(r[2])
             K == keys_of(q) \cap keys
             a == ascending(K)
             n == Cardinality(K)
             T == InKeys(Contents(x), r)
             C(i) == Container(a[i], ARRAY, lows_of_key(q, a[i]), Len(lows_of_key(q, a[i])), 0)
             src == source(x, r)
  <1>1. Ascends(q) /\ Len(q) <= SPARSE_MAX /\ Contents(x) = ToSet(q)
    BY SparseIs
  <1>2. K \in SUBSET Nat /\ IsFiniteSet(K)
    <2>1. keys_of(q) \in SUBSET Nat /\ IsFiniteSet(keys_of(q))
      BY <1>1, KeysOfAre
    <2>2. K \in SUBSET keys_of(q)
      OBVIOUS
    <2> HIDE DEF K
    <2> QED BY <2>1, <2>2, FS_Subset
  <1>3. n \in Nat /\ DOMAIN a = 1..n /\ ToSet(a) = K
    <2>1. a \in Seq(K) /\ Len(a) = n /\ n \in Nat /\ ToSet(a) = K
      BY <1>2, AscendingIs
    <2> HIDE DEF a, n
    <2> QED BY <2>1
  <1>4. src = [i \in DOMAIN a |-> C(i)]
    BY Zenon DEF source, arnm_roaring_is_sparse
  <1>5. DOMAIN src = 1..n /\ \A i \in 1..n : src[i] = C(i)
    <2> HIDE DEF C, a, src, n
    <2> QED BY <1>3, <1>4
  <1>6. T = {v \in ToSet(q) : key_of(v) \in keys} /\ \A v \in ToSet(q) : v \in Nat /\ key_of(v) \in keys_of(q)
    BY <1>1, KeysOfAre DEF InKeys
  <1>7. \A v \in T : key_of(v) \in K
    BY <1>6
  <1>8. ASSUME NEW i \in 1..n
        PROVE  /\ IsReadable(src[i]) /\ src[i].key = a[i] /\ a[i] \in K
               /\ Lows(src[i]) = LowsIn(T, src[i].key)
    <2> DEFINE k == a[i]
               l == lows_of_key(q, k)
               c == Container(k, ARRAY, l, Len(l), 0)
    <2>1. k \in K /\ k \in Nat /\ k \in keys
      <3>1. k \in ToSet(a)
        BY <1>3 DEF ToSet
      <3> HIDE DEF a
      <3> QED BY <1>2, <1>3, <3>1
    <2>2. src[i] = c
      BY <1>5
    <2> HIDE DEF k
    <2>3. /\ Ascends(l) /\ Len(l) <= Len(q) /\ ToSet(l) = LowsIn(ToSet(q), k)
          /\ LowsIn(ToSet(q), k) \in SUBSET LowParts
      BY <1>1, <2>1, LowsOfKey
    <2>4. l \in Seq(Nat) /\ Len(l) \in Nat
      <3> HIDE DEF l
      <3> QED BY <2>3 DEF Ascends
    <2> HIDE DEF l
    <2>5. c.key = k /\ c.kind = ARRAY /\ c.lows = l
      <3>1. ARRAY \in Kinds /\ l \in LowRecords /\ 0 \in Nat
        BY <2>4 DEF Kinds, LowRecords
      <3> DEFINE m == Len(l)
      <3>2. m \in Nat
        BY <2>4
      <3> HIDE DEF m
      <3>3. Container(k, ARRAY, l, m, 0).key = k /\ Container(k, ARRAY, l, m, 0).kind = ARRAY
            /\ Container(k, ARRAY, l, m, 0).lows = l
        BY ONLY <2>1, <3>1, <3>2, ContainerIs, SMTT(40)
      <3> QED BY <3>3 DEF m
    <2> HIDE DEF c
    <2>6. OfKey(T, k) = OfKey(ToSet(q), k)
      BY <1>6, <2>1 DEF OfKey
    <2>7. Lows(c) = LowsIn(T, k)
      <3>1. Lows(c) = ToSet(l)
        BY <2>5, KindsDiffer DEF Lows
      <3>2. LowsIn(T, k) = LowsIn(ToSet(q), k)
        BY <2>6, Zenon DEF LowsIn
      <3> QED BY <2>3, <3>1, <3>2
    <2>8. IsReadable(c)
      <3>1. Len(l) <= ARRAY_MAX
        <4>1. Len(q) \in Nat /\ SPARSE_MAX \in Nat /\ ARRAY_MAX \in Nat /\ SPARSE_MAX < ARRAY_MAX
          BY <1>1, AscendsCounts, SizesAre
        <4> QED BY <1>1, <2>3, <2>4, <4>1
      <3> QED BY <2>1, <2>3, <2>5, <3>1 DEF IsReadable
    <2> HIDE DEF src, a
    <2> QED BY <2>1, <2>2, <2>5, <2>7, <2>8 DEF k
  <1> HIDE DEF K, a, n, T, C, src
  <1>9. keys_in(src) = K
    <2>1. keys_in(src) = {src[i].key : i \in 1..n}
      BY <1>5, Zenon DEF keys_in
    <2>2. K = {a[i] : i \in 1..n}
      BY <1>3, Zenon DEF ToSet
    <2> QED BY <1>8, <2>1, <2>2
  <1>10. Reads(src, T)
    BY <1>2, <1>5, <1>7, <1>8, <1>9, ReadsIf
  <1> QED BY <1>10 DEF src, T

\* Containers, those of the range.
LEMMA DirectorySourceIs ==
  ASSUME NEW x, IsGood(x), x.containers # << >>, NEW r \in Nat \X Nat
  PROVE  Reads(source(x, r), InKeys(Contents(x), r))
  <1> DEFINE cs == x.containers
             n == Len(cs)
             keys == key_of(r[1])..key_of(r[2])
             P == {i \in DOMAIN cs : cs[i].key \in keys}
             m == Cardinality(P)
             T == InKeys(Contents(x), r)
             src == at_places(cs, P)
             K == keys_in(src)
  <1>1. source(x, r) = src
    BY DEF source, arnm_roaring_is_sparse
  <1>2. x \in SetRecords /\ IsDirectory(x) /\ (\A i \in 1..n : IsReadable(cs[i])) /\ ToSet(x.values) = {}
    BY GoodIs, DirectoryIs
  <1>3. cs \in Seq(Containers) /\ n \in Nat /\ DOMAIN cs = 1..n
    <2>1. cs \in Seq(Containers)
      BY <1>2, Fields
    <2> QED BY <2>1
  <1>4. \A i, j \in 1..n : i < j => cs[i].key < cs[j].key
    BY <1>2 DEF IsDirectory
  <1>5. \A i \in 1..n : cs[i].key \in Nat /\ Lows(cs[i]) \in SUBSET LowParts
    BY <1>2, LowsAre
  <1>6. \A i, j \in 1..n : cs[i].key = cs[j].key => i = j
    <2> HIDE DEF cs, n
    <2>1. ASSUME NEW i \in 1..n, NEW j \in 1..n, cs[i].key = cs[j].key PROVE i = j
      <3>1. cs[i].key \in Nat /\ cs[j].key \in Nat
        BY <1>5
      <3>2. ~(i < j) /\ ~(j < i)
        BY <1>4, <2>1, <3>1
      <3> QED BY <1>3, <3>2
    <2> QED BY <2>1
  <1>7. \A v : v \in Contents(x) <=> \E i \in 1..n : v \in At(cs[i].key, Lows(cs[i]))
    BY <1>2, ContentsAre
  <1>8. P \in SUBSET (1..n) /\ \A i \in 1..n : i \in P <=> cs[i].key \in keys
    BY <1>3
  <1> HIDE DEF P, cs, n
  <1>9. IsFiniteSet(P) /\ m \in Nat /\ IsPicked(src, cs, P)
    <2>1. IsFiniteSet(P) /\ m \in 0..n /\ IsPicked(src, cs, P)
      BY <1>3, <1>8, AtPlacesIs
    <2> HIDE DEF m
    <2> QED BY <1>3, <2>1
  <1> HIDE DEF src, m
  <1>10. /\ DOMAIN src = 1..m /\ \A i \in 1..m : \E p \in P : src[i] = cs[p]
         /\ \A p \in P : \E i \in 1..m : src[i] = cs[p]
    <2>1. PICK order \in [1..m -> P] :
            /\ src = [i \in 1..m |-> cs[order[i]]]
            /\ \A p \in P : \E i \in 1..m : order[i] = p
      BY <1>9 DEF IsPicked, m
    <2>2. \A i \in 1..m : order[i] \in P /\ src[i] = cs[order[i]]
      BY <2>1
    <2>3. DOMAIN src = 1..m
      BY <2>1
    <2> QED BY <2>1, <2>2, <2>3
  <1>11. K \in SUBSET Nat /\ \A p \in P : cs[p].key \in K
    <2>1. K = {src[i].key : i \in 1..m}
      BY <1>10, Zenon DEF keys_in
    <2>2. \A p \in P : cs[p].key \in Nat
      BY <1>5, <1>8
    <2> QED BY <1>10, <2>1, <2>2
  <1>12. IsFiniteSet(K)
    <2> DEFINE f == [i \in 1..m |-> src[i].key]
    <2>1. K = {src[i].key : i \in 1..m}
      BY <1>10, Zenon DEF keys_in
    <2> HIDE DEF K
    <2>2. f \in Surjection(1..m, K)
      BY <2>1 DEF Surjection
    <2>3. IsFiniteSet(1..m)
      BY <1>9, FS_Interval, 1 \in Int, m \in Int
    <2> HIDE DEF f
    <2> QED BY <2>2, <2>3, FS_Surjection
  <1>13. ASSUME NEW v \in T
         PROVE  \E p \in P : key_of(v) = cs[p].key /\ low_of(v) \in Lows(cs[p]) /\ v \in Nat
    <2>1. v \in Contents(x) /\ key_of(v) \in keys
      BY DEF InKeys
    <2>2. PICK i \in 1..n : v \in At(cs[i].key, Lows(cs[i]))
      BY <1>7, <2>1
    <2>3. v \in Nat /\ key_of(v) = cs[i].key /\ low_of(v) \in Lows(cs[i])
      BY <1>5, <2>2, AtIs
    <2> QED BY <1>8, <2>1, <2>3
  <1>14. \A v \in T : key_of(v) \in K
    BY <1>11, <1>13
  <1>15. ASSUME NEW p \in P PROVE IsReadable(cs[p]) /\ Lows(cs[p]) = LowsIn(T, cs[p].key)
    <2> DEFINE k == cs[p].key
               X == Lows(cs[p])
    <2>1. p \in 1..n /\ k \in keys /\ IsReadable(cs[p]) /\ k \in Nat /\ X \in SUBSET LowParts
      BY <1>2, <1>5, <1>8
    <2>2. ASSUME NEW l \in X PROVE l \in LowsIn(T, k)
      <3> DEFINE v == value_of(k, l)
      <3>1. v \in Nat /\ key_of(v) = k /\ low_of(v) = l
        <4> HIDE DEF k, X
        <4> QED BY <2>1, KeysAndLows
      <3>2. v \in At(k, X)
        BY DEF At
      <3>3. v \in T
        BY <1>7, <2>1, <3>1, <3>2 DEF InKeys
      <3> HIDE DEF T, v, k
      <3> QED BY <3>1, <3>3 DEF LowsIn, OfKey
    <2>3. ASSUME NEW l \in LowsIn(T, k) PROVE l \in X
      <3> HIDE DEF T, k
      <3>1. PICK v \in T : key_of(v) = k /\ l = low_of(v)
        BY DEF LowsIn, OfKey
      <3>2. PICK o \in P : key_of(v) = cs[o].key /\ low_of(v) \in Lows(cs[o])
        BY <1>13
      <3>3. o = p
        BY <1>6, <1>8, <3>1, <3>2 DEF k
      <3> QED BY <3>1, <3>2, <3>3
    <2> HIDE DEF X, k, T
    <2> QED BY <2>1, <2>2, <2>3 DEF X, k
  <1> HIDE DEF T, K
  <1>16. \A i \in DOMAIN src : IsReadable(src[i]) /\ Lows(src[i]) = LowsIn(T, src[i].key)
    BY <1>10, <1>15
  <1>17. Reads(src, T)
    BY <1>11, <1>12, <1>14, <1>16, ReadsIf DEF K
  <1> QED BY <1>1, <1>17 DEF T

\* A set read key by key in a range: readable containers of its numbers with those keys.
LEMMA SourceIs ==
  ASSUME NEW x, IsGood(x), NEW r \in Nat \X Nat
  PROVE  Reads(source(x, r), InKeys(Contents(x), r))
  BY SparseSourceIs, DirectorySourceIs

-----------------------------------------------------------------------------
(* Containers cut and combined.                                            *)

\* The low parts within some bounds.
Within(X, low, high) == {l \in X : low <= l /\ l <= high}

\* A set that may be added to at a key.
Ready(u, base, key) ==
  /\ Working(u, base) /\ u.result = SUCCESS /\ u.set.values = << >>
  /\ key \in Nat /\ \A v \in Contents(u.set) : key_of(v) < key

\* An array container cut to a range of low parts.
LEMMA ClipIs ==
  ASSUME NEW c, IsReadable(c), c.kind = ARRAY, NEW low \in LowParts, NEW high \in LowParts
  PROVE  /\ Ascends(clip(c, low, high)) /\ Len(clip(c, low, high)) <= ARRAY_MAX
         /\ ToSet(clip(c, low, high)) = Within(Lows(c), low, high)
         /\ Within(Lows(c), low, high) \in SUBSET LowParts
  <1> DEFINE q == c.lows
             s == between(q, low, high)
  <1>1. Ascends(q) /\ Len(q) <= ARRAY_MAX /\ Lows(c) = ToSet(q) /\ ToSet(q) \subseteq LowParts
    BY KindsDiffer DEF IsReadable, Lows
  <1>2. low \in Nat /\ high \in Nat
    BY LowPartsAre
  <1>3. Ascends(s) /\ Len(s) <= Len(q) /\ ToSet(s) = {v \in ToSet(q) : low <= v /\ v <= high}
    <2> HIDE DEF q
    <2> QED BY <1>1, <1>2, BetweenAscends
  <1> HIDE DEF s, q
  <1>4. Len(s) \in Nat /\ Len(q) \in Nat /\ ARRAY_MAX \in Nat
    BY <1>1, <1>3, AscendsCounts, SizesAre
  <1> QED BY <1>1, <1>3, <1>4 DEF clip, s, q, Within

\* Words cut at their edges are the bits of the range.
LEMMA ClipWordsIs ==
  ASSUME NEW X \in SUBSET LowParts, NEW low \in LowParts, NEW high \in LowParts
  PROVE  clip_words(X, low, high) = Within(X, low, high) /\ Within(X, low, high) \in SUBSET LowParts
  <1> DEFINE w == WORD_BITS
  <1>1. w \in Nat \ {0} /\ low \in Nat /\ high \in Nat
    BY SizesAre, LowPartsAre
  <1> HIDE DEF w
  <1>2. ASSUME NEW b \in X
        PROVE  (/\ b \div w \in (low \div w)..(high \div w)
                /\ b \div w = low \div w => b % w >= low % w
                /\ b \div w = high \div w => b % w <= high % w) <=> low <= b /\ b <= high
    <2>1. b \in Nat
      BY LowPartsAre
    <2>2. low <= b <=> low \div w < b \div w \/ (low \div w = b \div w /\ low % w <= b % w)
      BY <1>1, <2>1, WordOrder
    <2>3. b <= high <=> b \div w < high \div w \/ (b \div w = high \div w /\ b % w <= high % w)
      BY <1>1, <2>1, WordOrder
    <2> DEFINE bd == b \div w
               bm == b % w
               ld == low \div w
               lm == low % w
               hd == high \div w
               hm == high % w
    <2>4. bd \in Nat /\ ld \in Nat /\ hd \in Nat /\ bm \in Int /\ lm \in Int /\ hm \in Int
      <3>1. bm \in 0..(w - 1) /\ lm \in 0..(w - 1) /\ hm \in 0..(w - 1) /\ bd \in Nat /\ ld \in Nat /\ hd \in Nat
        BY <1>1, <2>1, Quotient
      <3> HIDE DEF bd, bm, ld, lm, hd, hm
      <3> QED BY <3>1
    <2>5. (low <= b <=> ld < bd \/ (ld = bd /\ lm <= bm)) /\ (b <= high <=> bd < hd \/ (bd = hd /\ bm <= hm))
      BY <2>2, <2>3
    <2> HIDE DEF bd, bm, ld, lm, hd, hm
    <2>6. (bd \in ld..hd /\ (bd = ld => bm >= lm) /\ (bd = hd => bm <= hm)) <=> low <= b /\ b <= high
      BY <2>4, <2>5
    <2> QED BY <2>6 DEF bd, bm, ld, lm, hd, hm
  <1>3. clip_words(X, low, high) = Within(X, low, high)
    BY <1>2 DEF clip_words, Within, w
  <1> QED BY <1>3 DEF Within

\* Low parts in order are ready to become a container,
LEMMA ArrayReady ==
  ASSUME NEW u, NEW base, NEW key, Ready(u, base, key),
         NEW q, Ascends(q), ToSet(q) \subseteq LowParts, Len(q) <= ARRAY_MAX
  PROVE  Outcome(arnm_roaring_emit_array(u, key, q), u, base, At(key, ToSet(q)))
  BY EmitArrayIs DEF Ready

\* bits too.
LEMMA WordsReady ==
  ASSUME NEW u, NEW base, NEW key, Ready(u, base, key), NEW bits \in SUBSET LowParts
  PROVE  Outcome(arnm_roaring_emit_words(u, key, bits), u, base, At(key, bits))
  BY EmitWordsIs DEF Ready

\* Bits cut to a range become a container.
LEMMA CombineWordsIs ==
  ASSUME NEW u, NEW base, NEW key, Ready(u, base, key), NEW words \in SUBSET LowParts,
         NEW low \in LowParts, NEW high \in LowParts
  PROVE  Outcome(combine_words(u, key, words, low, high), u, base, At(key, Within(words, low, high)))
  BY ClipWordsIs, WordsReady DEF combine_words

\* A container cut to a range becomes one (emit_clip).
LEMMA EmitClipIs ==
  ASSUME NEW u, NEW base, NEW c, Ready(u, base, c.key), IsReadable(c),
         NEW low \in LowParts, NEW high \in LowParts
  PROVE  Outcome(emit_clip(u, c, low, high), u, base, At(c.key, Within(Lows(c), low, high)))
  <1>1. CASE c.kind = ARRAY
    BY <1>1, ClipIs, ArrayReady DEF emit_clip
  <1>2. CASE c.kind # ARRAY
    <2>1. Lows(c) = c.lows /\ c.lows \in SUBSET LowParts
      BY <1>2 DEF IsReadable, Lows
    <2> QED BY <1>2, <2>1, ClipWordsIs, WordsReady DEF emit_clip
  <1> QED BY <1>1, <1>2

Sifted(X, ys, keep) == {l \in X : (l \in ys) = keep}

\* An array's low parts, those that are in ys or those that are not.
LEMMA SiftedIs ==
  ASSUME NEW u, NEW base, NEW a, Ready(u, base, a.key), IsReadable(a), a.kind = ARRAY,
         NEW low \in LowParts, NEW high \in LowParts, NEW ys, NEW keep \in BOOLEAN
  PROVE  Outcome(emit_sifted(u, a, ys, keep, low, high), u, base,
                 At(a.key, Sifted(Within(Lows(a), low, high), ys, keep)))
  <1> DEFINE xs == clip(a, low, high)
             P == {i \in DOMAIN xs : (xs[i] \in ys) = keep}
             q == at_places(xs, P)
             W == Within(Lows(a), low, high)
  <1>1. Ascends(xs) /\ Len(xs) <= ARRAY_MAX /\ ToSet(xs) = W /\ W \in SUBSET LowParts
    BY ClipIs
  <1>2. Ascends(q) /\ Len(q) <= Len(xs) /\ ToSet(q) = {xs[i] : i \in P}
    <2>1. P \in SUBSET DOMAIN xs
      OBVIOUS
    <2> HIDE DEF P, xs
    <2> QED BY <1>1, <2>1, SiftedAscends
  <1>3. {xs[i] : i \in P} = {l \in W : (l \in ys) = keep}
    <2>1. W = {xs[i] : i \in DOMAIN xs}
      BY <1>1, Zenon DEF ToSet
    <2> HIDE DEF W, xs
    <2> QED BY <2>1
  <1>4. Len(q) <= ARRAY_MAX
    <2>1. Len(q) \in Nat /\ Len(xs) \in Nat /\ ARRAY_MAX \in Nat
      BY <1>1, <1>2, AscendsCounts, SizesAre
    <2> QED BY <1>1, <1>2, <2>1
  <1>5. emit_sifted(u, a, ys, keep, low, high) = arnm_roaring_emit_array(u, a.key, q)
    BY DEF emit_sifted
  <1> DEFINE k == a.key
             Y == {l \in W : (l \in ys) = keep}
  <1>6. Y \subseteq LowParts /\ ToSet(q) = Y
    <2>1. Y \subseteq LowParts
      BY <1>1
    <2> HIDE DEF Y, q, W, P
    <2> QED BY <1>2, <1>3, <2>1 DEF Y
  <1> HIDE DEF q
  <1>7. Outcome(arnm_roaring_emit_array(u, k, q), u, base, At(k, ToSet(q)))
    <2>1. ToSet(q) \subseteq LowParts
      BY <1>6
    <2> HIDE DEF Y
    <2>2. Ready(u, base, k)
      OBVIOUS
    <2> HIDE DEF k
    <2> QED BY <1>2, <1>4, <2>1, <2>2, ArrayReady
  <1> QED BY <1>5, <1>6, <1>7 DEF Sifted

\* Two containers of one key: what both have, in every pair of kinds (and_containers),
LEMMA AndIs ==
  ASSUME NEW u, NEW base, NEW a, Ready(u, base, a.key), IsReadable(a),
         NEW b, IsReadable(b), b.key = a.key,
         NEW low \in LowParts, NEW high \in LowParts
  PROVE  Outcome(and_containers(u, a, b, low, high), u, base,
                 At(a.key, Within(Lows(a) \cap Lows(b), low, high)))
  <1> DEFINE X == Lows(a)
             Y == Lows(b)
             W == Within(X \cap Y, low, high)
             t == and_containers(u, a, b, low, high)
  <1>1. X \in SUBSET LowParts /\ Y \in SUBSET LowParts
    BY LowsAre
  <1>2. TRUE \in BOOLEAN /\ Ready(u, base, b.key)
    OBVIOUS
  <1>3. CASE a.kind = ARRAY /\ b.kind = ARRAY
    <2> DEFINE ys == ToSet(clip(b, low, high))
    <2>1. t = emit_sifted(u, a, ys, TRUE, low, high)
      BY <1>3 DEF and_containers, and_arrays
    <2>2. ys = Within(Y, low, high)
      BY <1>3, ClipIs
    <2> HIDE DEF ys
    <2>3. Outcome(emit_sifted(u, a, ys, TRUE, low, high), u, base,
                  At(a.key, Sifted(Within(X, low, high), ys, TRUE)))
      BY <1>2, <1>3, SiftedIs
    <2>4. Sifted(Within(X, low, high), ys, TRUE) = W
      BY <2>2 DEF Sifted, Within
    <2> QED BY <2>1, <2>3, <2>4
  <1>4. CASE a.kind = ARRAY /\ b.kind # ARRAY
    <2>1. t = emit_sifted(u, a, b.lows, TRUE, low, high)
      BY <1>4 DEF and_containers, filter_array_by_words
    <2>2. b.lows = Y
      BY <1>4 DEF IsReadable, Lows
    <2>3. Outcome(emit_sifted(u, a, b.lows, TRUE, low, high), u, base,
                  At(a.key, Sifted(Within(X, low, high), b.lows, TRUE)))
      BY <1>2, <1>4, SiftedIs
    <2>4. Sifted(Within(X, low, high), b.lows, TRUE) = W
      BY <2>2 DEF Sifted, Within
    <2> QED BY <2>1, <2>3, <2>4
  <1>5. CASE a.kind # ARRAY /\ b.kind = ARRAY
    <2>1. t = emit_sifted(u, b, a.lows, TRUE, low, high)
      BY <1>5 DEF and_containers, filter_array_by_words
    <2>2. a.lows = X
      BY <1>5 DEF IsReadable, Lows
    <2>3. Outcome(emit_sifted(u, b, a.lows, TRUE, low, high), u, base,
                  At(b.key, Sifted(Within(Y, low, high), a.lows, TRUE)))
      BY <1>2, <1>5, SiftedIs
    <2>4. Sifted(Within(Y, low, high), a.lows, TRUE) = W
      BY <2>2 DEF Sifted, Within
    <2> QED BY <2>1, <2>3, <2>4
  <1>6. CASE a.kind # ARRAY /\ b.kind # ARRAY
    <2>1. t = combine_words(u, a.key, a.lows \cap b.lows, low, high)
      BY <1>6 DEF and_containers
    <2>2. a.lows = X /\ b.lows = Y
      BY <1>6 DEF IsReadable, Lows
    <2>3. X \cap Y \in SUBSET LowParts
      BY <1>1
    <2> HIDE DEF X, Y
    <2>4. Outcome(combine_words(u, a.key, X \cap Y, low, high), u, base, At(a.key, W))
      BY <2>3, CombineWordsIs
    <2> QED BY <2>1, <2>2, <2>4 DEF X, Y
  <1> QED BY <1>3, <1>4, <1>5, <1>6

\* Words with the values of an array set or cleared.
LEMMA WordsWithArrayIs ==
  ASSUME NEW u, NEW base, NEW a, Ready(u, base, a.key), IsReadable(a), a.kind # ARRAY,
         NEW b, IsReadable(b), b.kind = ARRAY,
         NEW low \in LowParts, NEW high \in LowParts, NEW set \in BOOLEAN
  PROVE  Outcome(words_with_array(u, a, b, set, low, high), u, base,
                 At(a.key, Within(IF set THEN Lows(a) \cup Lows(b) ELSE Lows(a) \ Lows(b), low, high)))
  <1> DEFINE X == Lows(a)
             Y == Lows(b)
             ys == ToSet(clip(b, low, high))
             words == IF set THEN X \cup ys ELSE X \ ys
             W == Within(IF set THEN X \cup Y ELSE X \ Y, low, high)
  <1>1. X \in SUBSET LowParts /\ Y \in SUBSET LowParts
    BY LowsAre
  <1>2. ys = Within(Y, low, high) /\ ys \in SUBSET LowParts
    BY ClipIs
  <1>3. a.lows = X
    BY DEF IsReadable, Lows
  <1> HIDE DEF X, Y, ys
  <1>4. words \in SUBSET LowParts
    BY <1>1, <1>2
  <1>5. Within(words, low, high) = W
    BY <1>2 DEF Within
  <1>6. words_with_array(u, a, b, set, low, high) = combine_words(u, a.key, words, low, high)
    BY <1>3 DEF words_with_array, ys
  <1> HIDE DEF words, W
  <1>7. Outcome(combine_words(u, a.key, words, low, high), u, base, At(a.key, Within(words, low, high)))
    BY <1>4, CombineWordsIs
  <1> QED BY <1>5, <1>6, <1>7 DEF W, X, Y

\* Both arrays merged: an array if it is sure to be one, words otherwise.
LEMMA OrArraysIs ==
  ASSUME NEW u, NEW base, NEW a, Ready(u, base, a.key), IsReadable(a), a.kind = ARRAY,
         NEW b, IsReadable(b), b.kind = ARRAY,
         NEW low \in LowParts, NEW high \in LowParts
  PROVE  Outcome(or_arrays(u, a, b, low, high), u, base,
                 At(a.key, Within(Lows(a) \cup Lows(b), low, high)))
  <1> DEFINE xs == clip(a, low, high)
             ys == clip(b, low, high)
             both == ToSet(xs) \cup ToSet(ys)
             t == or_arrays(u, a, b, low, high)
             q == ascending(both)
  <1>1. /\ Ascends(xs) /\ ToSet(xs) = Within(Lows(a), low, high) /\ ToSet(xs) \in SUBSET LowParts
        /\ Ascends(ys) /\ ToSet(ys) = Within(Lows(b), low, high) /\ ToSet(ys) \in SUBSET LowParts
    BY ClipIs
  <1>2. both = Within(Lows(a) \cup Lows(b), low, high) /\ both \in SUBSET LowParts
    BY <1>1 DEF Within
  <1>3. CASE Len(xs) + Len(ys) > ARRAY_MAX
    <2>1. t = arnm_roaring_emit_words(u, a.key, both)
      BY <1>3 DEF or_arrays
    <2> HIDE DEF both
    <2>2. Outcome(arnm_roaring_emit_words(u, a.key, both), u, base, At(a.key, both))
      BY <1>2, WordsReady
    <2> QED BY <1>2, <2>1, <2>2
  <1>4. CASE ~(Len(xs) + Len(ys) > ARRAY_MAX)
    <2>1. t = arnm_roaring_emit_array(u, a.key, q)
      BY <1>4 DEF or_arrays
    <2>2. both \in SUBSET Nat /\ IsFiniteSet(both)
      <3> HIDE DEF both
      <3> QED BY <1>2, LowPartsAre, FS_Subset
    <2>3. Ascends(q) /\ Len(q) = Cardinality(both) /\ ToSet(q) = both /\ Cardinality(both) \in Nat
      <3> HIDE DEF both
      <3> QED BY <2>2, AscendingIs
    <2>4. Len(q) <= ARRAY_MAX
      <3> DEFINE X == ToSet(xs)
                 Y == ToSet(ys)
      <3>1. /\ Cardinality(X) = Len(xs) /\ IsFiniteSet(X) /\ Len(xs) \in Nat
            /\ Cardinality(Y) = Len(ys) /\ IsFiniteSet(Y) /\ Len(ys) \in Nat
        BY <1>1, AscendsCounts
      <3>2. both = X \cup Y /\ X \cap Y \in SUBSET X
        OBVIOUS
      <3> HIDE DEF X, Y, both, q
      <3>3. Cardinality(X \cup Y) = Cardinality(X) + Cardinality(Y) - Cardinality(X \cap Y)
        BY <3>1, FS_Union
      <3>4. IsFiniteSet(X \cap Y)
        BY <3>1, <3>2, FS_Subset
      <3>5. Cardinality(X \cap Y) \in Nat
        BY <3>4, FS_CardinalityType
      <3>6. ARRAY_MAX \in Nat
        BY SizesAre
      <3> HIDE DEF xs, ys
      <3> QED BY <1>4, <2>3, <3>1, <3>2, <3>3, <3>5, <3>6
    <2> HIDE DEF q
    <2>5. Outcome(arnm_roaring_emit_array(u, a.key, q), u, base, At(a.key, ToSet(q)))
      BY <1>2, <2>3, <2>4, ArrayReady
    <2> QED BY <1>2, <2>1, <2>3, <2>5
  <1> QED BY <1>3, <1>4

\* what either has (or_containers),
LEMMA OrIs ==
  ASSUME NEW u, NEW base, NEW a, Ready(u, base, a.key), IsReadable(a),
         NEW b, IsReadable(b), b.key = a.key,
         NEW low \in LowParts, NEW high \in LowParts
  PROVE  Outcome(or_containers(u, a, b, low, high), u, base,
                 At(a.key, Within(Lows(a) \cup Lows(b), low, high)))
  <1> DEFINE X == Lows(a)
             Y == Lows(b)
             W == Within(X \cup Y, low, high)
             t == or_containers(u, a, b, low, high)
  <1>1. X \in SUBSET LowParts /\ Y \in SUBSET LowParts /\ Y \cup X = X \cup Y
    BY LowsAre
  <1>2. Ready(u, base, b.key) /\ TRUE \in BOOLEAN
    OBVIOUS
  <1>3. CASE a.kind = ARRAY /\ b.kind = ARRAY
    <2>1. t = or_arrays(u, a, b, low, high)
      BY <1>3 DEF or_containers
    <2>2. Outcome(or_arrays(u, a, b, low, high), u, base, At(a.key, W))
      BY <1>3, OrArraysIs
    <2> QED BY <2>1, <2>2
  <1>4. CASE a.kind = ARRAY /\ b.kind # ARRAY
    <2>1. t = words_with_array(u, b, a, TRUE, low, high)
      BY <1>4 DEF or_containers
    <2>2. Outcome(words_with_array(u, b, a, TRUE, low, high), u, base,
                  At(b.key, Within(IF TRUE THEN Lows(b) \cup Lows(a) ELSE Lows(b) \ Lows(a), low, high)))
      BY <1>2, <1>4, WordsWithArrayIs
    <2> QED BY <1>1, <2>1, <2>2
  <1>5. CASE a.kind # ARRAY /\ b.kind = ARRAY
    <2>1. t = words_with_array(u, a, b, TRUE, low, high)
      BY <1>5 DEF or_containers
    <2>2. Outcome(words_with_array(u, a, b, TRUE, low, high), u, base,
                  At(a.key, Within(IF TRUE THEN Lows(a) \cup Lows(b) ELSE Lows(a) \ Lows(b), low, high)))
      BY <1>2, <1>5, WordsWithArrayIs
    <2> QED BY <2>1, <2>2
  <1>6. CASE a.kind # ARRAY /\ b.kind # ARRAY
    <2>1. t = combine_words(u, a.key, a.lows \cup b.lows, low, high)
      BY <1>6 DEF or_containers
    <2>2. a.lows = X /\ b.lows = Y
      BY <1>6 DEF IsReadable, Lows
    <2>3. X \cup Y \in SUBSET LowParts
      BY <1>1
    <2> HIDE DEF X, Y
    <2>4. Outcome(combine_words(u, a.key, X \cup Y, low, high), u, base, At(a.key, W))
      BY <2>3, CombineWordsIs
    <2> QED BY <2>1, <2>2, <2>4 DEF X, Y
  <1> QED BY <1>3, <1>4, <1>5, <1>6

\* what the first has and the second has not (andnot_containers).
LEMMA AndnotIs ==
  ASSUME NEW u, NEW base, NEW a, Ready(u, base, a.key), IsReadable(a),
         NEW b, IsReadable(b), b.key = a.key,
         NEW low \in LowParts, NEW high \in LowParts
  PROVE  Outcome(andnot_containers(u, a, b, low, high), u, base,
                 At(a.key, Within(Lows(a) \ Lows(b), low, high)))
  <1> DEFINE X == Lows(a)
             Y == Lows(b)
             W == Within(X \ Y, low, high)
             t == andnot_containers(u, a, b, low, high)
  <1>1. X \in SUBSET LowParts /\ Y \in SUBSET LowParts
    BY LowsAre
  <1>2. FALSE \in BOOLEAN
    OBVIOUS
  <1>3. CASE a.kind = ARRAY /\ b.kind = ARRAY
    <2> DEFINE ys == ToSet(clip(b, low, high))
    <2>1. t = emit_sifted(u, a, ys, FALSE, low, high)
      BY <1>3 DEF andnot_containers, andnot_arrays
    <2>2. ys = Within(Y, low, high)
      BY <1>3, ClipIs
    <2> HIDE DEF ys
    <2>3. Outcome(emit_sifted(u, a, ys, FALSE, low, high), u, base,
                  At(a.key, Sifted(Within(X, low, high), ys, FALSE)))
      BY <1>2, <1>3, SiftedIs
    <2>4. Sifted(Within(X, low, high), ys, FALSE) = W
      BY <2>2 DEF Sifted, Within
    <2> QED BY <2>1, <2>3, <2>4
  <1>4. CASE a.kind = ARRAY /\ b.kind # ARRAY
    <2>1. t = emit_sifted(u, a, b.lows, FALSE, low, high)
      BY <1>4 DEF andnot_containers, filter_array_by_words
    <2>2. b.lows = Y
      BY <1>4 DEF IsReadable, Lows
    <2>3. Outcome(emit_sifted(u, a, b.lows, FALSE, low, high), u, base,
                  At(a.key, Sifted(Within(X, low, high), b.lows, FALSE)))
      BY <1>2, <1>4, SiftedIs
    <2>4. Sifted(Within(X, low, high), b.lows, FALSE) = W
      BY <2>2 DEF Sifted, Within
    <2> QED BY <2>1, <2>3, <2>4
  <1>5. CASE a.kind # ARRAY /\ b.kind = ARRAY
    <2>1. t = words_with_array(u, a, b, FALSE, low, high)
      BY <1>5 DEF andnot_containers
    <2>2. Outcome(words_with_array(u, a, b, FALSE, low, high), u, base,
                  At(a.key, Within(IF FALSE THEN Lows(a) \cup Lows(b) ELSE Lows(a) \ Lows(b), low, high)))
      BY <1>2, <1>5, WordsWithArrayIs
    <2> QED BY <2>1, <2>2
  <1>6. CASE a.kind # ARRAY /\ b.kind # ARRAY
    <2>1. t = combine_words(u, a.key, a.lows \ b.lows, low, high)
      BY <1>6 DEF andnot_containers
    <2>2. a.lows = X /\ b.lows = Y
      BY <1>6 DEF IsReadable, Lows
    <2>3. X \ Y \in SUBSET LowParts
      BY <1>1
    <2> HIDE DEF X, Y
    <2>4. Outcome(combine_words(u, a.key, X \ Y, low, high), u, base, At(a.key, W))
      BY <2>3, CombineWordsIs
    <2> QED BY <2>1, <2>2, <2>4 DEF X, Y
  <1> QED BY <1>3, <1>4, <1>5, <1>6

-----------------------------------------------------------------------------
(* A range, key by key.                                                    *)

Cut(T, r) == {v \in T : r[1] <= v /\ v <= r[2]}

\* Low parts and numbers of a key say the same.
LEMMA LowsInIs ==
  ASSUME NEW T \in SUBSET Nat, NEW key \in Nat
  PROVE  /\ LowsIn(T, key) \in SUBSET LowParts
         /\ \A l \in LowParts : l \in LowsIn(T, key) <=> value_of(key, l) \in T
  <1>1. LowsIn(T, key) \in SUBSET LowParts /\ At(key, LowsIn(T, key)) = OfKey(T, key)
    BY OfKeyIs
  <1>2. ASSUME NEW l \in LowParts PROVE l \in LowsIn(T, key) <=> value_of(key, l) \in T
    <2> DEFINE v == value_of(key, l)
    <2>1. v \in Nat /\ key_of(v) = key /\ low_of(v) = l
      BY KeysAndLows
    <2> HIDE DEF v
    <2>2. v \in At(key, LowsIn(T, key)) <=> low_of(v) \in LowsIn(T, key)
      BY <1>1, <2>1, AtIs
    <2>3. v \in OfKey(T, key) <=> v \in T
      BY <2>1 DEF OfKey
    <2> QED BY <1>1, <2>1, <2>2, <2>3 DEF v
  <1> QED BY <1>1, <1>2

\* Low parts of what two sets make are made of theirs.
LEMMA LowsCombined ==
  ASSUME NEW S \in SUBSET Nat, NEW T \in SUBSET Nat, NEW key \in Nat, NEW U
  PROVE  /\ U = S \cap T => LowsIn(U, key) = LowsIn(S, key) \cap LowsIn(T, key)
         /\ U = S \cup T => LowsIn(U, key) = LowsIn(S, key) \cup LowsIn(T, key)
         /\ U = S \ T => LowsIn(U, key) = LowsIn(S, key) \ LowsIn(T, key)
  <1>1. S \cap T \in SUBSET Nat /\ S \cup T \in SUBSET Nat /\ S \ T \in SUBSET Nat
    OBVIOUS
  <1>2. /\ LowsIn(S, key) \in SUBSET LowParts /\ LowsIn(T, key) \in SUBSET LowParts
        /\ LowsIn(S \cap T, key) \in SUBSET LowParts /\ LowsIn(S \cup T, key) \in SUBSET LowParts
        /\ LowsIn(S \ T, key) \in SUBSET LowParts
    BY <1>1, LowsInIs
  <1>3. \A l \in LowParts :
          /\ l \in LowsIn(S, key) <=> value_of(key, l) \in S
          /\ l \in LowsIn(T, key) <=> value_of(key, l) \in T
    BY LowsInIs
  <1>4. \A l \in LowParts : l \in LowsIn(S \cap T, key) <=> value_of(key, l) \in S \cap T
    BY <1>1, LowsInIs
  <1>5. \A l \in LowParts : l \in LowsIn(S \cup T, key) <=> value_of(key, l) \in S \cup T
    BY <1>1, LowsInIs
  <1>6. \A l \in LowParts : l \in LowsIn(S \ T, key) <=> value_of(key, l) \in S \ T
    BY <1>1, LowsInIs
  <1>7. LowsIn(S \cap T, key) = LowsIn(S, key) \cap LowsIn(T, key)
    BY <1>2, <1>3, <1>4
  <1>8. LowsIn(S \cup T, key) = LowsIn(S, key) \cup LowsIn(T, key)
    BY <1>2, <1>3, <1>5
  <1>9. LowsIn(S \ T, key) = LowsIn(S, key) \ LowsIn(T, key)
    BY <1>2, <1>3, <1>6
  <1> QED BY <1>7, <1>8, <1>9

\* The bounds of a range in the container of a key.
LEMMA KeyBounds ==
  ASSUME NEW r \in Nat \X Nat, NEW key \in Nat
  PROVE  /\ low_bound(key, r) \in LowParts /\ high_bound(key, r) \in LowParts
         /\ \A v \in Nat : key_of(v) = key /\ key \in key_of(r[1])..key_of(r[2]) =>
              (low_bound(key, r) <= low_of(v) /\ low_of(v) <= high_bound(key, r)
                 <=> r[1] <= v /\ v <= r[2])
  <1>1. r[1] \in Nat /\ r[2] \in Nat
    OBVIOUS
  <1>2. 0 \in LowParts /\ LOWS - 1 \in LowParts /\ LOWS \in Nat \ {0}
    BY SizesAre DEF LowParts
  <1>3. /\ key_of(r[1]) \in Nat /\ low_of(r[1]) \in LowParts
        /\ key_of(r[2]) \in Nat /\ low_of(r[2]) \in LowParts
    BY <1>1, KeysAndLows
  <1>4. low_bound(key, r) \in LowParts /\ high_bound(key, r) \in LowParts
    BY <1>2, <1>3 DEF low_bound, high_bound
  <1>5. ASSUME NEW v \in Nat, key_of(v) = key, key \in key_of(r[1])..key_of(r[2])
        PROVE  low_bound(key, r) <= low_of(v) /\ low_of(v) <= high_bound(key, r) <=> r[1] <= v /\ v <= r[2]
    <2> DEFINE l == low_of(v)
               k1 == key_of(r[1])
               k2 == key_of(r[2])
               l1 == low_of(r[1])
               l2 == low_of(r[2])
    <2>1. r[1] <= v <=> k1 < key \/ (k1 = key /\ l1 <= l)
      BY <1>1, <1>5, KeyOrder
    <2>2. v <= r[2] <=> key < k2 \/ (key = k2 /\ l <= l2)
      BY <1>1, <1>5, KeyOrder
    <2>3. l \in Nat /\ 0 <= l /\ l <= LOWS - 1 /\ l1 \in Nat /\ l2 \in Nat
      <3>1. l \in LowParts
        BY KeysAndLows
      <3> HIDE DEF l, l1, l2
      <3> QED BY <1>2, <1>3, <3>1, LowPartsAre DEF LowParts, l1, l2
    <2>4. k1 <= key /\ key <= k2 /\ k1 \in Nat /\ k2 \in Nat
      BY <1>3, <1>5
    <2>5. low_bound(key, r) = (IF key = k1 THEN l1 ELSE 0) /\ high_bound(key, r) = (IF key = k2 THEN l2 ELSE LOWS - 1)
      BY DEF low_bound, high_bound
    <2> DEFINE a == low_bound(key, r)
               b == high_bound(key, r)
               P == r[1] <= v
               Q == v <= r[2]
    <2>6. a = (IF key = k1 THEN l1 ELSE 0) /\ b = (IF key = k2 THEN l2 ELSE LOWS - 1)
      BY <2>5
    <2>7. (P <=> k1 < key \/ (k1 = key /\ l1 <= l)) /\ (Q <=> key < k2 \/ (key = k2 /\ l <= l2))
      BY <2>1, <2>2
    <2> HIDE DEF l, k1, k2, l1, l2, a, b, P, Q
    <2>8. a <= l <=> P
      BY <2>3, <2>4, <2>6, <2>7
    <2>9. l <= b <=> Q
      BY <2>3, <2>4, <2>6, <2>7
    <2> QED BY <2>8, <2>9 DEF l, a, b, P, Q
  <1> QED BY <1>4, <1>5

\* The numbers of a key in a range are those between its bounds (low_bound, high_bound).
LEMMA CutAt ==
  ASSUME NEW S \in SUBSET Nat, NEW r \in Nat \X Nat, NEW key \in Nat
  PROVE  At(key, Within(LowsIn(InKeys(S, r), key), low_bound(key, r), high_bound(key, r)))
           = OfKey(Cut(S, r), key)
  <1> DEFINE T == InKeys(S, r)
             X == LowsIn(T, key)
             low == low_bound(key, r)
             high == high_bound(key, r)
             W == Within(X, low, high)
  <1>1. T \in SUBSET Nat /\ \A v \in S : v \in Nat
    BY DEF InKeys
  <1>2. X \in SUBSET LowParts /\ \A l \in LowParts : l \in X <=> value_of(key, l) \in T
    <2> HIDE DEF T
    <2> QED BY <1>1, LowsInIs
  <1>3. W \in SUBSET LowParts
    BY <1>2 DEF Within
  <1>4. /\ low \in LowParts /\ high \in LowParts
        /\ \A v \in Nat : key_of(v) = key /\ key \in key_of(r[1])..key_of(r[2]) =>
              (low <= low_of(v) /\ low_of(v) <= high <=> r[1] <= v /\ v <= r[2])
    BY KeyBounds
  <1> HIDE DEF low, high, X
  <1>5. ASSUME NEW v \in At(key, W) PROVE v \in OfKey(Cut(S, r), key)
    <2>1. v \in Nat /\ key_of(v) = key /\ low_of(v) \in W
      BY <1>3, AtIs
    <2>2. low_of(v) \in X /\ low <= low_of(v) /\ low_of(v) <= high
      BY <2>1 DEF Within
    <2>3. v = value_of(key, low_of(v)) /\ low_of(v) \in LowParts
      BY <2>1, KeysAndLows
    <2>4. v \in T
      BY <1>2, <2>2, <2>3
    <2>5. v \in S /\ key \in key_of(r[1])..key_of(r[2])
      BY <2>1, <2>4 DEF InKeys
    <2> QED BY <1>4, <2>1, <2>2, <2>5 DEF OfKey, Cut
  <1>6. ASSUME NEW v \in OfKey(Cut(S, r), key) PROVE v \in At(key, W)
    <2>1. v \in S /\ v \in Nat /\ r[1] <= v /\ v <= r[2] /\ key_of(v) = key
      BY <1>1 DEF OfKey, Cut
    <2>2. key \in key_of(r[1])..key_of(r[2])
      <3>1. r[1] \in Nat /\ r[2] \in Nat
        OBVIOUS
      <3>2. key_of(r[1]) \in Nat /\ key_of(r[2]) \in Nat
        BY <3>1, KeysAndLows
      <3>3. key_of(r[1]) <= key
        BY <2>1, <3>1, <3>2, KeyOrder
      <3>4. key <= key_of(r[2])
        BY <2>1, <3>1, <3>2, KeyOrder
      <3> QED BY <3>2, <3>3, <3>4
    <2>3. v \in T
      BY <2>1, <2>2 DEF InKeys
    <2>4. v = value_of(key, low_of(v)) /\ low_of(v) \in LowParts
      BY <2>1, KeysAndLows
    <2>5. low_of(v) \in X
      BY <1>2, <2>3, <2>4
    <2>6. low <= low_of(v) /\ low_of(v) <= high
      BY <1>4, <2>1, <2>2
    <2>7. low_of(v) \in W
      BY <2>5, <2>6 DEF Within
    <2> HIDE DEF W
    <2> QED BY <1>3, <2>1, <2>7, AtIs
  <1> HIDE DEF W
  <1>7. At(key, W) = OfKey(Cut(S, r), key)
    BY <1>5, <1>6
  <1> QED BY <1>7 DEF W, X, T, low, high

\* What is in a range has its key in the range.
LEMMA CutKeys ==
  ASSUME NEW S \in SUBSET Nat, NEW r \in Nat \X Nat, NEW v \in Cut(S, r)
  PROVE  v \in InKeys(S, r) /\ v \in Nat
  <1>1. v \in S /\ v \in Nat /\ r[1] <= v /\ v <= r[2] /\ r[1] \in Nat /\ r[2] \in Nat
    BY DEF Cut
  <1>2. key_of(r[1]) \in Nat /\ key_of(r[2]) \in Nat /\ key_of(v) \in Nat
    BY <1>1, KeysAndLows
  <1>3. key_of(r[1]) <= key_of(v)
    BY <1>1, <1>2, KeyOrder
  <1>4. key_of(v) <= key_of(r[2])
    BY <1>1, <1>2, KeyOrder
  <1> QED BY <1>1, <1>2, <1>3, <1>4 DEF InKeys

-----------------------------------------------------------------------------
(* The turns of the merges.                                                *)

\* A key that both have: what both have of it.
LEMMA MeetingBuilds ==
  ASSUME NEW r \in Nat \X Nat, NEW base, NEW A \in SUBSET Nat, NEW B \in SUBSET Nat,
         NEW sa, Reads(sa, InKeys(A, r)),
         NEW sb, Reads(sb, InKeys(B, r))
  PROVE  BuildsAt(Meeting(sa, sb, r), base, Cut(A \cap B, r), keys_in(sa) \cap keys_in(sb))
  <1> DEFINE how == Meeting(sa, sb, r)
             T == Cut(A \cap B, r)
             K == keys_in(sa) \cap keys_in(sb)
  <1>1. A \cap B \in SUBSET Nat
    OBVIOUS
  <1>2. ASSUME NEW u, NEW k, Working(u, base), u.set.values = << >>, k \in K
        PROVE  /\ u.result = SUCCESS /\ (\A v \in Contents(u.set) : key_of(v) < k) =>
                    Outcome(Turn(how, u, k), u, base, OfKey(T, k))
               /\ u.result # SUCCESS => Turn(how, u, k) = u
    <2> DEFINE y == Turn(how, u, k)
               low == low_bound(k, r)
               high == high_bound(k, r)
               X == LowsIn(InKeys(A, r), k)
               Y == LowsIn(InKeys(B, r), k)
    <2>1. y = and_key(u, sa, sb, r, k)
      BY Turns
    <2>2. k \in Nat
      BY <1>2 DEF Reads
    <2>3. ASSUME u.result # SUCCESS PROVE y = u
      BY <2>1, <2>3 DEF and_key
    <2>4. ASSUME u.result = SUCCESS, \A v \in Contents(u.set) : key_of(v) < k
          PROVE  Outcome(y, u, base, OfKey(T, k))
      <3>1. Ready(u, base, k)
        BY <1>2, <2>2, <2>4 DEF Ready
      <3>2. low \in LowParts /\ high \in LowParts
        BY <2>2, KeyBounds
      <3>3. At(k, Within(LowsIn(InKeys(A \cap B, r), k), low, high)) = OfKey(T, k)
        BY <1>1, <2>2, CutAt
      <3>4. k \in keys_in(sa) => /\ IsReadable(at_key(sa, k)) /\ at_key(sa, k).key = k
                                  /\ Lows(at_key(sa, k)) = X
        BY DEF Reads
      <3>5. k \in keys_in(sb) => /\ IsReadable(at_key(sb, k)) /\ at_key(sb, k).key = k
                                  /\ Lows(at_key(sb, k)) = Y
        BY DEF Reads
      <3>6. InKeys(A, r) \in SUBSET Nat /\ InKeys(B, r) \in SUBSET Nat
        BY DEF InKeys
      <3>7. LowsIn(InKeys(A \cap B, r), k) = X \cap Y
        <4> DEFINE IA == InKeys(A, r)
                   IB == InKeys(B, r)
                   IU == InKeys(A \cap B, r)
        <4>1. IU = IA \cap IB
          BY DEF InKeys
        <4>2. IA \in SUBSET Nat /\ IB \in SUBSET Nat
          BY <3>6
        <4> HIDE DEF IA, IB, IU
        <4>3. LowsIn(IU, k) = LowsIn(IA, k) \cap LowsIn(IB, k)
          BY <2>2, <4>1, <4>2, LowsCombined
        <4> QED BY <4>3 DEF IA, IB, IU
      <3> DEFINE a == at_key(sa, k)
                 b == at_key(sb, k)
      <3>8. y = and_containers(u, a, b, low, high)
        BY <2>1, <2>4 DEF and_key
      <3>9. IsReadable(a) /\ a.key = k /\ Lows(a) = X /\ IsReadable(b) /\ b.key = k /\ Lows(b) = Y
        BY <1>2, <3>4, <3>5
      <3> HIDE DEF a, b, low, high, X, Y, y
      <3>10. Outcome(and_containers(u, a, b, low, high), u, base, At(a.key, Within(Lows(a) \cap Lows(b), low, high)))
        BY <3>1, <3>2, <3>9, AndIs
      <3> QED BY <3>3, <3>7, <3>8, <3>9, <3>10
    <2> QED BY <2>3, <2>4
  <1> HIDE DEF how, T, K
  <1>3. BuildsAt(how, base, T, K)
    BY <1>2, Zenon DEF BuildsAt
  <1> QED BY <1>3 DEF how, T, K

\* A key of either.
LEMMA MergingBuilds ==
  ASSUME NEW r \in Nat \X Nat, NEW base, NEW A \in SUBSET Nat, NEW B \in SUBSET Nat,
         NEW sa, Reads(sa, InKeys(A, r)),
         NEW sb, Reads(sb, InKeys(B, r))
  PROVE  BuildsAt(Merging(sa, sb, r), base, Cut(A \cup B, r), keys_in(sa) \cup keys_in(sb))
  <1> DEFINE how == Merging(sa, sb, r)
             T == Cut(A \cup B, r)
             K == keys_in(sa) \cup keys_in(sb)
  <1>1. A \cup B \in SUBSET Nat
    OBVIOUS
  <1>2. ASSUME NEW u, NEW k, Working(u, base), u.set.values = << >>, k \in K
        PROVE  /\ u.result = SUCCESS /\ (\A v \in Contents(u.set) : key_of(v) < k) =>
                    Outcome(Turn(how, u, k), u, base, OfKey(T, k))
               /\ u.result # SUCCESS => Turn(how, u, k) = u
    <2> DEFINE y == Turn(how, u, k)
               low == low_bound(k, r)
               high == high_bound(k, r)
               X == LowsIn(InKeys(A, r), k)
               Y == LowsIn(InKeys(B, r), k)
    <2>1. y = or_key(u, sa, sb, r, k)
      BY Turns
    <2>2. k \in Nat
      BY <1>2 DEF Reads
    <2>3. ASSUME u.result # SUCCESS PROVE y = u
      BY <2>1, <2>3 DEF or_key
    <2>4. ASSUME u.result = SUCCESS, \A v \in Contents(u.set) : key_of(v) < k
          PROVE  Outcome(y, u, base, OfKey(T, k))
      <3>1. Ready(u, base, k)
        BY <1>2, <2>2, <2>4 DEF Ready
      <3>2. low \in LowParts /\ high \in LowParts
        BY <2>2, KeyBounds
      <3>3. At(k, Within(LowsIn(InKeys(A \cup B, r), k), low, high)) = OfKey(T, k)
        BY <1>1, <2>2, CutAt
      <3>4. k \in keys_in(sa) => /\ IsReadable(at_key(sa, k)) /\ at_key(sa, k).key = k
                                  /\ Lows(at_key(sa, k)) = X
        BY DEF Reads
      <3>5. k \in keys_in(sb) => /\ IsReadable(at_key(sb, k)) /\ at_key(sb, k).key = k
                                  /\ Lows(at_key(sb, k)) = Y
        BY DEF Reads
      <3>6. InKeys(A, r) \in SUBSET Nat /\ InKeys(B, r) \in SUBSET Nat
        BY DEF InKeys
      <3>7. LowsIn(InKeys(A \cup B, r), k) = X \cup Y
        <4> DEFINE IA == InKeys(A, r)
                   IB == InKeys(B, r)
                   IU == InKeys(A \cup B, r)
        <4>1. IU = IA \cup IB
          BY DEF InKeys
        <4>2. IA \in SUBSET Nat /\ IB \in SUBSET Nat
          BY <3>6
        <4> HIDE DEF IA, IB, IU
        <4>3. LowsIn(IU, k) = LowsIn(IA, k) \cup LowsIn(IB, k)
          BY <2>2, <4>1, <4>2, LowsCombined
        <4> QED BY <4>3 DEF IA, IB, IU
      <3>8. CASE k \notin keys_in(sb)
        <4> DEFINE c == at_key(sa, k)
        <4>1. y = emit_clip(u, c, low, high)
          BY <2>1, <2>4, <3>8 DEF or_key
        <4>2. IsReadable(c) /\ c.key = k /\ Lows(c) = X
          BY <1>2, <3>4, <3>5, <3>8
        <4>3. Y = {}
          BY <3>8 DEF Reads, LowsIn, OfKey
        <4>4. X \cup Y = X
          <5> HIDE DEF X, Y
          <5> QED BY <4>3
        <4> HIDE DEF c, low, high, X, Y, y
        <4>5. Outcome(emit_clip(u, c, low, high), u, base, At(c.key, Within(Lows(c), low, high)))
          BY <3>1, <3>2, <4>2, EmitClipIs
        <4> QED BY <3>3, <3>7, <4>1, <4>2, <4>4, <4>5
      <3>9. CASE k \in keys_in(sb) /\ k \notin keys_in(sa)
        <4> DEFINE c == at_key(sb, k)
        <4>1. y = emit_clip(u, c, low, high)
          BY <2>1, <2>4, <3>9 DEF or_key
        <4>2. IsReadable(c) /\ c.key = k /\ Lows(c) = Y
          BY <1>2, <3>4, <3>5, <3>9
        <4>3. X = {}
          BY <3>9 DEF Reads, LowsIn, OfKey
        <4>4. X \cup Y = Y
          <5> HIDE DEF X, Y
          <5> QED BY <4>3
        <4> HIDE DEF c, low, high, X, Y, y
        <4>5. Outcome(emit_clip(u, c, low, high), u, base, At(c.key, Within(Lows(c), low, high)))
          BY <3>1, <3>2, <4>2, EmitClipIs
        <4> QED BY <3>3, <3>7, <4>1, <4>2, <4>4, <4>5
      <3>10. CASE k \in keys_in(sb) /\ k \in keys_in(sa)
        <4> DEFINE a == at_key(sa, k)
                   b == at_key(sb, k)
        <4>1. y = or_containers(u, a, b, low, high)
          BY <2>1, <2>4, <3>10 DEF or_key
        <4>2. IsReadable(a) /\ a.key = k /\ Lows(a) = X /\ IsReadable(b) /\ b.key = k /\ Lows(b) = Y
          BY <1>2, <3>4, <3>5, <3>10
        <4> HIDE DEF a, b, low, high, X, Y, y
        <4>3. Outcome(or_containers(u, a, b, low, high), u, base, At(a.key, Within(Lows(a) \cup Lows(b), low, high)))
          BY <3>1, <3>2, <4>2, OrIs
        <4> QED BY <3>3, <3>7, <4>1, <4>2, <4>3
      <3> QED BY <3>8, <3>9, <3>10
    <2> QED BY <2>3, <2>4
  <1> HIDE DEF how, T, K
  <1>3. BuildsAt(how, base, T, K)
    BY <1>2, Zenon DEF BuildsAt
  <1> QED BY <1>3 DEF how, T, K

\* A key of the first.
LEMMA ReducingBuilds ==
  ASSUME NEW r \in Nat \X Nat, NEW base, NEW A \in SUBSET Nat, NEW B \in SUBSET Nat,
         NEW sa, Reads(sa, InKeys(A, r)),
         NEW sb, Reads(sb, InKeys(B, r))
  PROVE  BuildsAt(Reducing(sa, sb, r), base, Cut(A \ B, r), keys_in(sa))
  <1> DEFINE how == Reducing(sa, sb, r)
             T == Cut(A \ B, r)
             K == keys_in(sa)
  <1>1. A \ B \in SUBSET Nat
    OBVIOUS
  <1>2. ASSUME NEW u, NEW k, Working(u, base), u.set.values = << >>, k \in K
        PROVE  /\ u.result = SUCCESS /\ (\A v \in Contents(u.set) : key_of(v) < k) =>
                    Outcome(Turn(how, u, k), u, base, OfKey(T, k))
               /\ u.result # SUCCESS => Turn(how, u, k) = u
    <2> DEFINE y == Turn(how, u, k)
               low == low_bound(k, r)
               high == high_bound(k, r)
               X == LowsIn(InKeys(A, r), k)
               Y == LowsIn(InKeys(B, r), k)
    <2>1. y = andnot_key(u, sa, sb, r, k)
      BY Turns
    <2>2. k \in Nat
      BY <1>2 DEF Reads
    <2>3. ASSUME u.result # SUCCESS PROVE y = u
      BY <2>1, <2>3 DEF andnot_key
    <2>4. ASSUME u.result = SUCCESS, \A v \in Contents(u.set) : key_of(v) < k
          PROVE  Outcome(y, u, base, OfKey(T, k))
      <3>1. Ready(u, base, k)
        BY <1>2, <2>2, <2>4 DEF Ready
      <3>2. low \in LowParts /\ high \in LowParts
        BY <2>2, KeyBounds
      <3>3. At(k, Within(LowsIn(InKeys(A \ B, r), k), low, high)) = OfKey(T, k)
        BY <1>1, <2>2, CutAt
      <3>4. k \in keys_in(sa) => /\ IsReadable(at_key(sa, k)) /\ at_key(sa, k).key = k
                                  /\ Lows(at_key(sa, k)) = X
        BY DEF Reads
      <3>5. k \in keys_in(sb) => /\ IsReadable(at_key(sb, k)) /\ at_key(sb, k).key = k
                                  /\ Lows(at_key(sb, k)) = Y
        BY DEF Reads
      <3>6. InKeys(A, r) \in SUBSET Nat /\ InKeys(B, r) \in SUBSET Nat
        BY DEF InKeys
      <3>7. LowsIn(InKeys(A \ B, r), k) = X \ Y
        <4> DEFINE IA == InKeys(A, r)
                   IB == InKeys(B, r)
                   IU == InKeys(A \ B, r)
        <4>1. IU = IA \ IB
          BY DEF InKeys
        <4>2. IA \in SUBSET Nat /\ IB \in SUBSET Nat
          BY <3>6
        <4> HIDE DEF IA, IB, IU
        <4>3. LowsIn(IU, k) = LowsIn(IA, k) \ LowsIn(IB, k)
          BY <2>2, <4>1, <4>2, LowsCombined
        <4> QED BY <4>3 DEF IA, IB, IU
      <3>8. CASE k \notin keys_in(sb)
        <4> DEFINE c == at_key(sa, k)
        <4>1. y = emit_clip(u, c, low, high)
          BY <2>1, <2>4, <3>8 DEF andnot_key
        <4>2. IsReadable(c) /\ c.key = k /\ Lows(c) = X
          BY <1>2, <3>4, <3>5, <3>8
        <4>3. Y = {}
          BY <3>8 DEF Reads, LowsIn, OfKey
        <4>4. X \ Y = X
          <5> HIDE DEF X, Y
          <5> QED BY <4>3
        <4> HIDE DEF c, low, high, X, Y, y
        <4>5. Outcome(emit_clip(u, c, low, high), u, base, At(c.key, Within(Lows(c), low, high)))
          BY <3>1, <3>2, <4>2, EmitClipIs
        <4> QED BY <3>3, <3>7, <4>1, <4>2, <4>4, <4>5
      <3>9. CASE k \in keys_in(sb)
        <4> DEFINE a == at_key(sa, k)
                   b == at_key(sb, k)
        <4>1. y = andnot_containers(u, a, b, low, high)
          BY <2>1, <2>4, <3>9 DEF andnot_key
        <4>2. IsReadable(a) /\ a.key = k /\ Lows(a) = X /\ IsReadable(b) /\ b.key = k /\ Lows(b) = Y
          BY <1>2, <3>4, <3>5, <3>9
        <4> HIDE DEF a, b, low, high, X, Y, y
        <4>3. Outcome(andnot_containers(u, a, b, low, high), u, base, At(a.key, Within(Lows(a) \ Lows(b), low, high)))
          BY <3>1, <3>2, <4>2, AndnotIs
        <4> QED BY <3>3, <3>7, <4>1, <4>2, <4>3
      <3> QED BY <3>8, <3>9
    <2> QED BY <2>3, <2>4
  <1> HIDE DEF how, T, K
  <1>3. BuildsAt(how, base, T, K)
    BY <1>2, Zenon DEF BuildsAt
  <1> QED BY <1>3 DEF how, T, K

\* A key that is copied.
LEMMA CopyingBuilds ==
  ASSUME NEW r \in Nat \X Nat, NEW base, NEW A \in SUBSET Nat,
         NEW sa, Reads(sa, InKeys(A, r))
  PROVE  BuildsAt(Copying(sa, r), base, Cut(A, r), keys_in(sa))
  <1> DEFINE how == Copying(sa, r)
             T == Cut(A, r)
             K == keys_in(sa)
  <1>1. A \in SUBSET Nat
    OBVIOUS
  <1>2. ASSUME NEW u, NEW k, Working(u, base), u.set.values = << >>, k \in K
        PROVE  /\ u.result = SUCCESS /\ (\A v \in Contents(u.set) : key_of(v) < k) =>
                    Outcome(Turn(how, u, k), u, base, OfKey(T, k))
               /\ u.result # SUCCESS => Turn(how, u, k) = u
    <2> DEFINE y == Turn(how, u, k)
               low == low_bound(k, r)
               high == high_bound(k, r)
               X == LowsIn(InKeys(A, r), k)
    <2>1. y = copy_key(u, sa, r, k)
      BY Turns
    <2>2. k \in Nat
      BY <1>2 DEF Reads
    <2>3. ASSUME u.result # SUCCESS PROVE y = u
      BY <2>1, <2>3 DEF copy_key
    <2>4. ASSUME u.result = SUCCESS, \A v \in Contents(u.set) : key_of(v) < k
          PROVE  Outcome(y, u, base, OfKey(T, k))
      <3>1. Ready(u, base, k)
        BY <1>2, <2>2, <2>4 DEF Ready
      <3>2. low \in LowParts /\ high \in LowParts
        BY <2>2, KeyBounds
      <3>3. At(k, Within(LowsIn(InKeys(A, r), k), low, high)) = OfKey(T, k)
        BY <1>1, <2>2, CutAt
      <3>4. k \in keys_in(sa) => /\ IsReadable(at_key(sa, k)) /\ at_key(sa, k).key = k
                                  /\ Lows(at_key(sa, k)) = X
        BY DEF Reads
      <3> DEFINE c == at_key(sa, k)
      <3>8. y = emit_clip(u, c, low, high)
        BY <2>1, <2>4 DEF copy_key
      <3>9. IsReadable(c) /\ c.key = k /\ Lows(c) = X
        BY <1>2, <3>4
      <3> HIDE DEF c, low, high, y
      <3>10. Outcome(emit_clip(u, c, low, high), u, base, At(c.key, Within(Lows(c), low, high)))
        BY <3>1, <3>2, <3>9, EmitClipIs
      <3> QED BY <3>3, <3>8, <3>9, <3>10
    <2> QED BY <2>3, <2>4
  <1> HIDE DEF how, T, K
  <1>3. BuildsAt(how, base, T, K)
    BY <1>2, Zenon DEF BuildsAt
  <1> QED BY <1>3 DEF how, T, K

-----------------------------------------------------------------------------
(* The operations.                                                         *)

\* What a call has made of an empty set: T, or after a refusal nothing.
Finished(t, base, T) ==
  /\ Working(t, base)
  /\ t.result = SUCCESS => Contents(t.set) = T
  /\ t.result # SUCCESS => t.set = Zeroed

\* What was made of an empty set is finished.
LEMMA FinishMade ==
  ASSUME NEW s, NEW base, NEW T, Made(s, base, T)
  PROVE  Finished(finish(s), base, T)
  <1>1. Working(s, base)
    BY DEF Made
  <1> DEFINE t == finish(s)
  <1>2. /\ Working(t, base) /\ (s.result = SUCCESS => t = s)
        /\ (s.result # SUCCESS => t.result = EXHAUSTED /\ t.set = Zeroed)
    BY <1>1, FinishIs
  <1> HIDE DEF t
  <1>3. Finished(t, base, T)
    BY <1>2, ResultsDiffer DEF Made, Finished
  <1> QED BY <1>3 DEF t

\* Both sources met key by key.
LEMMA MetIs ==
  ASSUME NEW s, NEW base, Working(s, base), s.result = SUCCESS, s.set = Zeroed,
         NEW r \in Nat \X Nat, NEW A \in SUBSET Nat, NEW B \in SUBSET Nat,
         NEW sa, Reads(sa, InKeys(A, r)),
         NEW sb, Reads(sb, InKeys(B, r))
  PROVE  Made(Met(sa, sb, r, s, ascending(keys_in(sa) \cap keys_in(sb))), base, Cut(A \cap B, r))
  <1> DEFINE K == keys_in(sa) \cap keys_in(sb)
             T == Cut(A \cap B, r)
             a == ascending(K)
             n == Cardinality(K)
             how == Meeting(sa, sb, r)
             t == Met(sa, sb, r, s, a)
  <1>1. K \in SUBSET Nat /\ IsFiniteSet(K) /\ T \in SUBSET Nat
    <2>1. keys_in(sa) \in SUBSET Nat /\ IsFiniteSet(keys_in(sa))
      BY DEF Reads
    <2>2. keys_in(sb) \in SUBSET Nat /\ IsFiniteSet(keys_in(sb))
      BY DEF Reads
    <2>3. T \in SUBSET Nat
      BY DEF Cut
    <2>4. IsFiniteSet(K)
      BY <2>1, FS_Subset
    <2> HIDE DEF T
    <2> QED BY <2>1, <2>2, <2>3, <2>4
  <1>2. n \in Nat /\ DOMAIN a = 1..n
    <2> HIDE DEF K
    <2>1. a \in Seq(K) /\ Len(a) = n /\ n \in Nat
      BY <1>1, AscendingIs
    <2> HIDE DEF a, n
    <2> QED BY <2>1
  <1>3. ASSUME NEW v \in T PROVE key_of(v) \in K
    <2>1. A \cap B \in SUBSET Nat /\ v \in A \cap B
      BY DEF Cut
    <2>2. v \in InKeys(A \cap B, r)
      BY <2>1, CutKeys
    <2>3. v \in InKeys(A, r) /\ v \in InKeys(B, r)
      BY <2>2 DEF InKeys
    <2> QED BY <2>3 DEF Reads
  <1>4. BuildsAt(how, base, T, K)
    BY MeetingBuilds
  <1> HIDE DEF K, T
  <1>5. PICK H : InTurn(H, how, s, a, n) /\ t = H[n]
    <2> HIDE DEF a, n
    <2>1. \E H : InTurn(H, Meeting(sa, sb, r), s, a, n) /\ Met(sa, sb, r, s, a) = H[n]
      BY <1>2, MetInTurn
    <2> QED BY <2>1
  <1> HIDE DEF how, t
  <1>6. Built(H[n], base, T)
    BY <1>1, <1>3, <1>4, <1>5, KeyFold
  <1>7. Made(t, base, T)
    BY <1>5, <1>6 DEF Built, Made
  <1> QED BY <1>7 DEF t, T, K, a

\* Both sources merged key by key.
LEMMA MergedIs ==
  ASSUME NEW s, NEW base, Working(s, base), s.result = SUCCESS, s.set = Zeroed,
         NEW r \in Nat \X Nat, NEW A \in SUBSET Nat, NEW B \in SUBSET Nat,
         NEW sa, Reads(sa, InKeys(A, r)),
         NEW sb, Reads(sb, InKeys(B, r))
  PROVE  Made(Merged(sa, sb, r, s, ascending(keys_in(sa) \cup keys_in(sb))), base, Cut(A \cup B, r))
  <1> DEFINE K == keys_in(sa) \cup keys_in(sb)
             T == Cut(A \cup B, r)
             a == ascending(K)
             n == Cardinality(K)
             how == Merging(sa, sb, r)
             t == Merged(sa, sb, r, s, a)
  <1>1. K \in SUBSET Nat /\ IsFiniteSet(K) /\ T \in SUBSET Nat
    <2>1. keys_in(sa) \in SUBSET Nat /\ IsFiniteSet(keys_in(sa))
      BY DEF Reads
    <2>2. keys_in(sb) \in SUBSET Nat /\ IsFiniteSet(keys_in(sb))
      BY DEF Reads
    <2>3. T \in SUBSET Nat
      BY DEF Cut
    <2>4. IsFiniteSet(K)
      BY <2>1, <2>2, FS_Union
    <2> HIDE DEF T
    <2> QED BY <2>1, <2>2, <2>3, <2>4
  <1>2. n \in Nat /\ DOMAIN a = 1..n
    <2> HIDE DEF K
    <2>1. a \in Seq(K) /\ Len(a) = n /\ n \in Nat
      BY <1>1, AscendingIs
    <2> HIDE DEF a, n
    <2> QED BY <2>1
  <1>3. ASSUME NEW v \in T PROVE key_of(v) \in K
    <2>1. A \cup B \in SUBSET Nat /\ v \in A \cup B
      BY DEF Cut
    <2>2. v \in InKeys(A \cup B, r)
      BY <2>1, CutKeys
    <2>3. v \in InKeys(A, r) \/ v \in InKeys(B, r)
      BY <2>2 DEF InKeys
    <2> QED BY <2>3 DEF Reads
  <1>4. BuildsAt(how, base, T, K)
    BY MergingBuilds
  <1> HIDE DEF K, T
  <1>5. PICK H : InTurn(H, how, s, a, n) /\ t = H[n]
    <2> HIDE DEF a, n
    <2>1. \E H : InTurn(H, Merging(sa, sb, r), s, a, n) /\ Merged(sa, sb, r, s, a) = H[n]
      BY <1>2, MergedInTurn
    <2> QED BY <2>1
  <1> HIDE DEF how, t
  <1>6. Built(H[n], base, T)
    BY <1>1, <1>3, <1>4, <1>5, KeyFold
  <1>7. Made(t, base, T)
    BY <1>5, <1>6 DEF Built, Made
  <1> QED BY <1>7 DEF t, T, K, a

\* The first source without the second.
LEMMA ReducedIs ==
  ASSUME NEW s, NEW base, Working(s, base), s.result = SUCCESS, s.set = Zeroed,
         NEW r \in Nat \X Nat, NEW A \in SUBSET Nat, NEW B \in SUBSET Nat,
         NEW sa, Reads(sa, InKeys(A, r)),
         NEW sb, Reads(sb, InKeys(B, r))
  PROVE  Made(Reduced(sa, sb, r, s, ascending(keys_in(sa))), base, Cut(A \ B, r))
  <1> DEFINE K == keys_in(sa)
             T == Cut(A \ B, r)
             a == ascending(K)
             n == Cardinality(K)
             how == Reducing(sa, sb, r)
             t == Reduced(sa, sb, r, s, a)
  <1>1. K \in SUBSET Nat /\ IsFiniteSet(K) /\ T \in SUBSET Nat
    <2>1. keys_in(sa) \in SUBSET Nat /\ IsFiniteSet(keys_in(sa))
      BY DEF Reads
    <2>2. keys_in(sb) \in SUBSET Nat /\ IsFiniteSet(keys_in(sb))
      BY DEF Reads
    <2>3. T \in SUBSET Nat
      BY DEF Cut
    <2>4. IsFiniteSet(K)
      BY <2>1
    <2> HIDE DEF T
    <2> QED BY <2>1, <2>2, <2>3, <2>4
  <1>2. n \in Nat /\ DOMAIN a = 1..n
    <2> HIDE DEF K
    <2>1. a \in Seq(K) /\ Len(a) = n /\ n \in Nat
      BY <1>1, AscendingIs
    <2> HIDE DEF a, n
    <2> QED BY <2>1
  <1>3. ASSUME NEW v \in T PROVE key_of(v) \in K
    <2>1. A \ B \in SUBSET Nat /\ v \in A \ B
      BY DEF Cut
    <2>2. v \in InKeys(A \ B, r)
      BY <2>1, CutKeys
    <2>3. v \in InKeys(A, r)
      BY <2>2 DEF InKeys
    <2> QED BY <2>3 DEF Reads
  <1>4. BuildsAt(how, base, T, K)
    BY ReducingBuilds
  <1> HIDE DEF K, T
  <1>5. PICK H : InTurn(H, how, s, a, n) /\ t = H[n]
    <2> HIDE DEF a, n
    <2>1. \E H : InTurn(H, Reducing(sa, sb, r), s, a, n) /\ Reduced(sa, sb, r, s, a) = H[n]
      BY <1>2, ReducedInTurn
    <2> QED BY <2>1
  <1> HIDE DEF how, t
  <1>6. Built(H[n], base, T)
    BY <1>1, <1>3, <1>4, <1>5, KeyFold
  <1>7. Made(t, base, T)
    BY <1>5, <1>6 DEF Built, Made
  <1> QED BY <1>7 DEF t, T, K, a

\* A source copied.
LEMMA CopiedIs ==
  ASSUME NEW s, NEW base, Working(s, base), s.result = SUCCESS, s.set = Zeroed,
         NEW r \in Nat \X Nat, NEW A \in SUBSET Nat,
         NEW sa, Reads(sa, InKeys(A, r))
  PROVE  Made(Copied(sa, r, s, ascending(keys_in(sa))), base, Cut(A, r))
  <1> DEFINE K == keys_in(sa)
             T == Cut(A, r)
             a == ascending(K)
             n == Cardinality(K)
             how == Copying(sa, r)
             t == Copied(sa, r, s, a)
  <1>1. K \in SUBSET Nat /\ IsFiniteSet(K) /\ T \in SUBSET Nat
    <2>1. keys_in(sa) \in SUBSET Nat /\ IsFiniteSet(keys_in(sa))
      BY DEF Reads
    <2>2. TRUE
      OBVIOUS
    <2>3. T \in SUBSET Nat
      BY DEF Cut
    <2>4. IsFiniteSet(K)
      BY <2>1
    <2> HIDE DEF T
    <2> QED BY <2>1, <2>2, <2>3, <2>4
  <1>2. n \in Nat /\ DOMAIN a = 1..n
    <2> HIDE DEF K
    <2>1. a \in Seq(K) /\ Len(a) = n /\ n \in Nat
      BY <1>1, AscendingIs
    <2> HIDE DEF a, n
    <2> QED BY <2>1
  <1>3. ASSUME NEW v \in T PROVE key_of(v) \in K
    <2>1. A \in SUBSET Nat /\ v \in A
      BY DEF Cut
    <2>2. v \in InKeys(A, r)
      BY <2>1, CutKeys
    <2> QED BY <2>2 DEF Reads
  <1>4. BuildsAt(how, base, T, K)
    BY CopyingBuilds
  <1> HIDE DEF K, T
  <1>5. PICK H : InTurn(H, how, s, a, n) /\ t = H[n]
    <2> HIDE DEF a, n
    <2>1. \E H : InTurn(H, Copying(sa, r), s, a, n) /\ Copied(sa, r, s, a) = H[n]
      BY <1>2, CopiedInTurn
    <2> QED BY <2>1
  <1> HIDE DEF how, t
  <1>6. Built(H[n], base, T)
    BY <1>1, <1>3, <1>4, <1>5, KeyFold
  <1>7. Made(t, base, T)
    BY <1>5, <1>6 DEF Built, Made
  <1> QED BY <1>7 DEF t, T, K, a

\* A set is asked for exactly the numbers it holds.
LEMMA ContainsEquals ==
  ASSUME NEW x, IsGood(x), NEW v \in Nat
  PROVE  arnm_roaring_contains(x, v) = (v \in Contents(x))
  <1>1. arnm_roaring_contains(x, v) <=> v \in Contents(x)
    BY ContainsIs
  <1>2. arnm_roaring_contains(x, v) \in BOOLEAN
    BY DEF arnm_roaring_contains
  <1> QED BY <1>1, <1>2

\* The values of a sparse set in the range, those that the other has or those it has not.
LEMMA SparseFilterIs ==
  ASSUME NEW s, NEW base, Working(s, base), s.result = SUCCESS, s.set = Zeroed,
         NEW r \in Nat \X Nat, NEW x, IsGood(x), x.containers = << >>, NEW other, IsGood(other),
         NEW keep \in BOOLEAN
  PROVE  Made(sparse_filter(s, x, other, keep, r), base, Sifted(Cut(Contents(x), r), Contents(other), keep))
  <1> DEFINE q == between(x.values, r[1], r[2])
             P == {i \in DOMAIN q : arnm_roaring_contains(other, q[i]) = keep}
             t == at_places(q, P)
             W == Cut(Contents(x), r)
             C == Contents(other)
  <1>1. Ascends(x.values) /\ Len(x.values) <= SPARSE_MAX /\ Contents(x) = ToSet(x.values)
    BY SparseIs
  <1>2. r[1] \in Nat /\ r[2] \in Nat
    OBVIOUS
  <1>3. Ascends(q) /\ Len(q) <= Len(x.values) /\ ToSet(q) = W
    <2> DEFINE vs == x.values
    <2>1. Ascends(vs)
      BY <1>1
    <2> HIDE DEF vs
    <2>2. /\ Ascends(between(vs, r[1], r[2])) /\ Len(between(vs, r[1], r[2])) <= Len(vs)
          /\ ToSet(between(vs, r[1], r[2])) = {v \in ToSet(vs) : r[1] <= v /\ v <= r[2]}
      BY <1>2, <2>1, BetweenAscends
    <2> QED BY <1>1, <2>2 DEF vs, Cut
  <1> HIDE DEF q, W
  <1>4. q \in Seq(Nat) /\ \A i \in DOMAIN q : q[i] \in Nat
    <2>1. q \in Seq(Nat)
      BY <1>3 DEF Ascends
    <2> QED BY <2>1
  <1>5. P = {i \in DOMAIN q : (q[i] \in C) = keep}
    <2>1. \A i \in DOMAIN q : arnm_roaring_contains(other, q[i]) = (q[i] \in C)
      BY <1>4, ContainsEquals
    <2> HIDE DEF C
    <2> QED BY <2>1
  <1>6. Ascends(t) /\ Len(t) <= Len(q) /\ ToSet(t) = {q[i] : i \in P}
    <2>1. P \in SUBSET DOMAIN q
      OBVIOUS
    <2> HIDE DEF P
    <2> QED BY <1>3, <2>1, SiftedAscends
  <1>7. ToSet(t) = Sifted(W, C, keep)
    <2>1. W = {q[i] : i \in DOMAIN q}
      BY <1>3, Zenon DEF ToSet
    <2> HIDE DEF P, t, C
    <2>2. {q[i] : i \in P} = {v \in W : (v \in C) = keep}
      BY <1>5, <2>1
    <2> QED BY <1>6, <2>2 DEF Sifted
  <1>8. Len(t) <= ARRAY_MAX
    <2>1. Len(t) \in Nat /\ Len(q) \in Nat /\ Len(x.values) \in Nat
      BY <1>1, <1>3, <1>6, AscendsCounts
    <2> HIDE DEF t
    <2> QED BY <1>1, <1>3, <1>6, <2>1, SizesAre
  <1>9. sparse_filter(s, x, other, keep, r) = arnm_roaring_values_result(s, t)
    BY DEF sparse_filter, q
  <1> HIDE DEF t, C
  <1>10. Made(arnm_roaring_values_result(s, t), base, ToSet(t))
    BY <1>6, <1>8, ValuesResultIs
  <1> QED BY <1>7, <1>9, <1>10 DEF W, C

\* What both have, read out of a sparse one or met key by key.
LEMMA AndCallIs ==
  ASSUME NEW s, NEW base, Working(s, base), s.result = SUCCESS, s.set = Zeroed,
         NEW r \in Nat \X Nat, NEW a, IsGood(a), NEW b, IsGood(b)
  PROVE  Finished(arnm_roaring_and(s, a, b, r), base, Cut(Contents(a) \cap Contents(b), r))
  <1> DEFINE A == Contents(a)
             B == Contents(b)
             T == Cut(A \cap B, r)
             sparseA == arnm_roaring_is_sparse(a)
             sparseB == arnm_roaring_is_sparse(b)
             read_a == sparseA /\ (~sparseB \/ a.cardinality <= b.cardinality)
             sa == source(a, r)
             sb == source(b, r)
             t == arnm_roaring_and(s, a, b, r)
  <1>1. /\ A \in SUBSET Nat /\ B \in SUBSET Nat
        /\ Reads(sa, InKeys(A, r)) /\ Reads(sb, InKeys(B, r))
    BY GoodIs, SourceIs DEF IsCounted
  <1>2. CASE (sparseA \/ sparseB) /\ read_a
    <2> DEFINE f == sparse_filter(s, a, b, TRUE, r)
    <2>1. t = finish(f)
      BY <1>2, Zenon DEF arnm_roaring_and
    <2>2. a.containers = << >> /\ TRUE \in BOOLEAN
      BY <1>2 DEF arnm_roaring_is_sparse
    <2>3. Made(f, base, Sifted(Cut(A, r), B, TRUE))
      BY <2>2, SparseFilterIs
    <2>4. Sifted(Cut(A, r), B, TRUE) = T
      BY DEF Sifted, Cut
    <2> HIDE DEF f, T, t
    <2>5. Finished(t, base, T)
      BY <2>1, <2>3, <2>4, FinishMade
    <2> QED BY <2>5 DEF t, T
  <1>3. CASE (sparseA \/ sparseB) /\ ~read_a
    <2> DEFINE f == sparse_filter(s, b, a, TRUE, r)
    <2>1. t = finish(f)
      BY <1>3, Zenon DEF arnm_roaring_and
    <2>2. b.containers = << >> /\ TRUE \in BOOLEAN
      BY <1>3 DEF arnm_roaring_is_sparse
    <2>3. Made(f, base, Sifted(Cut(B, r), A, TRUE))
      BY <2>2, SparseFilterIs
    <2>4. Sifted(Cut(B, r), A, TRUE) = T
      BY DEF Sifted, Cut
    <2> HIDE DEF f, T, t
    <2>5. Finished(t, base, T)
      BY <2>1, <2>3, <2>4, FinishMade
    <2> QED BY <2>5 DEF t, T
  <1>4. CASE ~(sparseA \/ sparseB)
    <2> DEFINE f == Met(sa, sb, r, s, ascending(keys_in(sa) \cap keys_in(sb)))
    <2>1. t = finish(f)
      BY <1>4, Zenon DEF arnm_roaring_and, Met
    <2> HIDE DEF A, B, sa, sb
    <2>2. Made(f, base, T)
      BY <1>1, MetIs
    <2> HIDE DEF f, T, t
    <2>3. Finished(t, base, T)
      BY <2>1, <2>2, FinishMade
    <2> QED BY <2>3 DEF t, T, A, B
  <1> QED BY <1>2, <1>3, <1>4

\* Sparse values of both in order: few enough for one array.
LEMMA MergedValues ==
  ASSUME NEW r \in Nat \X Nat, NEW a, IsGood(a), a.containers = << >>,
         NEW b, IsGood(b), b.containers = << >>,
         NEW q, q = ascending(ToSet(between(a.values, r[1], r[2])) \cup ToSet(between(b.values, r[1], r[2])))
  PROVE  Ascends(q) /\ Len(q) <= ARRAY_MAX /\ ToSet(q) = Cut(Contents(a) \cup Contents(b), r)
  <1> DEFINE xs == between(a.values, r[1], r[2])
             ys == between(b.values, r[1], r[2])
             X == ToSet(xs)
             Y == ToSet(ys)
             U == X \cup Y
  <1>1. /\ Ascends(a.values) /\ Len(a.values) <= SPARSE_MAX /\ Contents(a) = ToSet(a.values)
        /\ Ascends(b.values) /\ Len(b.values) <= SPARSE_MAX /\ Contents(b) = ToSet(b.values)
    BY SparseIs
  <1>2. r[1] \in Nat /\ r[2] \in Nat
    OBVIOUS
  <1>3. \A vs : Ascends(vs) =>
          /\ Ascends(between(vs, r[1], r[2])) /\ Len(between(vs, r[1], r[2])) <= Len(vs)
          /\ ToSet(between(vs, r[1], r[2])) = {v \in ToSet(vs) : r[1] <= v /\ v <= r[2]}
    BY <1>2, BetweenAscends
  <1>4. /\ Ascends(xs) /\ Len(xs) <= Len(a.values) /\ X = Cut(Contents(a), r)
        /\ Ascends(ys) /\ Len(ys) <= Len(b.values) /\ Y = Cut(Contents(b), r)
    BY <1>1, <1>3 DEF Cut
  <1>5. /\ Cardinality(X) = Len(xs) /\ IsFiniteSet(X) /\ Len(xs) \in Nat /\ X \in SUBSET Nat
        /\ Cardinality(Y) = Len(ys) /\ IsFiniteSet(Y) /\ Len(ys) \in Nat /\ Y \in SUBSET Nat
        /\ Len(a.values) \in Nat /\ Len(b.values) \in Nat
    BY <1>1, <1>4, AscendsCounts
  <1>6. X \cap Y \in SUBSET X /\ U \in SUBSET Nat
    BY <1>5
  <1>7. q = ascending(U)
    OBVIOUS
  <1>8. U = Cut(Contents(a) \cup Contents(b), r)
    BY <1>4 DEF Cut
  <1> HIDE DEF X, Y, xs, ys
  <1>9. IsFiniteSet(U) /\ Cardinality(U) = Cardinality(X) + Cardinality(Y) - Cardinality(X \cap Y)
    BY <1>5, FS_Union
  <1>10. Cardinality(X \cap Y) \in Nat
    <2>1. IsFiniteSet(X \cap Y)
      BY <1>5, <1>6, FS_Subset
    <2> QED BY <2>1, FS_CardinalityType
  <1> HIDE DEF U
  <1>11. Ascends(q) /\ Len(q) = Cardinality(U) /\ ToSet(q) = U /\ Cardinality(U) \in Nat
    BY <1>6, <1>7, <1>9, AscendingIs
  <1>12. 2 * SPARSE_MAX <= ARRAY_MAX /\ SPARSE_MAX \in Nat /\ ARRAY_MAX \in Nat
    BY SizesAre
  <1>13. Len(q) <= ARRAY_MAX
    BY <1>1, <1>4, <1>5, <1>9, <1>10, <1>11, <1>12, SMTT(40)
  <1> QED BY <1>8, <1>11, <1>13

\* What either has.
LEMMA OrCallIs ==
  ASSUME NEW s, NEW base, Working(s, base), s.result = SUCCESS, s.set = Zeroed,
         NEW r \in Nat \X Nat, NEW a, IsGood(a), NEW b, IsGood(b)
  PROVE  Finished(arnm_roaring_or(s, a, b, r), base, Cut(Contents(a) \cup Contents(b), r))
  <1> DEFINE A == Contents(a)
             B == Contents(b)
             T == Cut(A \cup B, r)
             sparse == arnm_roaring_is_sparse(a) /\ arnm_roaring_is_sparse(b)
             sa == source(a, r)
             sb == source(b, r)
             t == arnm_roaring_or(s, a, b, r)
  <1>1. /\ A \in SUBSET Nat /\ B \in SUBSET Nat
        /\ Reads(sa, InKeys(A, r)) /\ Reads(sb, InKeys(B, r))
    BY GoodIs, SourceIs DEF IsCounted
  <1>2. CASE sparse
    <2> DEFINE q == ascending(ToSet(between(a.values, r[1], r[2])) \cup ToSet(between(b.values, r[1], r[2])))
               f == arnm_roaring_values_result(s, q)
    <2>1. t = finish(f)
      BY <1>2, Zenon DEF arnm_roaring_or
    <2>2. a.containers = << >> /\ b.containers = << >>
      BY <1>2 DEF arnm_roaring_is_sparse
    <2>3. Ascends(q) /\ Len(q) <= ARRAY_MAX /\ ToSet(q) = T
      BY <2>2, MergedValues
    <2> HIDE DEF q, T, t
    <2>4. Made(f, base, T)
      BY <2>3, ValuesResultIs
    <2> HIDE DEF f
    <2>5. Finished(t, base, T)
      BY <2>1, <2>4, FinishMade
    <2> QED BY <2>5 DEF t, T
  <1>3. CASE ~sparse
    <2> DEFINE f == Merged(sa, sb, r, s, ascending(keys_in(sa) \cup keys_in(sb)))
    <2>1. t = finish(f)
      BY <1>3, Zenon DEF arnm_roaring_or, Merged
    <2> HIDE DEF A, B, sa, sb
    <2>2. Made(f, base, T)
      BY <1>1, MergedIs
    <2> HIDE DEF f, T, t
    <2>3. Finished(t, base, T)
      BY <2>1, <2>2, FinishMade
    <2> QED BY <2>3 DEF t, T, A, B
  <1> QED BY <1>2, <1>3

\* What the first has and the second has not.
LEMMA AndnotCallIs ==
  ASSUME NEW s, NEW base, Working(s, base), s.result = SUCCESS, s.set = Zeroed,
         NEW r \in Nat \X Nat, NEW a, IsGood(a), NEW b, IsGood(b)
  PROVE  Finished(arnm_roaring_andnot(s, a, b, r), base, Cut(Contents(a) \ Contents(b), r))
  <1> DEFINE A == Contents(a)
             B == Contents(b)
             T == Cut(A \ B, r)
             sparse == arnm_roaring_is_sparse(a)
             sa == source(a, r)
             sb == source(b, r)
             t == arnm_roaring_andnot(s, a, b, r)
  <1>1. /\ A \in SUBSET Nat /\ B \in SUBSET Nat
        /\ Reads(sa, InKeys(A, r)) /\ Reads(sb, InKeys(B, r))
    BY GoodIs, SourceIs DEF IsCounted
  <1>2. CASE sparse
    <2> DEFINE f == sparse_filter(s, a, b, FALSE, r)
    <2>1. t = finish(f)
      BY <1>2, Zenon DEF arnm_roaring_andnot
    <2>2. a.containers = << >> /\ FALSE \in BOOLEAN
      BY <1>2 DEF arnm_roaring_is_sparse
    <2>3. Made(f, base, Sifted(Cut(A, r), B, FALSE))
      BY <2>2, SparseFilterIs
    <2>4. Sifted(Cut(A, r), B, FALSE) = T
      BY DEF Sifted, Cut
    <2> HIDE DEF f, T, t
    <2>5. Finished(t, base, T)
      BY <2>1, <2>3, <2>4, FinishMade
    <2> QED BY <2>5 DEF t, T
  <1>3. CASE ~sparse
    <2> DEFINE f == Reduced(sa, sb, r, s, ascending(keys_in(sa)))
    <2>1. t = finish(f)
      BY <1>3, Zenon DEF arnm_roaring_andnot, Reduced
    <2> HIDE DEF A, B, sa, sb
    <2>2. Made(f, base, T)
      BY <1>1, ReducedIs
    <2> HIDE DEF f, T, t
    <2>3. Finished(t, base, T)
      BY <2>1, <2>2, FinishMade
    <2> QED BY <2>3 DEF t, T, A, B
  <1> QED BY <1>2, <1>3

\* What the first has in the range.
LEMMA CopyCallIs ==
  ASSUME NEW s, NEW base, Working(s, base), s.result = SUCCESS, s.set = Zeroed,
         NEW r \in Nat \X Nat, NEW a, IsGood(a)
  PROVE  Finished(arnm_roaring_copy_range(s, a, r), base, Cut(Contents(a), r))
  <1> DEFINE A == Contents(a)
             T == Cut(A, r)
             sparse == arnm_roaring_is_sparse(a)
             sa == source(a, r)
             t == arnm_roaring_copy_range(s, a, r)
  <1>1. A \in SUBSET Nat /\ Reads(sa, InKeys(A, r))
    BY GoodIs, SourceIs DEF IsCounted
  <1>2. CASE sparse
    <2> DEFINE q == between(a.values, r[1], r[2])
               f == arnm_roaring_values_result(s, q)
    <2>1. t = finish(f)
      BY <1>2, Zenon DEF arnm_roaring_copy_range
    <2>2. a.containers = << >>
      BY <1>2 DEF arnm_roaring_is_sparse
    <2>3. Ascends(a.values) /\ Len(a.values) <= SPARSE_MAX /\ A = ToSet(a.values)
      BY <2>2, SparseIs
    <2>4. Ascends(q) /\ Len(q) <= Len(a.values) /\ ToSet(q) = T
      <3> DEFINE vs == a.values
      <3>1. r[1] \in Nat /\ r[2] \in Nat /\ Ascends(vs)
        BY <2>3
      <3> HIDE DEF vs
      <3>2. /\ Ascends(between(vs, r[1], r[2])) /\ Len(between(vs, r[1], r[2])) <= Len(vs)
            /\ ToSet(between(vs, r[1], r[2])) = {v \in ToSet(vs) : r[1] <= v /\ v <= r[2]}
        BY <3>1, BetweenAscends
      <3> QED BY <2>3, <3>2 DEF vs, Cut
    <2>5. Len(q) <= ARRAY_MAX
      <3>1. Len(q) \in Nat /\ Len(a.values) \in Nat
        BY <2>3, <2>4, AscendsCounts
      <3> HIDE DEF q
      <3> QED BY <2>3, <2>4, <3>1, SizesAre
    <2> HIDE DEF q, T, t
    <2>6. Made(f, base, T)
      BY <2>4, <2>5, ValuesResultIs
    <2> HIDE DEF f
    <2>7. Finished(t, base, T)
      BY <2>1, <2>6, FinishMade
    <2> QED BY <2>7 DEF t, T
  <1>3. CASE ~sparse
    <2> DEFINE f == Copied(sa, r, s, ascending(keys_in(sa)))
    <2>1. t = finish(f)
      BY <1>3, Zenon DEF arnm_roaring_copy_range, Copied
    <2> HIDE DEF A, sa
    <2>2. Made(f, base, T)
      BY <1>1, CopiedIs
    <2> HIDE DEF f, T, t
    <2>3. Finished(t, base, T)
      BY <2>1, <2>2, FinishMade
    <2> QED BY <2>3 DEF t, T, A
  <1> QED BY <1>2, <1>3

-----------------------------------------------------------------------------
(* A number added behind the others.                                       *)

\* What came of adding v to a set in good order.
Grown(t, s, base, v) ==
  /\ Working(t, base)
  /\ t.result = SUCCESS => Contents(t.set) = Contents(s.set) \cup {v}
  /\ t.result # SUCCESS => Contents(t.set) = Contents(s.set)

\* Sets that name their blocks alike.
LEMMA NamedAlike ==
  ASSUME NEW x, NEW y, y.containers = x.containers, y.block = x.block,
         y.directory_log2 = x.directory_log2, NEW e
  PROVE  named(y, e) = named(x, e)
  BY Zenon DEF named

\* A refusal is one.
LEMMA RefusedGrown ==
  ASSUME NEW s, NEW base, Working(s, base), NEW v
  PROVE  Grown(refused(s), s, base, v)
  <1>1. /\ refused(s) \in Steps /\ refused(s).result = EXHAUSTED
        /\ refused(s).set = s.set /\ refused(s).pool = s.pool
    BY RefusedIs DEF Working
  <1>2. Working(refused(s), base)
    BY <1>1 DEF Working
  <1> QED BY <1>1, <1>2, ResultsDiffer DEF Grown

\* A sparse set, or an empty one, with a number behind its values.
LEMMA SparseGrown ==
  ASSUME NEW x, IsGood(x), x.containers = << >>, x.cardinality < SPARSE_MAX,
         NEW v \in Nat, \A u \in Contents(x) : u < v,
         NEW y, HasBlock(y), y.containers = << >>, y.values = Append(x.values, v),
         y.cardinality = x.cardinality + 1, y.maximum = v,
         (x.cardinality + 1) * VALUE_SIZE <= Pow(y.directory_log2)
  PROVE  IsGood(y) /\ Contents(y) = Contents(x) \cup {v}
  <1>1. /\ x \in SetRecords /\ IsCounted(x) /\ Contents(x) = ToSet(x.values) /\ Ascends(x.values)
    BY GoodIs
  <1>2. Cardinality(ToSet(x.values)) = Len(x.values) /\ Len(x.values) \in Nat
    BY <1>1, AscendsCounts
  <1>3. x.cardinality = Len(x.values)
    BY <1>1, <1>2 DEF IsCounted
  <1> DEFINE q == Append(x.values, v)
  <1>4. Ascends(q) /\ Len(q) = Len(x.values) + 1 /\ ToSet(q) = ToSet(x.values) \cup {v}
    BY <1>1, AppendAscends
  <1>5. Last(q) = v
    BY <1>1, <1>2, <1>4, AppendProperties DEF Last, Ascends
  <1> HIDE DEF q
  <1>6. y.values = q
    BY DEF q
  <1>7. Len(q) \in 1..SPARSE_MAX
    BY <1>2, <1>3, <1>4, SizesAre
  <1>8. IsSparse(y)
    BY <1>3, <1>4, <1>5, <1>6, <1>7 DEF IsSparse
  <1>9. IsGood(y)
    BY <1>8 DEF IsGood
  <1>10. Contents(y) = ToSet(q)
    BY <1>6, <1>9, GoodIs
  <1> QED BY <1>1, <1>4, <1>9, <1>10

\* A number behind the values of a sparse set (sparse_add), or a refusal.
LEMMA SparseAddIs ==
  ASSUME NEW s, NEW base, Working(s, base), s.result = SUCCESS, s.set.containers = << >>,
         s.set.cardinality < SPARSE_MAX, NEW v \in Nat, \A u \in Contents(s.set) : u < v,
         NEW t, t = sparse_add(s, v)
  PROVE  Grown(t, s, base, v)
  <1> DEFINE n == s.set.cardinality
             r == room_for(s, n, VALUE_SIZE)
  <1>1. /\ s \in Steps /\ s.set \in SetRecords /\ s.pool \in PoolRecords /\ IsGood(s.set)
        /\ Owes(s.pool.lent, s.set, base) /\ n \in Nat
        /\ VALUE_SIZE \in Nat \ {0} /\ VALUE_SIZE <= ENTRY_SIZE
    BY StepParts, Fields, SizesAre DEF Working
  <1>2. s.set.block => HasBlock(s.set) /\ n * VALUE_SIZE <= Pow(s.set.directory_log2)
    <2>1. CASE s.set = Zeroed
      BY <2>1, Fields
    <2>2. CASE IsSparse(s.set)
      BY <2>2 DEF IsSparse
    <2> QED BY <1>1, <2>1, <2>2 DEF IsGood, IsDirectory
  <1>3. ~s.set.block => n = 0
    BY <1>1, GoodIs
  <1>4. \/ r = refused(s)
        \/ \E l \in FIRST_LOG2..LOG2_MAX, p \in PoolRecords :
              /\ IsStep(r, TRUE, s.set.values, s.set.containers, s.set.cardinality, s.set.maximum, l,
                        p, SUCCESS)
              /\ Owes(p.lent, r.set, base) /\ (n + 1) * VALUE_SIZE <= Pow(l)
    <2> HIDE DEF n
    <2> QED BY <1>1, <1>2, <1>3, RoomFor
  <1>5. t = IF r.result # SUCCESS THEN r
            ELSE [r EXCEPT !.set.values = Append(r.set.values, v),
                           !.set.cardinality = r.set.cardinality + 1, !.set.maximum = v]
    BY DEF sparse_add
  <1> HIDE DEF r
  <1>6. CASE r = refused(s)
    <2>1. t = refused(s)
      BY <1>1, <1>5, <1>6, RefusedIs, ResultsDiffer
    <2> QED BY <2>1, RefusedGrown
  <1>7. ASSUME NEW l \in FIRST_LOG2..LOG2_MAX, NEW p \in PoolRecords,
               IsStep(r, TRUE, s.set.values, s.set.containers, s.set.cardinality, s.set.maximum, l,
                      p, SUCCESS),
               Owes(p.lent, r.set, base), (n + 1) * VALUE_SIZE <= Pow(l)
        PROVE  Grown(t, s, base, v)
    <2> DEFINE q == Append(s.set.values, v)
               k == n + 1
    <2>1. /\ r \in Steps /\ r.result = SUCCESS /\ r.set.values = s.set.values /\ r.set.block = TRUE
          /\ r.set.containers = << >> /\ r.set.cardinality = n /\ r.set.directory_log2 = l /\ r.pool = p
      BY <1>7, Zenon DEF IsStep
    <2>2. t = [r EXCEPT !.set.values = q, !.set.cardinality = k, !.set.maximum = v]
      BY <1>5, <2>1
    <2>3. q \in Seq(Nat) /\ k \in Nat
      BY <1>1, Fields, AppendProperties
    <2> HIDE DEF q, k
    <2>4. IsStep([r EXCEPT !.set.values = q, !.set.cardinality = k, !.set.maximum = v],
                 r.set.block, q, r.set.containers, k, v, r.set.directory_log2, r.pool, r.result)
      BY ONLY <2>1, <2>3, v \in Nat, StepValued, Zenon
    <2>5. /\ t \in Steps /\ t.set.block = TRUE /\ t.set.values = q /\ t.set.containers = << >>
          /\ t.set.cardinality = k /\ t.set.maximum = v /\ t.set.directory_log2 = l
          /\ t.pool = p /\ t.result = SUCCESS
      BY <2>1, <2>2, <2>4, Zenon DEF IsStep
    <2>6. HasBlock(t.set)
      BY <2>5, StepParts DEF HasBlock
    <2>7. IsGood(t.set) /\ Contents(t.set) = Contents(s.set) \cup {v}
      BY <1>1, <1>7, <2>5, <2>6, SparseGrown DEF q, k
    <2>8. Owes(t.pool.lent, t.set, base)
      <3>1. \A e : named(t.set, e) = named(r.set, e)
        BY <2>1, <2>5, NamedAlike, ZenonT(90)
      <3> QED BY <1>7, <2>5, <3>1 DEF Owes
    <2>9. Working(t, base)
      BY <2>5, <2>7, <2>8 DEF Working
    <2> QED BY <2>5, <2>7, <2>9 DEF Grown
  <1> QED BY <1>4, <1>6, <1>7

\* The container d is c with low in it as well.
IsWith(d, c, low) ==
  /\ IsFilled(d) /\ d.key = c.key /\ Lows(d) = Lows(c) \cup {low}
  /\ d.cardinality = c.cardinality + 1

\* Another low part put into a container: into its bits, its array, or bits made of that.
LEMMA WithLowIs ==
  ASSUME NEW c, IsStored(c), NEW low \in LowParts, \A l \in Lows(c) : l < low,
         NEW d, d = with_low(c, low)
  PROVE  IsWith(d, c, low)
  <1> DEFINE L == Lows(c)
             n == c.cardinality
             k == n + 1
             bits == L \cup {low}
  <1>1. /\ c \in Containers /\ IsReadable(c) /\ n = Cardinality(L) /\ n \in Nat /\ n > 0
        /\ c.block_log2 \in Nat /\ c.block_log2 <= LOG2_MAX /\ c.key \in Nat /\ c.kind \in Kinds
        /\ L \in SUBSET LowParts /\ c.lows \in LowRecords
    BY Fields, LowsAre DEF IsStored, IsFilled
  <1>2. /\ LowParts \in SUBSET Nat /\ IsFiniteSet(LowParts) /\ low \in Nat
    BY LowPartsAre
  <1>3. IsFiniteSet(L) /\ low \notin L /\ bits \in SUBSET LowParts /\ bits \in SUBSET Nat
    <2>1. IsFiniteSet(L)
      BY <1>1, <1>2, FS_Subset
    <2>2. low \notin L
      BY <1>2
    <2> QED BY <1>1, <1>2, <2>1, <2>2
  <1>4. Cardinality(bits) = k /\ IsFiniteSet(bits)
    BY <1>1, <1>3, FS_AddElement
  <1>5. k \in Nat /\ k > 0 /\ BITMAP \in Kinds /\ bits \in LowRecords /\ ARRAY # BITMAP
    BY <1>1, <1>3 DEF Kinds, LowRecords, ARRAY, BITMAP
  <1>6. CASE c.kind = BITMAP
    <2>1. c.lows = L /\ ARRAY_MAX < n /\ c.block_log2 = BITMAP_LOG2
      BY <1>6 DEF Lows, IsStored, IsFilled
    <2>2. d = [c EXCEPT !.lows = bits, !.cardinality = k]
      BY <1>6, <2>1 DEF with_low
    <2> HIDE DEF bits, k
    <2>3. /\ d \in Containers /\ d.key = c.key /\ d.kind = c.kind /\ d.lows = bits
          /\ d.cardinality = k /\ d.block_log2 = c.block_log2
      BY <1>1, <1>5, <2>2, Zenon DEF Containers
    <2>4. Lows(d) = bits
      BY <1>6, <2>3 DEF Lows
    <2>5. IsReadable(d)
      BY <1>1, <1>3, <1>6, <2>3 DEF IsReadable
    <2>6. ARRAY_MAX < k
      BY <1>1, <2>1, SizesAre DEF k
    <2>7. IsFilled(d)
      BY <1>4, <1>5, <1>6, <2>1, <2>3, <2>4, <2>5, <2>6 DEF IsFilled
    <2> QED BY <2>3, <2>4, <2>7 DEF IsWith, bits, k
  <1>7. CASE c.kind # BITMAP
    <2>1. /\ c.kind = ARRAY /\ Ascends(c.lows) /\ L = ToSet(c.lows) /\ Len(c.lows) <= ARRAY_MAX
          /\ FIRST_LOG2 <= c.block_log2 /\ n * LOW_SIZE <= Pow(c.block_log2)
      BY <1>1, <1>7 DEF Lows, IsStored, IsFilled, IsReadable
    <2>2. n = Len(c.lows)
      BY <1>1, <2>1, AscendsCounts
    <2>3. CASE n = ARRAY_MAX
      <3>1. d = [c EXCEPT !.kind = BITMAP, !.lows = bits, !.cardinality = k, !.block_log2 = BITMAP_LOG2]
        BY <1>7, <2>1, <2>3 DEF with_low, array_to_bitmap
      <3>2. BITMAP_LOG2 \in Nat /\ ARRAY_MAX < k
        BY <1>1, <2>3, SizesAre
      <3> HIDE DEF bits, k
      <3>3. /\ d \in Containers /\ d.key = c.key /\ d.kind = BITMAP /\ d.lows = bits
            /\ d.cardinality = k /\ d.block_log2 = BITMAP_LOG2
        BY <1>1, <1>5, <3>1, <3>2, Zenon DEF Containers
      <3>4. Lows(d) = bits
        BY <3>3 DEF Lows
      <3>5. IsReadable(d)
        BY <1>1, <1>3, <3>3 DEF IsReadable
      <3>6. IsFilled(d)
        BY <1>4, <1>5, <3>2, <3>3, <3>4, <3>5 DEF IsFilled
      <3> QED BY <3>3, <3>4, <3>6 DEF IsWith, bits, k
    <2>4. CASE n # ARRAY_MAX
      <3> DEFINE e == c.block_log2
                 f == IF n = 2^e \div LOW_SIZE THEN e + 1 ELSE e
                 q == Append(c.lows, low)
      <3>1. d = [c EXCEPT !.lows = q, !.cardinality = k, !.block_log2 = f]
        BY <1>7, <2>4 DEF with_low, append_low
      <3>2. e \in FIRST_LOG2..LOG2_MAX /\ LOW_SIZE \in Nat \ {0} /\ LOW_SIZE <= ENTRY_SIZE
        BY <1>1, <2>1, SizesAre
      <3>3. f \in Nat /\ k * LOW_SIZE <= Pow(f) /\ FIRST_LOG2 <= f
        <4>1. CASE n = 2^e \div LOW_SIZE
          <5>1. e + 1 \in Nat /\ (n + 1) * LOW_SIZE <= Pow(e + 1)
            BY <1>1, <2>1, <3>2, RoomGrows
          <5> QED BY <1>1, <2>1, <4>1, <5>1, SizesAre, SMTT(40)
        <4>2. CASE n # 2^e \div LOW_SIZE
          <5>1. (n + 1) * LOW_SIZE <= Pow(e)
            BY <1>1, <2>1, <3>2, <4>2, RoomGrows
          <5> QED BY <1>1, <2>1, <4>2, <5>1
        <4> QED BY <4>1, <4>2
      <3>4. /\ Ascends(q) /\ Len(q) = Len(c.lows) + 1 /\ ToSet(q) = bits
        BY <1>2, <2>1, AppendAscends
      <3>5. q \in LowRecords /\ Len(q) <= ARRAY_MAX
        <4>1. q \in Seq(Nat)
          BY <3>4 DEF Ascends
        <4>2. Len(q) <= ARRAY_MAX
          BY <1>1, <2>1, <2>2, <2>4, <3>4, SizesAre
        <4> QED BY <4>1, <4>2 DEF LowRecords
      <3> HIDE DEF q, f, k, bits, e
      <3>6. /\ d \in Containers /\ d.key = c.key /\ d.kind = c.kind /\ d.lows = q
            /\ d.cardinality = k /\ d.block_log2 = f
        BY <1>1, <1>5, <3>1, <3>3, <3>5, Zenon DEF Containers
      <3>7. Lows(d) = bits
        BY <1>5, <2>1, <3>4, <3>6 DEF Lows
      <3>8. IsReadable(d)
        BY <1>1, <1>3, <2>1, <3>4, <3>5, <3>6 DEF IsReadable
      <3>9. IsFilled(d)
        BY <1>4, <1>5, <2>1, <3>3, <3>6, <3>7, <3>8 DEF IsFilled
      <3> QED BY <3>6, <3>7, <3>9 DEF IsWith, bits, k
    <2> QED BY <2>3, <2>4
  <1> QED BY <1>6, <1>7

\* What is added to the last container is above its low parts.
LEMMA LastLows ==
  ASSUME NEW x, IsDirectory(x), NEW i \in 1..Len(x.containers), NEW v \in Nat,
         \A u \in Contents(x) : u < v, key_of(v) = x.containers[i].key
  PROVE  \A l \in Lows(x.containers[i]) : l < low_of(v)
  <1> DEFINE c == x.containers[i]
  <1>1. /\ IsGood(x) /\ x \in SetRecords /\ IsReadable(c)
        /\ \A j \in 1..Len(x.containers) : IsReadable(x.containers[j])
    BY GoodIs DEF IsGood
  <1>2. c.key \in Nat /\ Lows(c) \in SUBSET LowParts
    BY <1>1, LowsAre
  <1>3. ASSUME NEW l \in Lows(c) PROVE l < low_of(v)
    <2> DEFINE u == value_of(c.key, l)
    <2>1. l \in LowParts /\ l \in Nat /\ low_of(v) \in LowParts /\ low_of(v) \in Nat
      BY <1>2, <1>3, LowPartsAre, KeysAndLows
    <2>2. u \in Nat /\ key_of(u) = c.key /\ low_of(u) = l
      BY <1>2, <2>1, KeysAndLows
    <2> HIDE DEF u
    <2>3. u \in At(c.key, Lows(c))
      BY <1>2, <1>3, <2>2, AtIs
    <2>4. u \in Contents(x)
      BY <1>1, <2>3, ContentsAre
    <2>5. u < v /\ ~(v <= u)
      BY <2>2, <2>4
    <2>6. ~(low_of(v) <= low_of(u))
      BY <2>2, <2>5, KeyOrder
    <2> QED BY <2>1, <2>2, <2>6
  <1> QED BY <1>3

\* A directory with a number more in its last container.
LEMMA LastGrown ==
  ASSUME NEW x, IsDirectory(x), NEW n, n = Len(x.containers), NEW c, c = x.containers[n],
         NEW v \in Nat, \A u \in Contents(x) : u < v, key_of(v) = c.key,
         NEW d, IsWith(d, c, low_of(v)), d.block_log2 <= LOG2_MAX,
         NEW y, HasBlock(y), y.values = << >>, y.containers = [x.containers EXCEPT ![n] = d],
         y.directory_log2 = x.directory_log2, y.cardinality = x.cardinality + 1, y.maximum = v
  PROVE  IsDirectory(y) /\ Contents(y) = Contents(x) \cup {v}
  <1> DEFINE cs == x.containers
             ds == y.containers
             S == Contents(x)
             L == Lows(c)
             low == low_of(v)
  <1>1. /\ IsGood(x) /\ x \in SetRecords /\ IsCounted(x) /\ x.values = << >> /\ cs # << >>
        /\ \A i \in 1..n : IsReadable(cs[i]) /\ IsStored(cs[i])
    BY GoodIs DEF IsDirectory, IsGood
  <1>2. cs \in Seq(Containers) /\ n \in Nat /\ n \in 1..n
    <2>1. cs \in Seq(Containers)
      BY <1>1, Fields
    <2> QED BY <1>1, <2>1
  <1>3. IsReadable(c) /\ IsFilled(d) /\ IsReadable(d) /\ d \in Containers /\ d.key = c.key
        /\ Lows(d) = L \cup {low}
    BY <1>1, <1>2 DEF IsWith, IsFilled
  <1>4. c.key \in Nat /\ L \in SUBSET LowParts /\ low \in LowParts /\ L \cup {low} \in SUBSET LowParts
    BY <1>3, LowsAre, KeysAndLows
  <1>5. /\ Len(ds) = n /\ ds # << >> /\ ds[n] = d
        /\ \A i \in 1..n : i # n => ds[i] = cs[i]
    BY <1>1, <1>2, <1>3
  <1>6. \A i \in 1..n : ds[i].key = cs[i].key
    BY <1>3, <1>5
  <1>7. y \in SetRecords
    BY DEF HasBlock
  <1> HIDE DEF cs, ds, S, L, low
  <1>8. IsStored(d)
    BY <1>3 DEF IsStored
  <1>9. \A i \in 1..Len(ds) : IsStored(ds[i]) /\ IsReadable(ds[i])
    BY <1>1, <1>3, <1>5, <1>8
  <1>10. \A i, j \in 1..Len(ds) : i < j => ds[i].key < ds[j].key
    <2>1. \A i, j \in 1..n : i < j => cs[i].key < cs[j].key
      BY DEF IsDirectory, cs
    <2> QED BY <1>5, <1>6, <2>1
  <1>11. Contents(y) = S \cup {v}
    <2>1. ToSet(<< >>) = {}
      BY DEF ToSet
    <2>2. \A u : u \in Contents(y) <=> \E i \in 1..n : u \in At(ds[i].key, Lows(ds[i]))
      <3>1. \A u : u \in Contents(y) <=>
              u \in ToSet(y.values) \/ \E i \in 1..Len(y.containers) : u \in At(y.containers[i].key, Lows(y.containers[i]))
        BY <1>7, <1>9, ContentsAre DEF ds
      <3> QED BY <1>5, <2>1, <3>1 DEF ds
    <2>3. \A u : u \in S <=> \E i \in 1..n : u \in At(cs[i].key, Lows(cs[i]))
      <3>1. \A u : u \in Contents(x) <=>
              u \in ToSet(x.values) \/ \E i \in 1..Len(x.containers) : u \in At(x.containers[i].key, Lows(x.containers[i]))
        BY <1>1, ContentsAre DEF cs
      <3> QED BY <1>1, <2>1, <3>1 DEF cs, S
    <2>4. ASSUME NEW u PROVE u \in At(d.key, Lows(d)) <=> u \in At(c.key, L) \/ u = v
      <3>1. u \in At(d.key, Lows(d)) <=> u \in Nat /\ key_of(u) = c.key /\ low_of(u) \in L \cup {low}
        <4> DEFINE B == Lows(d)
        <4>1. B \in SUBSET LowParts /\ d.key \in Nat
          BY <1>3, <1>4
        <4> HIDE DEF B
        <4>2. u \in At(d.key, B) <=> u \in Nat /\ key_of(u) = d.key /\ low_of(u) \in B
          BY <4>1, AtIs
        <4> QED BY <1>3, <4>2 DEF B
      <3>2. u \in At(c.key, L) <=> u \in Nat /\ key_of(u) = c.key /\ low_of(u) \in L
        BY <1>4, AtIs
      <3>3. u \in Nat /\ key_of(u) = c.key /\ low_of(u) = low => u = v
        <4>1. SUFFICES ASSUME u \in Nat, key_of(u) = c.key, low_of(u) = low PROVE u = v
          OBVIOUS
        <4>2. u = value_of(c.key, low) /\ v = value_of(c.key, low)
          BY <4>1, KeysAndLows DEF low
        <4> QED BY <4>2
      <3> QED BY <3>1, <3>2, <3>3 DEF low
    <2>5. ASSUME NEW u PROVE u \in Contents(y) <=> u \in S \cup {v}
      <3>1. \A i \in 1..n : i # n => (u \in At(ds[i].key, Lows(ds[i])) <=> u \in At(cs[i].key, Lows(cs[i])))
        BY <1>5
      <3>2. u \in At(ds[n].key, Lows(ds[n])) <=> u \in At(cs[n].key, Lows(cs[n])) \/ u = v
        BY <1>5, <2>4 DEF cs, L
      <3> QED BY <1>2, <2>2, <2>3, <3>1, <3>2
    <2> QED BY <2>5
  <1>12. S \in SUBSET Nat /\ IsFiniteSet(S) /\ x.cardinality = Cardinality(S) /\ v \notin S
    BY <1>1 DEF IsCounted, S
  <1>13. IsCounted(y)
    <2>1. IsFiniteSet(S \cup {v}) /\ Cardinality(S \cup {v}) = Cardinality(S) + 1
      BY <1>12, FS_AddElement
    <2>2. \A u \in S \cup {v} : u <= v
      BY <1>12 DEF S
    <2> QED BY <1>11, <1>12, <2>1, <2>2 DEF IsCounted
  <1>14. Len(ds) * ENTRY_SIZE <= Pow(y.directory_log2)
    BY <1>5 DEF IsDirectory
  <1>15. IsDirectory(y)
    BY <1>5, <1>9, <1>10, <1>13, <1>14 DEF IsDirectory, ds
  <1> QED BY <1>11, <1>15 DEF S

\* The last container exchanged: its block, and the blocks that are named.
LEMMA NamedExchanged ==
  ASSUME NEW x \in SetRecords, NEW y \in SetRecords, NEW n \in Nat \ {0}, n = Len(x.containers),
         NEW d, y.containers = [x.containers EXCEPT ![n] = d], y.block = x.block,
         y.directory_log2 = x.directory_log2, NEW e
  PROVE  /\ named(y, e) = named(x, e) - Mark(x.containers[n].block_log2, e) + Mark(d.block_log2, e)
         /\ named(x, e) \in Nat
  <1> DEFINE cs == x.containers
             ds == y.containers
             m == n - 1
  <1>1. cs \in Seq(Containers) /\ m \in Nat /\ m + 1 = n
    BY Fields
  <1>2. Len(ds) = n /\ ds[n] = d /\ \A i \in 1..m : ds[i] = cs[i]
    BY <1>1
  <1>3. /\ named(x, e) = InBlocks(cs, n, e) + OwnBlock(x, e) /\ OwnBlock(x, e) \in Nat
        /\ named(y, e) = InBlocks(ds, n, e) + OwnBlock(y, e) /\ named(x, e) \in Nat
    BY <1>2, NamedIs
  <1> HIDE DEF cs, ds, m
  <1>4. /\ InBlocks(cs, n, e) = InBlocks(cs, m, e) + Mark(cs[n].block_log2, e)
        /\ InBlocks(ds, n, e) = InBlocks(ds, m, e) + Mark(ds[n].block_log2, e)
        /\ InBlocks(cs, m, e) \in Nat
    <2>1. m \in Nat
      BY <1>1
    <2>2. /\ InBlocks(cs, m + 1, e) = InBlocks(cs, m, e) + Mark(cs[m + 1].block_log2, e)
          /\ InBlocks(cs, m, e) \in Nat
      BY ONLY <2>1, InBlocksStep, Zenon
    <2>3. InBlocks(ds, m + 1, e) = InBlocks(ds, m, e) + Mark(ds[m + 1].block_log2, e)
      BY ONLY <2>1, InBlocksStep, Zenon
    <2> QED BY <1>1, <2>2, <2>3
  <1>5. InBlocks(cs, m, e) = InBlocks(ds, m, e)
    BY <1>2, InBlocksSame
  <1>6. OwnBlock(y, e) = OwnBlock(x, e)
    BY DEF OwnBlock
  <1>7. Mark(cs[n].block_log2, e) \in Int /\ Mark(d.block_log2, e) \in Int
    BY DEF Mark
  <1>8. named(y, e) = named(x, e) - Mark(cs[n].block_log2, e) + Mark(d.block_log2, e)
    BY <1>2, <1>3, <1>4, <1>5, <1>6, <1>7
  <1> QED BY <1>3, <1>8 DEF cs

\* The last container grows in its block or moves to another; or a refusal.
LEMMA AddToLastIs ==
  ASSUME NEW s, NEW base, Working(s, base), s.result = SUCCESS, IsDirectory(s.set),
         NEW n, n = Len(s.set.containers), NEW c, c = s.set.containers[n],
         NEW v \in Nat, \A u \in Contents(s.set) : u < v, key_of(v) = c.key,
         NEW t, t = add_to_last(s, low_of(v))
  PROVE  \/ t = refused(s)
         \/ \E d \in Containers, p \in PoolRecords :
              /\ IsStep(t, TRUE, << >>, [s.set.containers EXCEPT ![n] = d], s.set.cardinality,
                        s.set.maximum, s.set.directory_log2, p, SUCCESS)
              /\ IsWith(d, c, low_of(v)) /\ d.block_log2 <= LOG2_MAX
              /\ Owes(p.lent, t.set, base)
  <1> DEFINE cs == s.set.containers
             low == low_of(v)
             d == with_low(c, low)
             dl == d.block_log2
             cl == c.block_log2
             sp == s.pool
             moves == dl # cl \/ d.kind # c.kind
             tp == take(sp, dl)
             p == IF moves THEN give(tp, cl) ELSE sp
  <1>1. /\ s \in Steps /\ s.set \in SetRecords /\ sp \in PoolRecords /\ cs \in Seq(Containers)
        /\ Owes(sp.lent, s.set, base) /\ cs # << >>
        /\ s.set.values = << >> /\ s.set.block = TRUE
    <2>1. s \in Steps /\ s.set \in SetRecords /\ sp \in PoolRecords /\ Owes(sp.lent, s.set, base)
      BY StepParts DEF Working
    <2>2. cs \in Seq(Containers) /\ s.set.block \in BOOLEAN
      BY <2>1, Fields
    <2> QED BY <2>1, <2>2 DEF IsDirectory, HasBlock
  <1>2. n \in Nat \ {0} /\ n \in 1..Len(cs)
    BY <1>1
  <1>3. IsStored(c) /\ \A l \in Lows(c) : l < low
    BY <1>2, LastLows DEF IsDirectory
  <1>4. IsWith(d, c, low)
    <2>1. low \in LowParts
      BY KeysAndLows
    <2> HIDE DEF d, low
    <2> QED BY <1>3, <2>1, WithLowIs DEF d
  <1>5. /\ d \in Containers /\ c \in Containers /\ cl \in 0..LOG2_MAX /\ dl \in Nat
    <2> HIDE DEF d
    <2>1. d \in Containers /\ c \in Containers /\ cl <= LOG2_MAX
      BY <1>3, <1>4 DEF IsWith, IsStored, IsFilled
    <2>2. cl \in Nat /\ dl \in Nat
      BY <2>1, Fields
    <2>3. LOG2_MAX \in Nat
      BY SizesAre
    <2> HIDE DEF cl, dl
    <2> QED BY <2>1, <2>2, <2>3
  <1>6. t = IF moves /\ ~grants(sp, dl) THEN refused(s)
            ELSE [s EXCEPT !.set.containers[n] = d, !.pool = p]
    BY DEF add_to_last
  <1>7. CASE moves /\ ~grants(sp, dl)
    BY <1>6, <1>7
  <1>8. CASE ~(moves /\ ~grants(sp, dl))
    <2>1. dl \in 0..LOG2_MAX /\ dl <= LOG2_MAX
      <3>1. dl <= LOG2_MAX
        <4>1. CASE moves
          <5>1. grants(sp, dl)
            BY <1>8, <4>1
          <5> HIDE DEF dl, sp
          <5> QED BY <5>1 DEF grants
        <4>2. CASE ~moves
          <5>1. dl = cl
            BY <4>2
          <5> HIDE DEF dl, cl, d
          <5> QED BY <1>5, <5>1
        <4> QED BY <4>1, <4>2
      <3> HIDE DEF dl
      <3> QED BY <1>5, <3>1
    <2>2. p \in PoolRecords /\ \A e \in 0..LOG2_MAX : p.lent[e] = sp.lent[e] + Mark(dl, e) - Mark(cl, e)
      <3> HIDE DEF sp, dl, cl, d, moves, tp
      <3>1. CASE moves
        <4>1. tp \in PoolRecords /\ \A e \in 0..LOG2_MAX : tp.lent[e] = sp.lent[e] + Mark(dl, e)
          BY <1>1, <2>1, TakeGive DEF tp
        <4>2. give(tp, cl) \in PoolRecords
              /\ \A e \in 0..LOG2_MAX : give(tp, cl).lent[e] = tp.lent[e] - Mark(cl, e)
          BY <1>5, <4>1, TakeGive
        <4>3. p = give(tp, cl)
          BY <3>1
        <4> HIDE DEF p
        <4>4. ASSUME NEW e \in 0..LOG2_MAX PROVE p.lent[e] = sp.lent[e] + Mark(dl, e) - Mark(cl, e)
          <5>1. tp.lent[e] = sp.lent[e] + Mark(dl, e) /\ p.lent[e] = tp.lent[e] - Mark(cl, e)
            BY <4>1, <4>2, <4>3
          <5>2. sp.lent[e] \in Int /\ Mark(dl, e) \in {0, 1} /\ Mark(cl, e) \in {0, 1}
            BY <1>1, LentCounts
          <5> QED BY <5>1, <5>2
        <4>5. p \in PoolRecords
          BY <4>2, <4>3
        <4> QED BY <4>4, <4>5
      <3>2. CASE ~moves
        <4>1. dl = cl
          BY <3>2 DEF moves
        <4>2. \A e \in 0..LOG2_MAX : sp.lent[e] = sp.lent[e] + Mark(dl, e) - Mark(cl, e)
          <5>1. \A e \in 0..LOG2_MAX : sp.lent[e] \in Int /\ Mark(cl, e) \in {0, 1}
            BY <1>1, LentCounts
          <5> QED BY <4>1, <5>1
        <4> QED BY <1>1, <3>2, <4>2
      <3> QED BY <3>1, <3>2
    <2> DEFINE ds == [cs EXCEPT ![n] = d]
    <2>3. ds \in Seq(Containers)
      BY <1>1, <1>2, <1>5
    <2>4. IsStep(t, TRUE, << >>, ds, s.set.cardinality, s.set.maximum, s.set.directory_log2, p, SUCCESS)
      <3>1. t = [s EXCEPT !.set.containers[n] = d, !.pool = p]
        BY <1>6, <1>8
      <3> HIDE DEF d, p
      <3>2. [s.set.containers EXCEPT ![n] = d] \in Seq(Containers) /\ s \in Steps /\ p \in PoolRecords
        BY <1>1, <2>2, <2>3
      <3>3. IsStep([s EXCEPT !.set.containers[n] = d, !.pool = p], s.set.block, s.set.values,
                   [s.set.containers EXCEPT ![n] = d], s.set.cardinality, s.set.maximum,
                   s.set.directory_log2, p, s.result)
        BY ONLY <3>2, StepExchanged, Zenon
      <3> QED BY <1>1, <3>1, <3>3, Zenon
    <2>5. Owes(p.lent, t.set, base)
      <3>1. /\ t.set \in SetRecords /\ t.set.containers = ds /\ t.set.block = s.set.block
            /\ t.set.directory_log2 = s.set.directory_log2
        <4>1. t \in Steps /\ t.set.containers = ds /\ t.set.block = TRUE
              /\ t.set.directory_log2 = s.set.directory_log2
          BY <2>4, Zenon DEF IsStep
        <4> QED BY <1>1, <4>1, StepParts
      <3>2. ASSUME NEW e \in 0..LOG2_MAX PROVE p.lent[e] = base[e] + named(t.set, e)
        <4>1. /\ named(t.set, e) = named(s.set, e) - Mark(cl, e) + Mark(dl, e)
              /\ named(s.set, e) \in Nat
          <5> DEFINE x == s.set
                     y == t.set
          <5>1. /\ x \in SetRecords /\ y \in SetRecords /\ n = Len(x.containers)
                /\ y.containers = [x.containers EXCEPT ![n] = d] /\ y.block = x.block
                /\ y.directory_log2 = x.directory_log2 /\ cl = x.containers[n].block_log2
            BY <1>1, <3>1
          <5> HIDE DEF d, x, y
          <5>2. /\ named(y, e) = named(x, e) - Mark(x.containers[n].block_log2, e) + Mark(d.block_log2, e)
                /\ named(x, e) \in Nat
            BY <1>2, <5>1, NamedExchanged
          <5> QED BY <5>1, <5>2 DEF x, y
        <4>2. sp.lent[e] = base[e] + named(s.set, e) /\ base[e] \in Int
          BY <1>1 DEF Owes
        <4>3. p.lent[e] = sp.lent[e] + Mark(dl, e) - Mark(cl, e)
          BY <2>2
        <4>4. Mark(dl, e) \in Int /\ Mark(cl, e) \in Int
          BY DEF Mark
        <4> HIDE DEF sp, dl, cl, p
        <4> QED BY <4>1, <4>2, <4>3, <4>4
      <3>3. p.lent \in [0..LOG2_MAX -> Int] /\ base \in [0..LOG2_MAX -> Int]
        BY <1>1, <2>2, Fields DEF Owes
      <3> HIDE DEF p
      <3> QED BY <3>2, <3>3 DEF Owes
    <2>6. d.block_log2 <= LOG2_MAX
      BY <2>1
    <2> HIDE DEF d, p
    <2> QED BY <1>4, <1>5, <2>2, <2>4, <2>5, <2>6
  <1> QED BY <1>7, <1>8

\* The container made for the first number of a key.
LEMMA FirstContainer ==
  ASSUME NEW v \in Nat, NEW c, c = Container(key_of(v), ARRAY, <<low_of(v)>>, 1, FIRST_LOG2)
  PROVE  /\ IsFilled(c) /\ c.key = key_of(v) /\ c.cardinality = 1 /\ c.block_log2 = FIRST_LOG2
         /\ Lows(c) = {low_of(v)} /\ At(c.key, Lows(c)) = {v}
  <1> DEFINE low == low_of(v)
             key == key_of(v)
             q == <<low>>
  <1>1. low \in LowParts /\ low \in Nat /\ key \in Nat /\ v = value_of(key, low)
    BY LowPartsAre, KeysAndLows
  <1>2. /\ ARRAY \in Kinds /\ FIRST_LOG2 \in Nat /\ ARRAY_MAX >= 1 /\ ARRAY_MAX \in Nat
        /\ 1 * LOW_SIZE <= Pow(FIRST_LOG2)
    BY SizesAre DEF Kinds
  <1> HIDE DEF low, key
  <1>3. q \in Seq(Nat) /\ Len(q) = 1 /\ q[1] = low
    BY <1>1
  <1>4. Ascends(q) /\ ToSet(q) = {low} /\ q \in LowRecords
    BY <1>3 DEF Ascends, ToSet, LowRecords
  <1> HIDE DEF q
  <1>5. /\ c \in Containers /\ c.key = key /\ c.kind = ARRAY /\ c.lows = q
        /\ c.cardinality = 1 /\ c.block_log2 = FIRST_LOG2
    <2>1. c = Container(key, ARRAY, q, 1, FIRST_LOG2) /\ 1 \in Nat
      BY DEF key, low, q
    <2> QED BY ONLY <1>1, <1>2, <1>4, <2>1, ContainerIs
  <1>6. Lows(c) = {low}
    BY <1>4, <1>5, KindsDiffer DEF Lows
  <1>7. IsReadable(c)
    BY <1>1, <1>2, <1>3, <1>4, <1>5 DEF IsReadable
  <1>8. Cardinality({low}) = 1
    BY FS_Singleton
  <1>9. IsFilled(c)
    <2>1. c.cardinality = Cardinality(Lows(c)) /\ c.cardinality > 0
      BY <1>5, <1>6, <1>8
    <2>2. FIRST_LOG2 <= c.block_log2 /\ c.cardinality * LOW_SIZE <= Pow(c.block_log2)
      BY <1>2, <1>5
    <2>3. c.kind # BITMAP
      BY <1>5, KindsDiffer
    <2> QED BY <1>5, <1>7, <2>1, <2>2, <2>3 DEF IsFilled
  <1>10. At(c.key, Lows(c)) = {v}
    BY <1>1, <1>5, <1>6 DEF At
  <1> QED BY <1>5, <1>6, <1>9, <1>10 DEF key, low

\* The step p with the count and the maximum of a number more than s.
IsOneMore(t, p, s, base, v) ==
  /\ t \in Steps /\ t.result = SUCCESS /\ t.set \in SetRecords
  /\ t.set.block = p.set.block /\ t.set.values = p.set.values
  /\ t.set.containers = p.set.containers /\ t.set.directory_log2 = p.set.directory_log2
  /\ t.set.cardinality = s.set.cardinality + 1 /\ t.set.maximum = v
  /\ IsDirectory(t.set) /\ Contents(t.set) = Contents(s.set) \cup {v} => Grown(t, s, base, v)

\* It holds a number more, when its containers do.
LEMMA CountedGrown ==
  ASSUME NEW s, NEW base, Working(s, base), s.result = SUCCESS, NEW v \in Nat,
         NEW p \in Steps, p.result = SUCCESS, Owes(p.pool.lent, p.set, base),
         p.set.cardinality = s.set.cardinality,
         NEW k \in Nat, k = s.set.cardinality + 1,
         NEW t, t = [p EXCEPT !.set.cardinality = k, !.set.maximum = v]
  PROVE  IsOneMore(t, p, s, base, v)
  <1>4. IsStep([p EXCEPT !.set.cardinality = k, !.set.maximum = v], p.set.block, p.set.values,
               p.set.containers, k, v, p.set.directory_log2, p.pool, p.result)
    BY StepCounted, Zenon
  <1>5. /\ t \in Steps /\ t.set.block = p.set.block /\ t.set.values = p.set.values
        /\ t.set.containers = p.set.containers /\ t.set.cardinality = k /\ t.set.maximum = v
        /\ t.set.directory_log2 = p.set.directory_log2 /\ t.pool = p.pool /\ t.result = SUCCESS
    BY <1>4, Zenon DEF IsStep
  <1>6. \A e : named(t.set, e) = named(p.set, e)
    BY <1>5, NamedAlike
  <1>7. Owes(t.pool.lent, t.set, base)
    BY <1>5, <1>6 DEF Owes
  <1>8. t.set \in SetRecords
    BY <1>5, StepParts
  <1>9. ASSUME IsDirectory(t.set), Contents(t.set) = Contents(s.set) \cup {v}
        PROVE  Grown(t, s, base, v)
    <2>1. Working(t, base)
      BY <1>5, <1>7, <1>9 DEF Working, IsGood
    <2> QED BY <1>5, <1>9, <2>1 DEF Grown
  <1>10. t.set.cardinality = s.set.cardinality + 1
    BY <1>5, Zenon
  <1> QED BY <1>5, <1>8, <1>9, <1>10 DEF IsOneMore

\* A number put into a directory: into its last container, or one of its own.
LEMMA AddInContainersIs ==
  ASSUME NEW s, NEW base, Working(s, base), s.result = SUCCESS, IsDirectory(s.set),
         NEW v \in Nat, \A u \in Contents(s.set) : u < v,
         NEW t, t = add_in_containers(s, v)
  PROVE  Grown(t, s, base, v)
  <1> DEFINE cs == s.set.containers
             n == Len(cs)
             last == cs[n]
             key == key_of(v)
             low == low_of(v)
             lastly == add_to_last(s, low)
             new == add_container(s, key, low)
  <1>1. /\ s \in Steps /\ s.set \in SetRecords /\ cs \in Seq(Containers) /\ cs # << >>
        /\ s.set.values = << >> /\ IsGood(s.set)
    <2>1. s \in Steps /\ s.set \in SetRecords /\ cs # << >> /\ s.set.values = << >> /\ IsGood(s.set)
      BY StepParts DEF Working, IsDirectory
    <2> QED BY <2>1, Fields
  <1>2. n \in Nat /\ n \in 1..n
    BY <1>1
  <1>3. Last(cs) = last
    BY DEF Last
  <1>4. CASE last.key = key
    <2>1. t = IF lastly.result # SUCCESS THEN lastly
              ELSE [lastly EXCEPT !.set.cardinality = lastly.set.cardinality + 1, !.set.maximum = v]
      BY <1>3, <1>4 DEF add_in_containers
    <2>2. \/ lastly = refused(s)
          \/ \E d \in Containers, p \in PoolRecords :
              /\ IsStep(lastly, TRUE, << >>, [s.set.containers EXCEPT ![n] = d], s.set.cardinality,
                        s.set.maximum, s.set.directory_log2, p, SUCCESS)
              /\ IsWith(d, last, low_of(v)) /\ d.block_log2 <= LOG2_MAX
              /\ Owes(p.lent, lastly.set, base)
      <3> HIDE DEF lastly, last, n
      <3> QED BY <1>4, AddToLastIs DEF lastly, last, n
    <2> HIDE DEF lastly
    <2>3. CASE lastly = refused(s)
      <3>1. t = refused(s)
        BY <1>1, <2>1, <2>3, RefusedIs, ResultsDiffer
      <3> QED BY <3>1, RefusedGrown
    <2>4. ASSUME NEW d \in Containers, NEW p \in PoolRecords,
                 IsStep(lastly, TRUE, << >>, [s.set.containers EXCEPT ![n] = d], s.set.cardinality,
                        s.set.maximum, s.set.directory_log2, p, SUCCESS),
                 IsWith(d, last, low_of(v)), d.block_log2 <= LOG2_MAX,
                 Owes(p.lent, lastly.set, base)
          PROVE  Grown(t, s, base, v)
      <3>1. /\ lastly \in Steps /\ lastly.result = SUCCESS /\ lastly.set.values = << >>
            /\ lastly.set.containers = [s.set.containers EXCEPT ![n] = d] /\ lastly.set.block = TRUE
            /\ lastly.set.cardinality = s.set.cardinality /\ lastly.pool = p
            /\ lastly.set.directory_log2 = s.set.directory_log2
        BY <2>4, Zenon DEF IsStep
      <3> DEFINE k == s.set.cardinality + 1
      <3>9. k \in Nat
        BY <1>1, Fields
      <3>2. t = [lastly EXCEPT !.set.cardinality = k, !.set.maximum = v]
        BY <2>1, <3>1
      <3>3. Owes(lastly.pool.lent, lastly.set, base)
        BY <2>4, <3>1
      <3>4. /\ t \in Steps /\ t.result = SUCCESS /\ t.set \in SetRecords
            /\ t.set.block = TRUE /\ t.set.values = << >>
            /\ t.set.containers = [s.set.containers EXCEPT ![n] = d]
            /\ t.set.directory_log2 = s.set.directory_log2
            /\ t.set.cardinality = s.set.cardinality + 1 /\ t.set.maximum = v
            /\ IsDirectory(t.set) /\ Contents(t.set) = Contents(s.set) \cup {v} => Grown(t, s, base, v)
        <4>1. IsOneMore(t, lastly, s, base, v)
          <5>1. k = s.set.cardinality + 1
            OBVIOUS
          <5> HIDE DEF k
          <5> QED BY <3>1, <3>2, <3>3, <3>9, <5>1, CountedGrown, ZenonT(90)
        <4> QED BY <3>1, <4>1, Zenon DEF IsOneMore
      <3>5. HasBlock(t.set)
        BY <3>4 DEF HasBlock, IsDirectory
      <3> DEFINE x == s.set
                 y == t.set
      <3>6. /\ IsDirectory(x) /\ n = Len(x.containers) /\ last = x.containers[n]
            /\ \A u \in Contents(x) : u < v
            /\ HasBlock(y) /\ y.values = << >> /\ y.containers = [x.containers EXCEPT ![n] = d]
            /\ y.directory_log2 = x.directory_log2 /\ y.cardinality = x.cardinality + 1
            /\ y.maximum = v
        BY <3>4, <3>5
      <3> HIDE DEF x, y, n, last
      <3>7. IsDirectory(y) /\ Contents(y) = Contents(x) \cup {v}
        BY <1>4, <2>4, <3>6, LastGrown
      <3> QED BY <3>4, <3>7 DEF x, y
    <2> QED BY <2>2, <2>3, <2>4
  <1>5. CASE last.key # key
    <2> DEFINE c == Container(key, ARRAY, <<low>>, 1, FIRST_LOG2)
               p == arnm_roaring_push_container([s EXCEPT !.pool = take(s.pool, FIRST_LOG2)], c)
               f == [p EXCEPT !.pool = give(p.pool, FIRST_LOG2)]
    <2>1. t = IF new.result # SUCCESS THEN new
              ELSE [new EXCEPT !.set.cardinality = new.set.cardinality + 1, !.set.maximum = v]
      BY <1>3, <1>5 DEF add_in_containers
    <2>2. new = IF ~grants(s.pool, FIRST_LOG2) THEN refused(s)
                ELSE IF p.result # SUCCESS THEN f ELSE p
      BY DEF add_container
    <2> HIDE DEF new
    <2>3. /\ IsFilled(c) /\ c.key = key /\ c.cardinality = 1 /\ c.block_log2 = FIRST_LOG2
          /\ Lows(c) = {low} /\ At(c.key, Lows(c)) = {v} /\ c \in Containers
      BY FirstContainer DEF IsFilled
    <2>4. CASE ~grants(s.pool, FIRST_LOG2)
      <3>1. t = refused(s)
        BY <1>1, <2>1, <2>2, <2>4, RefusedIs, ResultsDiffer
      <3> QED BY <3>1, RefusedGrown
    <2>5. CASE grants(s.pool, FIRST_LOG2)
      <3> HIDE DEF c
      <3>4. /\ p = arnm_roaring_push_container([s EXCEPT !.pool = take(s.pool, FIRST_LOG2)], c)
            /\ f = [p EXCEPT !.pool = give(p.pool, FIRST_LOG2)] /\ FIRST_LOG2 = c.block_log2
        BY <2>3
      <3> HIDE DEF p, f
      <3>1. /\ FIRST_LOG2 \in 0..LOG2_MAX
            /\ \/ /\ p.result = EXHAUSTED /\ f \in Steps /\ f.result = EXHAUSTED /\ f.set = s.set
                  /\ Owes(f.pool.lent, f.set, base)
               \/ \E l \in FIRST_LOG2..LOG2_MAX, pool \in PoolRecords :
                    /\ IsStep(p, TRUE, << >>, Append(s.set.containers, c), s.set.cardinality,
                              s.set.maximum, l, pool, SUCCESS)
                    /\ Owes(pool.lent, p.set, base)
                    /\ (Len(s.set.containers) + 1) * ENTRY_SIZE <= Pow(l)
        BY <1>1, <2>3, <2>5, <3>4, TakenPush, ZenonT(60)
      <3>2. ASSUME p.result = EXHAUSTED, f \in Steps, f.result = EXHAUSTED, f.set = s.set,
                   Owes(f.pool.lent, f.set, base)
            PROVE  Grown(t, s, base, v)
        <4>1. t = f
          BY <2>1, <2>2, <2>5, <3>2, ResultsDiffer
        <4>2. Working(f, base)
          BY <1>1, <3>2 DEF Working
        <4> QED BY <3>2, <4>1, <4>2, ResultsDiffer DEF Grown
      <3>3. ASSUME NEW l \in FIRST_LOG2..LOG2_MAX, NEW pool \in PoolRecords,
                   IsStep(p, TRUE, << >>, Append(s.set.containers, c), s.set.cardinality,
                          s.set.maximum, l, pool, SUCCESS),
                   Owes(pool.lent, p.set, base),
                   (Len(s.set.containers) + 1) * ENTRY_SIZE <= Pow(l)
            PROVE  Grown(t, s, base, v)
        <4>1. /\ p \in Steps /\ p.result = SUCCESS /\ p.set.values = << >>
              /\ p.set.containers = Append(s.set.containers, c) /\ p.set.block = TRUE
              /\ p.set.cardinality = s.set.cardinality /\ p.pool = pool
              /\ p.set.directory_log2 = l
          BY <3>3, Zenon DEF IsStep
        <4> DEFINE k == s.set.cardinality + 1
        <4>9. k \in Nat
          BY <1>1, Fields
        <4>2. t = [p EXCEPT !.set.cardinality = k, !.set.maximum = v]
          BY <2>1, <2>2, <2>5, <4>1
        <4>3. Owes(p.pool.lent, p.set, base)
          BY <3>3, <4>1
        <4>12. IsOneMore(t, p, s, base, v)
          <5>1. k = s.set.cardinality + 1
            OBVIOUS
          <5> HIDE DEF k
          <5> QED BY <4>1, <4>2, <4>3, <4>9, <5>1, CountedGrown
        <4>4. /\ t \in Steps /\ t.result = SUCCESS /\ t.set \in SetRecords
              /\ t.set.block = p.set.block /\ t.set.values = p.set.values
              /\ t.set.containers = p.set.containers
              /\ t.set.directory_log2 = p.set.directory_log2
              /\ t.set.cardinality = s.set.cardinality + 1 /\ t.set.maximum = v
              /\ IsDirectory(t.set) /\ Contents(t.set) = Contents(s.set) \cup {v} => Grown(t, s, base, v)
          BY <4>12, Zenon DEF IsOneMore
        <4>5. /\ HasBlock(t.set) /\ t.set.values = << >>
              /\ t.set.containers = Append(s.set.containers, c)
              /\ (Len(s.set.containers) + 1) * ENTRY_SIZE <= Pow(t.set.directory_log2)
          BY <3>3, <4>1, <4>4 DEF HasBlock
        <4>6. \A u \in Contents(s.set) : key_of(u) < c.key
          <5>1. ASSUME NEW u \in Contents(s.set) PROVE key_of(u) < key
            <6>1. u \in Nat /\ u < v
              BY <1>1, GoodIs DEF IsCounted
            <6>2. key_of(u) \in Nat /\ key \in Nat /\ key_of(u) <= key
              <7>1. key_of(u) \in Nat /\ key \in Nat
                BY <6>1, KeysAndLows
              <7> QED BY <6>1, <7>1, KeyOrder
            <6>3. key_of(u) # key
              <7>1. SUFFICES ASSUME key_of(u) = key PROVE FALSE
                OBVIOUS
              <7>2. /\ \A i \in 1..n : IsReadable(cs[i])
                    /\ \A i, j \in 1..n : i < j => cs[i].key < cs[j].key
                BY <1>1, GoodIs DEF IsDirectory
              <7>3. PICK i \in 1..n : u \in At(cs[i].key, Lows(cs[i]))
                <8>1. ToSet(<< >>) = {}
                  BY DEF ToSet
                <8> QED BY <1>1, <7>2, <8>1, ContentsAre
              <7>4. cs[i].key \in Nat /\ key_of(u) = cs[i].key
                <8>1. cs[i].key \in Nat /\ Lows(cs[i]) \in SUBSET LowParts
                  BY <7>2, LowsAre
                <8> QED BY <7>3, <8>1, AtIs
              <7>5. i # n /\ i < n
                BY <1>2, <1>5, <7>1, <7>4
              <7>6. PICK w \in Contents(s.set) : w \in Nat /\ key_of(w) = last.key
                BY <1>1, <1>2, KeysHeld
              <7>7. cs[i].key < last.key
                BY <1>2, <7>2, <7>5
              <7>8. w < v
                BY <7>6
              <7>9. key_of(w) \in Nat /\ key_of(w) <= key
                <8>1. key_of(w) \in Nat
                  BY <7>6, KeysAndLows
                <8> QED BY <6>2, <7>6, <7>8, <8>1, KeyOrder
              <7> QED BY <6>2, <7>1, <7>4, <7>6, <7>7, <7>9, SMTT(40)
            <6> QED BY <6>2, <6>3
          <5> QED BY <2>3, <5>1
        <4>7. /\ IsStored(c) /\ low \in Lows(c) /\ \A l1 \in Lows(c) : l1 <= low
              /\ v = value_of(c.key, low)
          <5>1. low \in Nat /\ v = value_of(key, low)
            BY KeysAndLows, LowPartsAre
          <5> QED BY <2>3, <3>1, <5>1 DEF IsStored
        <4>8. IsDirectory(t.set) /\ Contents(t.set) = Contents(s.set) \cup At(c.key, Lows(c))
          <5> DEFINE x == s.set
                     y == t.set
          <5>1. /\ IsGood(x) /\ x.values = << >> /\ \A u \in Contents(x) : key_of(u) < c.key
                /\ HasBlock(y) /\ y.values = << >> /\ y.containers = Append(x.containers, c)
                /\ y.cardinality = x.cardinality + c.cardinality /\ y.maximum = value_of(c.key, low)
                /\ (Len(x.containers) + 1) * ENTRY_SIZE <= Pow(y.directory_log2)
            BY <1>1, <2>3, <4>4, <4>5, <4>6, <4>7
          <5> HIDE DEF x, y, low
          <5>2. IsDirectory(y) /\ Contents(y) = Contents(x) \cup At(c.key, Lows(c))
            BY <4>7, <5>1, Pushed
          <5> QED BY <5>2 DEF x, y
        <4> QED BY <2>3, <4>4, <4>8
      <3> QED BY <3>1, <3>2, <3>3
    <2> QED BY <2>4, <2>5
  <1> QED BY <1>4, <1>5

\* What an add has answered: the number stands behind the others, or why not.
Added(t, s, base, v) ==
  /\ t \in Steps /\ IsGood(t.set) /\ Owes(t.pool.lent, t.set, base)
  /\ t.result = SUCCESS =>
       Contents(t.set) = Contents(s.set) \cup {v} /\ \A u \in Contents(s.set) : u <= v
  /\ t.result # SUCCESS => Contents(t.set) = Contents(s.set)
  /\ t.result = INVALID_PARAM => \E u \in Contents(s.set) : v < u
  /\ t.result = EXHAUSTED => \A u \in Contents(s.set) : u < v

\* A number above all the others that was added, or refused for want of room.
LEMMA GrownAdded ==
  ASSUME NEW s, NEW base, NEW v \in Nat, \A u \in Contents(s.set) : u < v /\ u \in Nat,
         NEW t, Grown(t, s, base, v)
  PROVE  Added(t, s, base, v)
  <1>1. \A u \in Contents(s.set) : u <= v
    OBVIOUS
  <1>2. t \in Steps /\ t.result \in {SUCCESS, EXHAUSTED} /\ IsGood(t.set) /\ Owes(t.pool.lent, t.set, base)
    BY DEF Grown, Working
  <1> QED BY <1>1, <1>2, ResultsDiffer DEF Added, Grown

\* arnm_roaring_add, in whichever form the set is.
LEMMA AddIs ==
  ASSUME NEW s, NEW base, Working(s, base), s.result = SUCCESS, NEW v \in Nat,
         NEW t, t = arnm_roaring_add(s, v)
  PROVE  Added(t, s, base, v)
  <1> DEFINE set == s.set
             S == Contents(s.set)
             u == sparse_to_containers(s)
             n == set.cardinality
  <1>1. /\ s \in Steps /\ set \in SetRecords /\ IsGood(set) /\ Owes(s.pool.lent, set, base)
        /\ n \in Nat /\ set.maximum \in Nat
    BY StepParts, Fields DEF Working
  <1>2. /\ S \in SUBSET Nat /\ IsFiniteSet(S) /\ n = Cardinality(S)
        /\ n > 0 => set.maximum \in S /\ \A w \in S : w <= set.maximum
    BY <1>1, GoodIs DEF IsCounted
  <1>3. n = 0 => S = {}
    BY <1>1, GoodIs
  <1>4. CASE n > 0 /\ v < set.maximum
    <2>1. t = [s EXCEPT !.result = INVALID_PARAM]
      BY <1>4 DEF arnm_roaring_add
    <2>2. t \in Steps /\ t.result = INVALID_PARAM /\ t.set = set /\ t.pool = s.pool
      BY <1>1, <2>1, Zenon DEF Steps
    <2> QED BY <1>1, <1>2, <1>4, <2>2, ResultsDiffer DEF Added
  <1>5. CASE n > 0 /\ v = set.maximum
    <2>1. t = s
      BY <1>1, <1>5 DEF arnm_roaring_add
    <2>2. S = S \cup {v} /\ \A w \in S : w <= v
      BY <1>2, <1>5
    <2> QED BY <1>1, <2>1, <2>2, ResultsDiffer DEF Added
  <1>6. CASE ~(n > 0 /\ v < set.maximum) /\ ~(n > 0 /\ v = set.maximum)
    <2>1. \A w \in S : w < v /\ w \in Nat
      <3>1. CASE n > 0
        BY <1>1, <1>2, <1>6, <3>1
      <3>2. CASE ~(n > 0)
        BY <1>1, <1>3, <3>2
      <3> QED BY <3>1, <3>2
    <2>2. SUFFICES Grown(t, s, base, v)
      BY <2>1, GrownAdded
    <2>3. CASE n = COUNT_MAX
      <3>1. t = refused(s)
        BY <1>6, <2>3 DEF arnm_roaring_add
      <3> QED BY <3>1, RefusedGrown
    <2>4. CASE n # COUNT_MAX /\ set.containers = << >> /\ n < SPARSE_MAX
      <3>1. t = sparse_add(s, v)
        BY <1>6, <2>4 DEF arnm_roaring_add, arnm_roaring_is_sparse
      <3> QED BY <2>1, <2>4, <3>1, SparseAddIs
    <2>5. CASE n # COUNT_MAX /\ set.containers = << >> /\ ~(n < SPARSE_MAX)
      <3>1. t = IF u.result # SUCCESS THEN u ELSE add_in_containers(u, v)
        BY <1>6, <2>5 DEF arnm_roaring_add, arnm_roaring_is_sparse
      <3>2. IsSparse(set)
        <4>1. set # Zeroed
          BY <2>5, Fields, SizesAre
        <4> QED BY <1>1, <2>5, <4>1 DEF IsGood, IsDirectory
      <3>3. /\ Working(u, base) /\ Contents(u.set) = S
            /\ u.result = SUCCESS => IsDirectory(u.set)
        BY <3>2, SparseToContainersIs
      <3> HIDE DEF u
      <3>4. CASE u.result # SUCCESS
        BY <3>1, <3>3, <3>4 DEF Grown
      <3>5. CASE u.result = SUCCESS
        <4>1. t = add_in_containers(u, v) /\ \A w \in Contents(u.set) : w < v
          BY <2>1, <3>1, <3>3, <3>5
        <4>2. Grown(t, u, base, v)
          BY <3>3, <3>5, <4>1, AddInContainersIs
        <4> QED BY <3>3, <4>2 DEF Grown
      <3> QED BY <3>4, <3>5
    <2>6. CASE n # COUNT_MAX /\ set.containers # << >>
      <3>1. t = add_in_containers(s, v)
        BY <1>6, <2>6 DEF arnm_roaring_add, arnm_roaring_is_sparse
      <3>2. IsDirectory(set)
        BY <1>1, <2>6, Fields DEF IsGood, IsSparse
      <3> QED BY <2>1, <3>1, <3>2, AddInContainersIs
    <2> QED BY <2>3, <2>4, <2>5, <2>6
  <1> QED BY <1>4, <1>5, <1>6

-----------------------------------------------------------------------------
(* The invariant.                                                          *)

\* The sets f are in good order and the pool has lent l, the blocks they name.
InOrder(f, l) ==
  /\ f \in [Handles -> SetRecords] /\ l \in [0..LOG2_MAX -> Int]
  /\ \A h \in Handles : IsGood(f[h])
  /\ \A e \in 0..LOG2_MAX : l[e] = SumFunctionOnSet([h \in Handles |-> named(f[h], e)], Handles)

RoaringInv == InOrder(sets, lent)

\* The blocks that the other sets name.
OfOthers(f, l, h) == [e \in 0..LOG2_MAX |-> l[e] - named(f[h], e)]

\* What is lent is what the other sets name and what this one names.
LEMMA OthersAre ==
  ASSUME NEW f, NEW l, InOrder(f, l), NEW h \in Handles
  PROVE  Owes(l, f[h], OfOthers(f, l, h)) /\ IsGood(f[h]) /\ f[h] \in SetRecords
  <1> DEFINE base == OfOthers(f, l, h)
  <1>1. f[h] \in SetRecords /\ IsGood(f[h]) /\ l \in [0..LOG2_MAX -> Int]
    BY DEF InOrder
  <1>2. ASSUME NEW e \in 0..LOG2_MAX PROVE base[e] \in Int /\ l[e] = base[e] + named(f[h], e)
    <2>1. l[e] \in Int
      BY <1>1
    <2>2. named(f[h], e) \in Nat
      BY <1>1, NamedIs
    <2>3. base[e] = l[e] - named(f[h], e)
      BY DEF OfOthers
    <2> QED BY <2>1, <2>2, <2>3
  <1>3. base \in [0..LOG2_MAX -> Int]
    BY <1>2 DEF OfOthers
  <1> QED BY <1>1, <1>2, <1>3 DEF Owes

\* One set exchanged for another, with what the pool then has lent.
LEMMA Exchanged ==
  ASSUME NEW f, NEW l, InOrder(f, l), NEW h \in Handles, NEW x, IsGood(x),
         NEW m, Owes(m, x, OfOthers(f, l, h))
  PROVE  InOrder([f EXCEPT ![h] = x], m)
  <1> DEFINE g == [f EXCEPT ![h] = x]
             base == OfOthers(f, l, h)
  <1>1. /\ x \in SetRecords /\ f \in [Handles -> SetRecords] /\ m \in [0..LOG2_MAX -> Int]
        /\ l \in [0..LOG2_MAX -> Int]
    BY GoodIs DEF InOrder, Owes
  <1>2. g \in [Handles -> SetRecords] /\ g[h] = x /\ \A k \in Handles : k # h => g[k] = f[k]
    BY <1>1
  <1> HIDE DEF g
  <1>3. \A k \in Handles : IsGood(g[k])
    BY <1>2 DEF InOrder
  <1>4. ASSUME NEW e \in 0..LOG2_MAX
        PROVE  m[e] = SumFunctionOnSet([k \in Handles |-> named(g[k], e)], Handles)
    <2> DEFINE v == [k \in Handles |-> named(f[k], e)]
               w == [k \in Handles |-> named(g[k], e)]
               H == Handles
               R == Handles \ {h}
    <2>1. v \in [H -> Int] /\ w \in [H -> Int]
      <3>1. \A k \in Handles : named(f[k], e) \in Nat /\ named(g[k], e) \in Nat
        <4>1. \A k \in Handles : f[k] \in SetRecords /\ g[k] \in SetRecords
          BY <1>1, <1>2
        <4> QED BY <4>1, NamedIs
      <3> QED BY <3>1
    <2>2. v[h] = named(f[h], e) /\ w[h] = named(x, e) /\ \A k \in R : v[k] = w[k] /\ v[k] \in Int
      <3>1. v[h] = named(f[h], e) /\ w[h] = named(x, e)
        BY <1>2
      <3>2. ASSUME NEW k \in R PROVE v[k] = w[k]
        BY <1>2
      <3> HIDE DEF v, w
      <3> QED BY <2>1, <3>1, <3>2
    <2>3. IsFiniteSet(H) /\ IsFiniteSet(R) /\ H \in SUBSET H /\ R \in SUBSET H /\ h \in H
      <3>1. IsFiniteSet(H)
        BY OpsAssumption
      <3>2. R \in SUBSET H
        OBVIOUS
      <3>3. IsFiniteSet(R)
        BY <3>1, <3>2, FS_Subset
      <3> QED BY <3>1, <3>2, <3>3
    <2> HIDE DEF v, w
    <2>4. /\ SumFunctionOnSet(v, H) = v[h] + SumFunctionOnSet(v, R)
          /\ SumFunctionOnSet(w, H) = w[h] + SumFunctionOnSet(w, R)
          /\ SumFunctionOnSet(v, R) \in Int
      <3>1. R = H \ {h}
        OBVIOUS
      <3> HIDE DEF H, R
      <3>2. /\ SumFunctionOnSet(v, H) = v[h] + SumFunctionOnSet(v, H \ {h})
            /\ SumFunctionOnSet(v, R) \in Int
        BY <2>1, <2>3, SumTotal
      <3>3. SumFunctionOnSet(w, H) = w[h] + SumFunctionOnSet(w, H \ {h})
        BY <2>1, <2>3, SumTotal
      <3> QED BY <3>1, <3>2, <3>3
    <2>5. SumFunctionOnSet(v, R) = SumFunctionOnSet(w, R)
      <3> HIDE DEF R
      <3> QED BY <2>2, <2>3, SumAgrees
    <2>6. m[e] = base[e] + named(x, e) /\ base[e] = l[e] - named(f[h], e)
      BY DEF Owes, OfOthers
    <2>7. l[e] = SumFunctionOnSet(v, H)
      BY DEF InOrder, v
    <2>8. v[h] \in Int /\ w[h] \in Int
      BY <2>1
    <2> HIDE DEF H, R, base
    <2>9. m[e] = SumFunctionOnSet(w, H)
      BY <2>2, <2>4, <2>5, <2>6, <2>7, <2>8
    <2> QED BY <2>9 DEF w, H
  <1>5. InOrder(g, m)
    BY <1>1, <1>2, <1>3, <1>4 DEF InOrder
  <1> QED BY <1>5 DEF g

\* Every step that a call starts from.
LEMMA StepIs ==
  ASSUME NEW x \in SetRecords, NEW l \in [0..LOG2_MAX -> Int], NEW left \in Int
  PROVE  /\ Step(x, l, left) \in Steps /\ Step(x, l, left).set = x
         /\ Step(x, l, left).pool.lent = l /\ Step(x, l, left).result = SUCCESS
  BY Zenon DEF Step, Steps, PoolRecords

\* A call starts from a set in good order, the pool accounted for.
LEMMA StartIs ==
  ASSUME NEW f, NEW l, InOrder(f, l), NEW h \in Handles, NEW left \in Int,
         NEW s, s = Step(f[h], l, left)
  PROVE  Working(s, OfOthers(f, l, h)) /\ s.result = SUCCESS /\ s.set = f[h] /\ s.pool.lent = l
  <1>1. /\ Owes(l, f[h], OfOthers(f, l, h)) /\ IsGood(f[h]) /\ f[h] \in SetRecords
        /\ l \in [0..LOG2_MAX -> Int]
    BY OthersAre DEF InOrder
  <1>2. s \in Steps /\ s.set = f[h] /\ s.pool.lent = l /\ s.result = SUCCESS
    BY <1>1, StepIs
  <1> QED BY <1>1, <1>2 DEF Working

-----------------------------------------------------------------------------
(* What the invariant says.                                                *)

\* What ascends is sorted, neighbour by neighbour.
LEMMA AscendsHolds ==
  ASSUME NEW q, Ascends(q)
  PROVE  \A i \in 1..(Len(q) - 1) : q[i] < q[i + 1]
  <1>1. Len(q) \in Nat
    BY DEF Ascends
  <1>2. ASSUME NEW i \in 1..(Len(q) - 1) PROVE q[i] < q[i + 1]
    <2>1. i \in 1..Len(q) /\ i + 1 \in 1..Len(q) /\ i < i + 1
      BY <1>1
    <2> QED BY <2>1 DEF Ascends
  <1> QED BY <1>2

\* A stored container has the form that ContainerHolds asks for,
LEMMA ContainerIsHeld ==
  ASSUME NEW c, IsStored(c)
  PROVE  ContainerHolds(c)
  <1>1. /\ c \in Containers /\ IsReadable(c) /\ c.cardinality = Cardinality(Lows(c))
        /\ c.kind = ARRAY => c.cardinality * LOW_SIZE <= Pow(c.block_log2)
        /\ c.kind = BITMAP => ARRAY_MAX < c.cardinality /\ c.block_log2 = BITMAP_LOG2
        /\ c.cardinality \in Nat /\ ARRAY_MAX \in Nat /\ c.kind \in {ARRAY, BITMAP}
    BY Fields, SizesAre DEF IsStored, IsFilled, Kinds
  <1>2. CASE c.kind = ARRAY
    <2>1. Ascends(c.lows) /\ Len(c.lows) <= ARRAY_MAX /\ Lows(c) = ToSet(c.lows)
      BY <1>1, <1>2, KindsDiffer DEF IsReadable, Lows
    <2>2. c.cardinality = Len(c.lows)
      BY <1>1, <2>1, AscendsCounts
    <2>3. \A i \in 1..(Len(c.lows) - 1) : c.lows[i] < c.lows[i + 1]
      BY <2>1, AscendsHolds
    <2>4. c.cardinality * LOW_SIZE <= 2^c.block_log2
      BY <1>1, <1>2 DEF Pow
    <2>5. ArrayHolds(c.lows, c.cardinality, LOW_SIZE, c.block_log2)
      BY <2>2, <2>3, <2>4 DEF ArrayHolds
    <2> QED BY <1>2, <2>1, <2>2, <2>5 DEF ContainerHolds
  <1>3. CASE c.kind # ARRAY
    <2>1. c.kind = BITMAP /\ ARRAY_MAX < c.cardinality /\ c.block_log2 = BITMAP_LOG2 /\ Lows(c) = c.lows
      BY <1>1, <1>3 DEF Lows
    <2>2. ~(c.cardinality <= ARRAY_MAX)
      BY <1>1, <2>1
    <2> QED BY <1>1, <1>3, <2>1, <2>2 DEF ContainerHolds
  <1> QED BY <1>2, <1>3

\* and a set in good order the one of FormHolds.
LEMMA GoodForm ==
  ASSUME NEW set, IsGood(set)
  PROVE  /\ set.cardinality = Cardinality(Contents(set))
         /\ set.cardinality > 0 => set.maximum = Max(Contents(set))
         /\ set.block = (set.cardinality > 0)
         /\ IF arnm_roaring_is_sparse(set)
            THEN /\ set.cardinality <= SPARSE_MAX
                 /\ set.block => ArrayHolds(set.values, set.cardinality, VALUE_SIZE, set.directory_log2)
            ELSE /\ \A i \in DOMAIN set.containers : ContainerHolds(set.containers[i])
                 /\ ArrayHolds([i \in DOMAIN set.containers |-> set.containers[i].key],
                               Len(set.containers), ENTRY_SIZE, set.directory_log2)
  <1> DEFINE S == Contents(set)
             cs == set.containers
             n == Len(cs)
  <1>1. /\ set \in SetRecords /\ IsCounted(set) /\ (set.block <=> set.cardinality > 0)
        /\ set.block \in BOOLEAN /\ cs \in Seq(Containers) /\ n \in Nat
    BY GoodIs, Fields
  <1>2. set.cardinality > 0 => set.maximum = Max(S)
    <2>1. SUFFICES ASSUME set.cardinality > 0 PROVE set.maximum = Max(S)
      OBVIOUS
    <2>2. S \in SUBSET Nat /\ set.maximum \in S /\ \A v \in S : v <= set.maximum
      BY <1>1, <2>1 DEF IsCounted
    <2> HIDE DEF S
    <2>3. Max(S) \in S /\ \A v \in S : Max(S) >= v
      <3>1. \A v \in S : set.maximum >= v
        BY <2>2
      <3> QED BY <2>2, <3>1 DEF Max
    <2>4. Max(S) <= set.maximum /\ set.maximum <= Max(S) /\ Max(S) \in Nat /\ set.maximum \in Nat
      BY <2>2, <2>3
    <2> QED BY <2>4
  <1>3. set.block = (set.cardinality > 0)
    BY <1>1
  <1>4. set.cardinality = Cardinality(S)
    BY <1>1 DEF IsCounted
  <1>5. CASE cs = << >>
    <2>1. set.cardinality <= SPARSE_MAX
             /\ (set.block => ArrayHolds(set.values, set.cardinality, VALUE_SIZE, set.directory_log2))
      <3>1. CASE set = Zeroed
        BY <3>1, Fields, SizesAre
      <3>2. CASE IsSparse(set)
        <4>1. /\ Ascends(set.values) /\ Len(set.values) \in 1..SPARSE_MAX
              /\ set.cardinality = Len(set.values)
              /\ Len(set.values) * VALUE_SIZE <= Pow(set.directory_log2)
          BY <3>2 DEF IsSparse
        <4>2. \A i \in 1..(Len(set.values) - 1) : set.values[i] < set.values[i + 1]
          BY <4>1, AscendsHolds
        <4>3. set.cardinality * VALUE_SIZE <= 2^set.directory_log2
          BY <4>1 DEF Pow
        <4>4. set.cardinality <= SPARSE_MAX
          BY <4>1, SizesAre
        <4> QED BY <4>1, <4>2, <4>3, <4>4 DEF ArrayHolds
      <3> QED BY <1>5, <3>1, <3>2 DEF IsGood, IsDirectory
    <2> QED BY <1>2, <1>3, <1>4, <1>5, <2>1 DEF arnm_roaring_is_sparse
  <1>6. CASE cs # << >>
    <2>1. IsDirectory(set)
      BY <1>6, Fields DEF IsGood, IsSparse
    <2>2. DOMAIN cs = 1..n
      BY <1>1
    <2>3. \A i \in DOMAIN cs : ContainerHolds(cs[i])
      BY <2>1, <2>2, ContainerIsHeld DEF IsDirectory
    <2> DEFINE keys == [i \in DOMAIN cs |-> cs[i].key]
    <2>4. keys \in Seq(Nat) /\ Len(keys) = n /\ \A i \in 1..n : keys[i] = cs[i].key
      <3>1. \A i \in 1..n : cs[i] \in Containers
        BY <1>1, <2>2
      <3>2. \A i \in 1..n : cs[i].key \in Nat
        BY <3>1, Fields
      <3>3. keys \in [1..n -> Nat]
        BY <2>2, <3>2
      <3> QED BY <1>1, <2>2, <3>3
    <2>5. \A i, j \in 1..n : i < j => cs[i].key < cs[j].key
      BY <2>1 DEF IsDirectory
    <2> HIDE DEF keys
    <2>6. Ascends(keys)
      BY <2>4, <2>5 DEF Ascends
    <2>7. \A i \in 1..(Len(keys) - 1) : keys[i] < keys[i + 1]
      BY <2>6, AscendsHolds
    <2>8. n * ENTRY_SIZE <= 2^set.directory_log2
      BY <2>1 DEF IsDirectory, Pow
    <2>9. ArrayHolds(keys, n, ENTRY_SIZE, set.directory_log2)
      BY <2>4, <2>7, <2>8 DEF ArrayHolds
    <2> QED BY <1>2, <1>3, <1>4, <1>6, <2>3, <2>9 DEF arnm_roaring_is_sparse, keys
  <1> QED BY <1>5, <1>6

\* The invariant is stronger than BlocksAccounted.
LEMMA OrderAccounts == RoaringInv => BlocksAccounted
  <1> SUFFICES ASSUME RoaringInv PROVE BlocksAccounted
    OBVIOUS
  <1>1. FormHolds
    <2>1. \A h \in Handles : IsGood(sets[h])
      BY DEF RoaringInv, InOrder
    <2> QED BY <2>1, GoodForm DEF FormHolds
  <1>2. DOMAIN lent = 0..LOG2_MAX
    BY DEF RoaringInv, InOrder
  <1>3. \A e \in 0..LOG2_MAX :
          lent[e] = SumFunctionOnSet([h \in Handles |-> named(sets[h], e)], Handles)
    BY DEF RoaringInv, InOrder
  <1> QED BY <1>1, <1>2, <1>3 DEF BlocksAccounted

-----------------------------------------------------------------------------
(* The steps.                                                              *)

\* The numbers that each handle holds.
Held == [h \in Handles |-> Contents(sets[h])]

\* A step that exchanges one set.
LEMMA ExchangeKeeps ==
  ASSUME RoaringInv, NEW h \in Handles, NEW x, IsGood(x),
         NEW m, Owes(m, x, OfOthers(sets, lent, h)),
         sets' = [sets EXCEPT ![h] = x], lent' = m
  PROVE  RoaringInv' /\ Held' = [Held EXCEPT ![h] = Contents(x)]
  <1>1. InOrder(sets, lent)
    BY DEF RoaringInv
  <1>2. InOrder([sets EXCEPT ![h] = x], m)
    BY <1>1, Exchanged
  <1>3. RoaringInv'
    BY <1>2 DEF RoaringInv
  <1>4. sets \in [Handles -> SetRecords]
    BY <1>1 DEF InOrder
  <1>5. ASSUME NEW k \in Handles PROVE Held'[k] = [Held EXCEPT ![h] = Contents(x)][k]
    <2>1. sets'[k] = IF k = h THEN x ELSE sets[k]
      BY <1>4
    <2> QED BY <2>1 DEF Held
  <1> QED BY <1>3, <1>5 DEF Held

\* Nothing added up is nothing.
LEMMA ZeroSum ==
  ASSUME NEW D, IsFiniteSet(D), NEW z, z = [h \in D |-> 0]
  PROVE  SumFunctionOnSet(z, D) = 0
  <1> DEFINE F == [S \in SUBSET D |-> 0]
  <1>1. F \in [SUBSET D -> Int] /\ F[{}] = 0
    OBVIOUS
  <1>2. ASSUME NEW S \in SUBSET D, NEW x \in S PROVE F[S] = z[x] + F[S \ {x}]
    <2>1. F[S] = 0 /\ z[x] = 0 /\ F[S \ {x}] = 0
      BY <1>2
    <2> HIDE DEF F
    <2> QED BY <2>1
  <1>3. F[D] = 0
    OBVIOUS
  <1> HIDE DEF F
  <1>4. IsSum(F, z, D)
    BY <1>1, <1>2 DEF IsSum
  <1>5. SumFunctionOnSet(z, D) = F[D]
    BY <1>4, SumIs
  <1> QED BY <1>3, <1>5

\* At first every set is empty and nothing is lent.
LEMMA InitIs == RoaringInit => RoaringInv /\ Held = [h \in Handles |-> {}]
  <1> SUFFICES ASSUME RoaringInit PROVE RoaringInv /\ Held = [h \in Handles |-> {}]
    OBVIOUS
  <1>1. sets = [h \in Handles |-> Zeroed] /\ lent = [log2 \in 0..LOG2_MAX |-> 0]
    BY DEF RoaringInit
  <1>2. Zeroed \in SetRecords /\ IsGood(Zeroed) /\ Contents(Zeroed) = {}
    BY Fields, EmptyContents
  <1>3. \A h \in Handles : sets[h] = Zeroed
    BY <1>1
  <1>4. sets \in [Handles -> SetRecords] /\ lent \in [0..LOG2_MAX -> Int]
    BY <1>1, <1>2
  <1>5. ASSUME NEW e \in 0..LOG2_MAX
        PROVE  lent[e] = SumFunctionOnSet([h \in Handles |-> named(sets[h], e)], Handles)
    <2> DEFINE w == [h \in Handles |-> named(sets[h], e)]
               z == [h \in Handles |-> 0]
    <2>1. w = z
      <3>1. named(Zeroed, e) = 0
        BY <1>2, NamedIs
      <3> QED BY <1>3, <3>1
    <2>2. IsFiniteSet(Handles)
      BY OpsAssumption
    <2>3. SumFunctionOnSet(z, Handles) = 0
      BY <2>2, ZeroSum
    <2> QED BY <1>1, <2>1, <2>3
  <1>6. RoaringInv
    BY <1>2, <1>3, <1>4, <1>5 DEF RoaringInv, InOrder
  <1> QED BY <1>2, <1>3, <1>6 DEF Held

\* arnm_roaring_free gives every block of a set back.
LEMMA FreeSetStep ==
  ASSUME RoaringInv, NEW h \in Handles, Free(h)
  PROVE  RoaringInv' /\ Plain!Free(h)
  <1> DEFINE p == [lent |-> lent, left |-> 0]
             f == arnm_roaring_free(sets[h], p)
             base == OfOthers(sets, lent, h)
  <1>1. sets' = [sets EXCEPT ![h] = Zeroed] /\ lent' = f.lent /\ answer' = <<"freed">>
    BY DEF Free
  <1>2. Owes(lent, sets[h], base) /\ IsGood(sets[h]) /\ sets[h] \in SetRecords
    BY OthersAre DEF RoaringInv
  <1>3. p \in PoolRecords /\ p.lent = lent
    BY <1>2 DEF PoolRecords, Owes
  <1> HIDE DEF p
  <1>4. f \in PoolRecords /\ \A e \in 0..LOG2_MAX : f.lent[e] = lent[e] - named(sets[h], e)
    BY <1>2, <1>3, FreeIs
  <1> HIDE DEF f
  <1>5. Owes(f.lent, Zeroed, base)
    <2>1. ASSUME NEW e \in 0..LOG2_MAX PROVE f.lent[e] = base[e] + named(Zeroed, e)
      <3>1. named(Zeroed, e) = 0 /\ named(sets[h], e) \in Nat
        BY <1>2, NamedIs
      <3>2. lent[e] = base[e] + named(sets[h], e) /\ base[e] \in Int
        BY <1>2 DEF Owes
      <3> HIDE DEF base
      <3> QED BY <1>4, <3>1, <3>2
    <2>2. f.lent \in [0..LOG2_MAX -> Int] /\ base \in [0..LOG2_MAX -> Int]
      BY <1>2, <1>4, Fields DEF Owes
    <2> HIDE DEF base
    <2> QED BY <2>1, <2>2 DEF Owes
  <1>6. RoaringInv' /\ Held' = [Held EXCEPT ![h] = Contents(Zeroed)]
    BY <1>1, <1>5, EmptyContents, ExchangeKeeps
  <1>7. Held' = [Held EXCEPT ![h] = {}]
    BY <1>6, EmptyContents
  <1> QED BY <1>1, <1>6, <1>7 DEF Plain!Free, Held

\* An add is one of plain sets.
LEMMA AddStep ==
  ASSUME RoaringInv, NEW h \in Handles, NEW v \in Offers[h], Add(h, v)
  PROVE  RoaringInv' /\ (Plain!Add(h, v) \/ Plain!AddRefused(h, v))
  <1> DEFINE base == OfOthers(sets, lent, h)
  <1>1. PICK left \in Budgets :
          Done(h, arnm_roaring_add(Step(sets[h], lent, left), v), <<"add", h, v>>)
    BY DEF Add
  <1> DEFINE s == Step(sets[h], lent, left)
             t == arnm_roaring_add(s, v)
  <1>2. v \in Nat /\ left \in Int
    BY OpsAssumption
  <1>3. Working(s, base) /\ s.result = SUCCESS /\ s.set = sets[h] /\ s.pool.lent = lent
    BY <1>2, StartIs DEF RoaringInv
  <1>4. /\ sets' = [sets EXCEPT ![h] = t.set] /\ lent' = t.pool.lent
        /\ answer' = IF t.result = SUCCESS THEN <<"add", h, v>> ELSE <<t.result>>
    BY <1>1 DEF Done
  <1> HIDE DEF s, base
  <1>5. Added(t, s, base, v)
    BY <1>2, <1>3, AddIs
  <1> HIDE DEF t
  <1>6. RoaringInv' /\ Held' = [Held EXCEPT ![h] = Contents(t.set)]
    <2>1. IsGood(t.set) /\ Owes(t.pool.lent, t.set, base)
      BY <1>5 DEF Added
    <2> QED BY <1>4, <2>1, ExchangeKeeps DEF base
  <1>7. Held[h] = Contents(s.set) /\ DOMAIN Held = Handles
    BY <1>3 DEF Held
  <1>8. CASE t.result = SUCCESS
    <2>1. Contents(t.set) = Held[h] \cup {v} /\ \A u \in Held[h] : u <= v
      BY <1>5, <1>7, <1>8 DEF Added
    <2>2. Held' = [Held EXCEPT ![h] = Held[h] \cup {v}] /\ answer' = <<"add", h, v>>
      BY <1>4, <1>6, <1>8, <2>1
    <2>3. Plain!Add(h, v)
      BY <2>1, <2>2 DEF Plain!Add, Held
    <2> QED BY <1>6, <2>3
  <1>9. CASE t.result # SUCCESS
    <2>1. t.result \in {EXHAUSTED, INVALID_PARAM}
      <3>1. t.result \in {SUCCESS, EXHAUSTED, INVALID_PARAM}
        BY <1>5, StepParts DEF Added
      <3> QED BY <1>9, <3>1
    <2>2. Held' = Held
      <3>1. Contents(t.set) = Held[h]
        BY <1>5, <1>7, <1>9 DEF Added
      <3> QED BY <1>6, <3>1 DEF Held
    <2>3. answer' = <<t.result>>
      BY <1>4, <1>9
    <2>4. CASE t.result = EXHAUSTED
      <3>1. \A u \in Held[h] : u < v
        BY <1>5, <1>7, <2>4 DEF Added
      <3>2. Plain!AddRefused(h, v)
        BY <2>2, <2>3, <2>4, <3>1 DEF Plain!AddRefused, Plain!Exhausted, Held, EXHAUSTED
      <3> QED BY <1>6, <3>2
    <2>5. CASE t.result = INVALID_PARAM
      <3>1. \E u \in Held[h] : v < u
        BY <1>5, <1>7, <2>5 DEF Added
      <3>2. Plain!AddRefused(h, v)
        BY <2>2, <2>3, <2>5, <3>1 DEF Plain!AddRefused, Plain!Invalid, Held, INVALID_PARAM
      <3> QED BY <1>6, <3>2
    <2> QED BY <2>1, <2>4, <2>5
  <1> QED BY <1>8, <1>9

\* What an operation is to build of the numbers A and B.
Wanted(op, A, B) ==
  CASE op = "and"    -> A \cap B
    [] op = "or"     -> A \cup B
    [] op = "andnot" -> A \ B
    [] OTHER         -> A

\* A cut to a range is what the range holds; nothing, when it is empty.
LEMMA CutIs ==
  ASSUME NEW T \in SUBSET Nat, NEW r \in Nat \X Nat
  PROVE  /\ Cut(T, r) = T \cap r[1]..r[2]
         /\ r[1] > r[2] => T \cap r[1]..r[2] = {}
  <1>1. r[1] \in Nat /\ r[2] \in Nat /\ \A v \in T : v \in Nat
    OBVIOUS
  <1>2. \A v \in T : v \in r[1]..r[2] <=> r[1] <= v /\ v <= r[2]
    BY <1>1
  <1>3. \A v : v \in Cut(T, r) <=> v \in T /\ r[1] <= v /\ v <= r[2]
    BY DEF Cut
  <1>4. \A v : v \in Cut(T, r) <=> v \in T \cap r[1]..r[2]
    BY <1>2, <1>3
  <1>5. r[1] > r[2] => T \cap r[1]..r[2] = {}
    BY <1>1
  <1> QED BY <1>4, <1>5

\* The numbers of two sets put together.
LEMMA WantedIs ==
  ASSUME NEW op, NEW A \in SUBSET Nat, NEW B \in SUBSET Nat
  PROVE  Wanted(op, A, B) \in SUBSET Nat
  BY DEF Wanted

\* An operation finishes what it is to build, or nothing.
LEMMA OperationIs ==
  ASSUME RoaringInv, NEW c \in Handles \X Handles \X Handles, sets[c[1]] = Zeroed,
         NEW r \in Nat \X Nat, NEW left \in Int, NEW op,
         NEW A, A = Contents(sets[c[2]]), NEW B, B = Contents(sets[c[3]]),
         NEW t, t = Operation(op, c, r, left)
  PROVE  Finished(t, OfOthers(sets, lent, c[1]), Wanted(op, A, B) \cap r[1]..r[2])
  <1> DEFINE h == c[1]
             a == sets[c[2]]
             b == sets[c[3]]
             s == Step(sets[h], lent, left)
             base == OfOthers(sets, lent, h)
             W == Wanted(op, A, B)
  <1>1. h \in Handles /\ c[2] \in Handles /\ c[3] \in Handles
    OBVIOUS
  <1>2. IsGood(a) /\ IsGood(b)
    BY <1>1 DEF RoaringInv, InOrder
  <1>3. Working(s, base) /\ s.result = SUCCESS /\ s.set = Zeroed
    <2>1. InOrder(sets, lent) /\ sets[h] = Zeroed
      BY DEF RoaringInv
    <2>2. s = Step(sets[h], lent, left)
      OBVIOUS
    <2> HIDE DEF s, h
    <2> QED BY <1>1, <2>1, <2>2, StartIs
  <1>4. A \in SUBSET Nat /\ B \in SUBSET Nat /\ W \in SUBSET Nat
    <2>1. A \in SUBSET Nat /\ B \in SUBSET Nat
      BY <1>2, GoodIs DEF IsCounted
    <2> QED BY <2>1, WantedIs
  <1>5. Cut(W, r) = W \cap r[1]..r[2] /\ (r[1] > r[2] => W \cap r[1]..r[2] = {})
    <2> HIDE DEF W
    <2> QED BY <1>4, CutIs
  <1>6. SUFFICES Finished(t, base, Cut(W, r))
    BY <1>5
  <1>7. t = IF r[1] > r[2] THEN s
            ELSE CASE op = "and"    -> arnm_roaring_and(s, a, b, r)
                   [] op = "or"     -> arnm_roaring_or(s, a, b, r)
                   [] op = "andnot" -> arnm_roaring_andnot(s, a, b, r)
                   [] OTHER         -> arnm_roaring_copy_range(s, a, r)
    BY DEF Operation
  <1> HIDE DEF s, base, a, b
  <1>8. CASE r[1] > r[2]
    <2>1. t = s
      BY <1>7, <1>8
    <2>2. Contents(s.set) = {} /\ Cut(W, r) = {}
      BY <1>3, <1>5, <1>8, EmptyContents
    <2> QED BY <1>3, <2>1, <2>2 DEF Finished
  <1>9. CASE ~(r[1] > r[2])
    <2>1. CASE op = "and"
      <3>1. t = arnm_roaring_and(s, a, b, r)
        BY <1>7, <1>9, <2>1
      <3>2. W = A \cap B
        BY <2>1 DEF Wanted
      <3> QED BY <1>2, <1>3, <3>1, <3>2, AndCallIs DEF a, b
    <2>2. CASE op = "or"
      <3>1. t = arnm_roaring_or(s, a, b, r)
        BY <1>7, <1>9, <2>2
      <3>2. W = A \cup B
        BY <2>2 DEF Wanted
      <3> QED BY <1>2, <1>3, <3>1, <3>2, OrCallIs DEF a, b
    <2>3. CASE op = "andnot"
      <3>1. t = arnm_roaring_andnot(s, a, b, r)
        BY <1>7, <1>9, <2>3
      <3>2. W = A \ B
        BY <2>3 DEF Wanted
      <3> QED BY <1>2, <1>3, <3>1, <3>2, AndnotCallIs DEF a, b
    <2>4. CASE op \notin {"and", "or", "andnot"}
      <3>1. t = arnm_roaring_copy_range(s, a, r)
        BY <1>7, <1>9, <2>4
      <3>2. W = A
        BY <2>4 DEF Wanted
      <3> QED BY <1>2, <1>3, <3>1, <3>2, CopyCallIs DEF a
    <2> QED BY <2>1, <2>2, <2>3, <2>4
  <1> QED BY <1>8, <1>9

\* An operation is asked for where plain sets would take it.
LEMMA CheckIs ==
  ASSUME RoaringInv, NEW c \in Calls
  PROVE  /\ check_operation(c) \in {SUCCESS, INVALID_PARAM}
         /\ check_operation(c) = SUCCESS <=> Plain!Fillable(c)
         /\ Plain!Fillable(c) => sets[c[1]] = Zeroed
  <1> DEFINE set == sets[c[1]]
  <1>1. c[1] \in Handles
    BY OpsAssumption
  <1>2. IsGood(set)
    BY <1>1 DEF RoaringInv, InOrder
  <1>3. /\ set \in SetRecords /\ set.cardinality \in Nat /\ (set.block <=> set.cardinality > 0)
        /\ (set.cardinality = 0 <=> set = Zeroed) /\ (Contents(set) = {} <=> set = Zeroed)
    <2> HIDE DEF set
    <2> QED BY <1>2, GoodIs, Fields
  <1>4. (set.block \/ set.cardinality > 0) <=> set # Zeroed
    <2> HIDE DEF set
    <2> QED BY <1>3
  <1>5. Held[c[1]] = Contents(set)
    BY <1>1 DEF Held
  <1>6. Plain!Fillable(c) <=> c[1] \notin {c[2], c[3]} /\ Held[c[1]] = {}
    BY DEF Plain!Fillable, Held
  <1>7. Plain!Fillable(c) <=> c[1] \notin {c[2], c[3]} /\ set = Zeroed
    BY <1>3, <1>5, <1>6
  <1>8. check_operation(c) = IF c[1] \in {c[2], c[3]} \/ set.block \/ set.cardinality > 0
                             THEN INVALID_PARAM ELSE SUCCESS
    BY DEF check_operation
  <1> HIDE DEF set
  <1>9. check_operation(c) \in {SUCCESS, INVALID_PARAM}
    BY <1>8
  <1>10. check_operation(c) = SUCCESS <=> ~(c[1] \in {c[2], c[3]} \/ set # Zeroed)
    BY <1>4, <1>8, ResultsDiffer
  <1>11. check_operation(c) = SUCCESS <=> Plain!Fillable(c)
    BY <1>7, <1>10
  <1>12. Plain!Fillable(c) => sets[c[1]] = Zeroed
    BY <1>7 DEF set
  <1> QED BY <1>9, <1>11, <1>12

\* An operation that is not taken changes nothing.
LEMMA CombineRefusedStep ==
  ASSUME RoaringInv, NEW c \in Calls, CombineRefused(c)
  PROVE  RoaringInv' /\ ~Plain!Fillable(c) /\ Plain!Invalid
  <1>1. /\ answer' = <<check_operation(c)>> /\ sets' = sets /\ lent' = lent
        /\ check_operation(c) # SUCCESS
    BY DEF CombineRefused
  <1>2. check_operation(c) = INVALID_PARAM /\ ~Plain!Fillable(c)
    BY <1>1, CheckIs
  <1>3. RoaringInv'
    BY <1>1 DEF RoaringInv
  <1>4. Held' = Held
    BY <1>1 DEF Held
  <1> QED BY <1>1, <1>2, <1>3, <1>4 DEF Plain!Invalid, Held, INVALID_PARAM

\* One that is taken fills its set, or leaves it empty when the pool refuses.
LEMMA CombineStep ==
  ASSUME RoaringInv, NEW c \in Calls, NEW r \in Ranges, NEW op \in {"and", "or", "andnot", "copy"},
         Combine(op, c, r)
  PROVE  RoaringInv' /\ Plain!Fillable(c) /\ (Plain!Exhausted \/ Plain!Combine(op, c, r))
  <1> DEFINE h == c[1]
             base == OfOthers(sets, lent, h)
             A == Contents(sets[c[2]])
             B == Contents(sets[c[3]])
             W == Wanted(op, A, B) \cap r[1]..r[2]
  <1>1. PICK left \in Budgets : Done(h, Operation(op, c, r, left), <<op, c, r>>)
    BY DEF Combine
  <1> DEFINE t == Operation(op, c, r, left)
  <1>2. /\ c \in Handles \X Handles \X Handles /\ r \in Nat \X Nat /\ left \in Int
        /\ h \in Handles /\ c[2] \in Handles /\ c[3] \in Handles
    BY OpsAssumption
  <1>3. Plain!Fillable(c) /\ sets[h] = Zeroed
    BY CheckIs DEF Combine
  <1>4. /\ sets' = [sets EXCEPT ![h] = t.set] /\ lent' = t.pool.lent
        /\ answer' = IF t.result = SUCCESS THEN <<op, c, r>> ELSE <<t.result>>
    BY <1>1 DEF Done
  <1>5. Finished(t, base, W)
    BY <1>2, <1>3, OperationIs
  <1> HIDE DEF t, base, W
  <1>6. RoaringInv' /\ Held' = [Held EXCEPT ![h] = Contents(t.set)]
    <2>1. IsGood(t.set) /\ Owes(t.pool.lent, t.set, base)
      BY <1>5 DEF Finished, Working
    <2> QED BY <1>2, <1>4, <2>1, ExchangeKeeps DEF base
  <1>7. CASE t.result = SUCCESS
    <2>1. Contents(t.set) = W
      BY <1>5, <1>7 DEF Finished
    <2>2. Held' = [Held EXCEPT ![h] = W] /\ answer' = <<op, c, r>>
      BY <1>4, <1>6, <1>7, <2>1
    <2>3. Held[c[2]] = A /\ Held[c[3]] = B
      BY <1>2 DEF Held
    <2>4. W = Plain!Algebra(op, c[2], c[3]) \cap r[1]..r[2]
      <3>1. Plain!Algebra(op, c[2], c[3]) = Wanted(op, Held[c[2]], Held[c[3]])
        <4>1. CASE op = "and"
          BY <4>1 DEF Plain!Algebra, Wanted, Held
        <4>2. CASE op = "or"
          BY <4>2 DEF Plain!Algebra, Wanted, Held
        <4>3. CASE op = "andnot"
          BY <4>3 DEF Plain!Algebra, Wanted, Held
        <4>4. CASE op = "copy"
          BY <4>4 DEF Plain!Algebra, Wanted, Held
        <4> QED BY <4>1, <4>2, <4>3, <4>4
      <3> HIDE DEF A, B
      <3> QED BY <2>3, <3>1 DEF W
    <2>5. Plain!Combine(op, c, r)
      BY <1>3, <2>2, <2>4 DEF Plain!Combine, Held
    <2> QED BY <1>3, <1>6, <2>5
  <1>8. CASE t.result # SUCCESS
    <2>1. t.result = EXHAUSTED /\ t.set = Zeroed
      BY <1>5, <1>8 DEF Finished, Working
    <2>2. Held' = Held
      <3>1. Held[h] = Contents(t.set) /\ Held = [k \in Handles |-> Held[k]]
        BY <1>2, <1>3, <2>1 DEF Held
      <3> HIDE DEF h
      <3> QED BY <1>6, <3>1
    <2>3. answer' = <<EXHAUSTED>>
      BY <1>4, <1>8, <2>1
    <2>4. Plain!Exhausted
      BY <2>2, <2>3 DEF Plain!Exhausted, Held, EXHAUSTED
    <2> QED BY <1>3, <1>6, <2>4
  <1> QED BY <1>7, <1>8

\* The invariant holds after every call, and the call is one of plain sets.
LEMMA StepMaps ==
  RoaringInv /\ [RoaringNext]_roaring_vars => RoaringInv' /\ (Plain!Next \/ UNCHANGED <<Held, answer>>)
  <1> SUFFICES ASSUME RoaringInv, [RoaringNext]_roaring_vars
               PROVE  RoaringInv' /\ (Plain!Next \/ UNCHANGED <<Held, answer>>)
    OBVIOUS
  <1>1. ASSUME NEW h \in Handles, Free(h) PROVE RoaringInv' /\ Plain!Next
    <2>1. RoaringInv' /\ Plain!Free(h)
      BY <1>1, FreeSetStep
    <2> QED BY <2>1 DEF Plain!Next
  <1>2. ASSUME NEW h \in Handles, NEW v \in Offers[h], Add(h, v) PROVE RoaringInv' /\ Plain!Next
    <2>1. RoaringInv' /\ (Plain!Add(h, v) \/ Plain!AddRefused(h, v))
      BY <1>2, AddStep
    <2>2. v \in UNION {Offers[g] : g \in Handles}
      OBVIOUS
    <2> QED BY <2>1, <2>2 DEF Plain!Next
  <1>3. ASSUME NEW c \in Calls, CombineRefused(c) PROVE RoaringInv' /\ Plain!Next
    <2>1. RoaringInv' /\ ~Plain!Fillable(c) /\ Plain!Invalid
      BY <1>3, CombineRefusedStep
    <2> QED BY <2>1 DEF Plain!Next
  <1>4. ASSUME NEW c \in Calls, NEW op \in {"and", "or", "andnot", "copy"}, NEW r \in Ranges,
               Combine(op, c, r)
        PROVE  RoaringInv' /\ Plain!Next
    <2>1. RoaringInv' /\ Plain!Fillable(c) /\ (Plain!Exhausted \/ Plain!Combine(op, c, r))
      BY <1>4, CombineStep
    <2> QED BY <2>1 DEF Plain!Next
  <1>5. CASE UNCHANGED roaring_vars
    <2>1. sets' = sets /\ lent' = lent /\ answer' = answer
      BY <1>5 DEF roaring_vars
    <2>2. RoaringInv' /\ Held' = Held
      BY <2>1 DEF RoaringInv, Held
    <2> QED BY <2>1, <2>2
  <1> QED BY <1>1, <1>2, <1>3, <1>4, <1>5 DEF RoaringNext

\* However sets are added to, combined, refused in the middle and freed (arnm_roaring_add, the
\* four operations, finish, arnm_roaring_free): the form of every set holds, and the pool has lent
\* exactly the blocks that the sets name.
THEOREM BlocksAreAccounted == RoaringSpec => []BlocksAccounted
  <1>1. RoaringInit => RoaringInv
    BY InitIs
  <1>2. RoaringInv /\ [RoaringNext]_roaring_vars => RoaringInv'
    BY StepMaps
  <1>3. RoaringInv => BlocksAccounted
    BY OrderAccounts
  <1> QED BY <1>1, <1>2, <1>3, PTL DEF RoaringSpec

\* Every call on compressed sets (arnm_roaring_add, _and, _or, _andnot, _copy_range, _free) is the
\* step of plain sets of numbers that ValueSets promises: what succeeds has built its set algebra
\* cut to its range, what is refused has changed no set.
THEOREM RoaringIsValueSets == RoaringSpec => IsValueSets
  <1>1. RoaringInit => RoaringInv /\ Plain!Init
    <2>1. RoaringInit => answer = <<"freed">>
      BY DEF RoaringInit
    <2> QED BY <2>1, InitIs DEF Plain!Init, Held
  <1>2. RoaringInv /\ [RoaringNext]_roaring_vars => RoaringInv'
    BY StepMaps
  <1>3. RoaringInv /\ [RoaringNext]_roaring_vars
          => [Plain!Next]_<<[h \in Handles |-> Contents(sets[h])], answer>>
    BY StepMaps DEF Held
  <1> QED BY <1>1, <1>2, <1>3, PTL DEF RoaringSpec, IsValueSets, Plain!Spec
==============================================================================
