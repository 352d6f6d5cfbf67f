----------------------------- MODULE ArenaProofs -----------------------------
(***************************************************************************)
(* Safety of one allocator for every width, every set of host blocks, of   *)
(* sizes and of capacities: in the hands of a client that puts it through  *)
(* every mode, or shared by a JSON reader or writer and any others.        *)
(*                                                                         *)
(* Sound says what is true of a handle, of the blocks held and of the      *)
(* bytes stranded.  It is stated over explicit values, because a resize    *)
(* passes through states that are none of the system's, and the lemmas of  *)
(* the allocator's calls (AllocDone, FreeDone, ReallocDone) are all that   *)
(* the operations above it need.  JsonOK says what the holders add: that   *)
(* every block has one, what a document names between two calls of an      *)
(* operation, and what its run and the warning about it amount to.         *)
(***************************************************************************)
EXTENDS MCArena, DataLemmas, TLAPS

Multiples == {n \in 0..UINT32_MAX : n % 8 = 0}

Handle ==
  [type : {NONE, HOST, OWNED, EXTERNAL}, data : HostBlocks \cup Blobs \cup {NULL},
   last_index : Multiples, capacity : Multiples, out_of_memory_capacity : 0..UINT32_MAX]

Blocks == [data : HostBlocks \cup Blobs, off : Multiples, size : 1..UINT32_MAX]

Addresses == [data : HostBlocks \cup Blobs, off : Multiples]

\* An arena m that keeps h of the host's blocks, of which L are held and st
\* bytes are stranded.
ArenaHolds(m, h, L, st) ==
  /\ \A b \in L : /\ b.data = m.data
                  /\ Reserved(b) # 0
                  /\ b.off + Reserved(b) <= m.last_index
  /\ \A b, c \in L : b # c => ~Overlap(b, c)
  /\ m.last_index = Held(L) + st
  /\ h = IF m.type = OWNED THEN {m.data} \ {NULL} ELSE {}

\* The host's blocks h, each held under a name of its own.
HostHolds(h, L) ==
  /\ \A b \in L : b.off = 0
  /\ \A b, c \in L : b # c => b.data # c.data
  /\ h = {b.data : b \in L}

Sound(m, h, L, st) ==
  /\ m \in Handle /\ m.last_index <= m.capacity
  /\ h \subseteq HostBlocks
  /\ IsFiniteSet(L) /\ L \subseteq Blocks
  /\ st \in Nat
  /\ m.type \in {OWNED, EXTERNAL} => ArenaHolds(m, h, L, st)
  /\ m.type = HOST => HostHolds(h, L)
  /\ m.type = NONE => h = {} /\ L = {}

AllocatorOK == Sound(memory, host, live, stranded) /\ result \in Results

-----------------------------------------------------------------------------
headered == {named(a) : a \in DOMAIN header}

\* Every block is somebody's, and nobody's twice.
HoldersOK ==
  /\ memory.type \in {HOST, EXTERNAL}
  /\ live = others \cup headered \cup ({state, buffer} \ {NULL})
  /\ IsFiniteSet(DOMAIN header) /\ DOMAIN header \subseteq Addresses
  /\ others \cap headered = {}
  /\ state # NULL => state \notin others \cup headered
  /\ buffer # NULL => buffer \notin others \cup headered
  /\ state # NULL => state # buffer

Documents == [first : Addresses \cup {NULL}, strings : Seq(Addresses), values : Seq(Addresses)]

\* A document names each of its blocks once.
NamesOnce(d) ==
  /\ IsInjective(d.strings) /\ IsInjective(d.values)
  /\ Range(d.strings) \cap Range(d.values) = {}
  /\ d.first \notin Range(d.strings) \cup Range(d.values)

phases == IF role = "writer"
          THEN {"idle", "storage", "free", "document", "root", "rootless", "serialize",
                "unwritten"}
          ELSE {"idle", "storage", "free", "copy", "values", "parsing"}

successors == IF role = "writer" THEN {"idle", "storage", "document"}
              ELSE {"idle", "storage", "copy"}

\* What is held between two calls of an operation is what the operation, and
\* nothing else, knows about.
DocumentOK ==
  /\ role \in {"writer", "reader"}
  /\ phase \in phases /\ then \in successors
  /\ phase \notin {"serialize", "unwritten"} => buffer = NULL
  /\ doc \in Documents
  /\ role = "reader" => doc.values = <<>>
  /\ pending \in Seq(Addresses)
  /\ state = NULL => phase = "idle" /\ doc = NO_DOC
  /\ phase = "free" => DOMAIN header = Range(pending) /\ IsInjective(pending)
  /\ phase # "free" =>
       /\ then = "idle" /\ pending = <<>>
       /\ DOMAIN header = doc_blocks(doc) /\ NamesOnce(doc)
       /\ phase \in {"storage", "document", "copy"} => doc = NO_DOC
       /\ phase = "root" => doc.strings = <<>> /\ doc.values = <<>>
       /\ phase # "values" => doc = NO_DOC \/ doc.first # NULL
       /\ phase \in {"root", "rootless", "parsing"} => doc.first # NULL
       /\ phase = "values" => doc.first = NULL

\* The run of a writer's document is the sum of its blocks, which start at its
\* first; and where it is let go block by block it was no run.
RunOK ==
  /\ context \in [kept : BOOLEAN, broken : BOOLEAN, span : Multiples]
  /\ role = "writer" =>
       /\ is_arena => ~context.broken
       /\ phase # "free" /\ ~context.broken => context.span = Held(headered)
       /\ is_arena /\ phase # "free" => \A a \in DOMAIN header : a.off >= doc.first.off
       /\ phase = "free" =>
            /\ Len(pending) <= Len(in_release_order(doc))
            /\ is_arena /\ Len(pending) = Len(in_release_order(doc))
                 => memory.last_index # doc.first.off + Held(headered)

told == stranded >= kept_before /\ (answer = NOT_RECLAIMED <=> stranded > kept_before)

\* The bytes stranded since an answer was begun are what the warning is about.
AnswerOK ==
  /\ kept_before \in Nat
  /\ answer # NULL =>
       /\ phase \in {"idle", "storage", "document", "copy"} => told
       /\ phase = "free" => /\ answer = SUCCESS /\ stranded >= kept_before
                            /\ context.kept <=> stranded > kept_before
  /\ phase \notin {"idle", "storage", "document", "copy", "free"} => answer = NULL
  /\ phase = "storage" \/ (phase = "free" /\ then = "storage") => answer # NULL

JsonOK == HoldersOK /\ DocumentOK /\ RunOK /\ AnswerOK

ClientOK == \A b \in live : b.size \in Sizes

IInv ==
  /\ AllocatorOK
  /\ role = "client" => ClientOK /\ answer = NULL
  /\ role # "client" => JsonOK

-----------------------------------------------------------------------------
(* Rounding and sums.                                                      *)

\* arnm_align8_u32 returns a multiple of 8 inside the width that holds the size.
LEMMA AlignLemma ==
  ASSUME NEW s \in 0..UINT32_MAX
  PROVE  /\ arnm_align8_u32(s) \in Multiples
         /\ s <= ARNM_MAX_ALLOC_SIZE => arnm_align8_u32(s) >= s
         /\ s \in Multiples => arnm_align8_u32(s) = s
  BY WidthAssumption DEF arnm_align8_u32, Multiples, ARNM_MAX_ALLOC_SIZE

\* What a block takes, and where it is, are multiples of 8.
LEMMA BlockLemma ==
  ASSUME NEW b \in Blocks
  PROVE  /\ Reserved(b) \in Multiples /\ Reserved(b) \in Nat
         /\ b.off \in Multiples /\ b.off \in Nat
  <1>1. b.size \in 0..UINT32_MAX /\ b.off \in Multiples
    BY DEF Blocks
  <1> QED BY <1>1, AlignLemma DEF Reserved, Multiples

\* The sum over the blocks held follows each block that comes or goes.
LEMMA HeldLemma ==
  ASSUME NEW L, IsFiniteSet(L), L \subseteq Blocks
  PROVE  /\ Held(L) \in Nat
         /\ L = {} => Held(L) = 0
         /\ \A b \in L : Held(L \ {b}) = Held(L) - Reserved(b)
         /\ \A b \in Blocks \ L : Held(L \cup {b}) = Held(L) + Reserved(b)
  <1>1. ASSUME NEW M, IsFiniteSet(M), M \subseteq Blocks
        PROVE  /\ Held(M) \in Nat
               /\ M = {} => Held(M) = 0
               /\ \A b \in M : Held(M) = Reserved(b) + Held(M \ {b})
    <2> DEFINE w == [b \in M |-> Reserved(b)]
    <2>1. w \in [M -> Nat] /\ w \in [M -> Int]
      BY <1>1, BlockLemma
    <2>2. Held(M) \in Nat /\ (M = {} => Held(M) = 0)
      <3> HIDE DEF w
      <3>1. Held(M) = SumFunctionOnSet(w, M)
        BY DEF Held, w
      <3> QED BY <1>1, <2>1, <3>1, SumNat, SumTotal
    <2>3. ASSUME NEW b \in M PROVE Held(M) = Reserved(b) + Held(M \ {b})
      <3> DEFINE v == [x \in M \ {b} |-> Reserved(x)]
      <3>1. IsFiniteSet(M \ {b}) /\ M \ {b} \in SUBSET M
        BY <1>1, FS_RemoveElement
      <3>2. \A x \in M \ {b} : v[x] = w[x] /\ v[x] \in Int
        BY <2>1
      <3>3. SumFunctionOnSet(v, M \ {b}) = SumFunctionOnSet(w, M \ {b})
        <4> HIDE DEF v, w
        <4> QED BY <3>1, <3>2, SumAgrees
      <3>4. SumFunctionOnSet(w, M) = w[b] + SumFunctionOnSet(w, M \ {b})
        <4> HIDE DEF w
        <4>1. M \in SUBSET M
          OBVIOUS
        <4> QED BY <1>1, <2>1, <4>1, SumTotal
      <3>5. w[b] = Reserved(b)
        OBVIOUS
      <3> QED BY <3>3, <3>4, <3>5 DEF Held
    <2> QED BY <2>2, <2>3
  <1>2. ASSUME NEW b \in L PROVE Held(L \ {b}) = Held(L) - Reserved(b)
    <2>1. IsFiniteSet(L \ {b}) /\ L \ {b} \subseteq Blocks
      BY FS_RemoveElement
    <2>2. Held(L \ {b}) \in Nat /\ Held(L) \in Nat /\ Reserved(b) \in Nat
      BY <1>1, <2>1, BlockLemma
    <2>3. Held(L) = Reserved(b) + Held(L \ {b})
      BY <1>1
    <2> QED BY <2>2, <2>3
  <1>3. ASSUME NEW b \in Blocks \ L PROVE Held(L \cup {b}) = Held(L) + Reserved(b)
    <2>1. IsFiniteSet(L \cup {b}) /\ L \cup {b} \subseteq Blocks /\ (L \cup {b}) \ {b} = L
      BY FS_AddElement
    <2>2. Held(L) \in Nat /\ Reserved(b) \in Nat
      BY <1>1, BlockLemma
    <2>3. Held(L \cup {b}) = Reserved(b) + Held((L \cup {b}) \ {b})
      BY <1>1, <2>1
    <2>4. Held((L \cup {b}) \ {b}) = Held(L)
      BY <2>1, Zenon
    <2> QED BY <2>2, <2>3, <2>4
  <1> QED BY <1>1, <1>2, <1>3

-----------------------------------------------------------------------------
(* What the calls of the allocator are made of.                            *)

\* A block carved from the end of an arena with room for it is new, at an
\* address of its own, and shares no byte.
LEMMA BumpSound ==
  ASSUME NEW m, NEW h, NEW L, NEW st, Sound(m, h, L, st),
         m.type \in {OWNED, EXTERNAL}, m.data # NULL,
         NEW size \in 1..UINT32_MAX, arnm_align8_u32(size) # 0,
         remaining_bytes(m) >= arnm_align8_u32(size)
  PROVE  LET b == Block(m.data, m.last_index, size) IN
         /\ b \in Blocks \ L
         /\ \A c \in L : address(c) # address(b)
         /\ Sound(bump(m, arnm_align8_u32(size)), h, L \cup {b}, st)
  <1> DEFINE b == Block(m.data, m.last_index, size)
             n == arnm_align8_u32(size)
             a == [m EXCEPT !.last_index = @ + n]
  <1>1. m \in Handle /\ ArenaHolds(m, h, L, st) /\ IsFiniteSet(L) /\ L \subseteq Blocks
    BY DEF Sound
  <1>2. /\ m.last_index \in Multiples /\ m.capacity \in Multiples
        /\ m.last_index \in Nat /\ m.data \in HostBlocks \cup Blobs
    BY <1>1 DEF Handle, Multiples
  <1>3. /\ b.data = m.data /\ b.off = m.last_index /\ b.size = size
        /\ b \in Blocks /\ Reserved(b) = n /\ n \in Multiples /\ n \in Nat \ {0}
    BY <1>2, AlignLemma DEF Block, Blocks, Reserved, Multiples
  <1>4. a.last_index = m.last_index + n /\ a.data = m.data /\ a.type = m.type
        /\ a.capacity = m.capacity /\ a \in Handle /\ a.last_index <= a.capacity
    <2>1. a.last_index = m.last_index + n /\ a.data = m.data /\ a.type = m.type
          /\ a.capacity = m.capacity
      BY <1>1 DEF Handle
    <2>2. m.last_index + n \in Multiples /\ m.last_index + n <= m.capacity
      <3>1. m.last_index + n <= m.capacity
        <4>1. remaining_bytes(m) >= n
          OBVIOUS
        <4> HIDE DEF n
        <4> QED BY <1>2, <1>3, <4>1 DEF Multiples, remaining_bytes
      <3> HIDE DEF n
      <3> QED BY <1>2, <1>3, <3>1, WidthAssumption DEF Multiples
    <2>3. a \in Handle
      BY <1>1, <2>2 DEF Handle
    <2> QED BY <2>1, <2>2, <2>3
  <1>5. ASSUME NEW c \in L
        PROVE  /\ c.data = m.data /\ Reserved(c) # 0
               /\ c.off \in Nat /\ Reserved(c) \in Nat
               /\ c.off + Reserved(c) <= m.last_index
    BY <1>1, BlockLemma DEF ArenaHolds
  <1>6. ASSUME NEW c \in L
        PROVE  /\ c.off # b.off /\ ~Overlap(b, c) /\ ~Overlap(c, b)
               /\ c.off + Reserved(c) <= a.last_index
    <2> HIDE DEF a, b, n
    <2> QED BY <1>2, <1>3, <1>4, <1>5 DEF Overlap
  <1>7. b \notin L /\ \A c \in L : address(c) # address(b)
    <2> HIDE DEF b
    <2> QED BY <1>6 DEF address
  <1>8. ArenaHolds(a, h, L \cup {b}, st)
    <2>1. a.last_index = Held(L \cup {b}) + st
      <3>1. Held(L \cup {b}) = Held(L) + n /\ Held(L) \in Nat
        <4> HIDE DEF b, n
        <4> QED BY <1>1, <1>3, <1>7, HeldLemma
      <3>2. m.last_index = Held(L) + st /\ st \in Nat
        BY <1>1 DEF ArenaHolds, Sound
      <3> HIDE DEF a, b, n
      <3> QED BY <1>3, <1>4, <3>1, <3>2
    <2>2. \A c \in L \cup {b} : /\ c.data = a.data /\ Reserved(c) # 0
                                /\ c.off + Reserved(c) <= a.last_index
      <3>1. b.off + n <= a.last_index
        <4> HIDE DEF a, b, n
        <4> QED BY <1>2, <1>3, <1>4
      <3> HIDE DEF a, b, n
      <3> QED BY <1>3, <1>4, <1>5, <1>6, <3>1
    <2>3. \A c, d \in L \cup {b} : c # d => ~Overlap(c, d)
      <3> HIDE DEF a, b, n
      <3> QED BY <1>1, <1>6 DEF ArenaHolds
    <2>4. h = IF a.type = OWNED THEN {a.data} \ {NULL} ELSE {}
      <3> HIDE DEF a
      <3> QED BY <1>1, <1>4 DEF ArenaHolds
    <2> HIDE DEF a, b
    <2> QED BY <2>1, <2>2, <2>3, <2>4 DEF ArenaHolds
  <1>9. IsFiniteSet(L \cup {b})
    BY <1>1, FS_AddElement
  <1>10. Sound(a, h, L \cup {b}, st)
    <2> HIDE DEF a, b
    <2> QED BY <1>1, <1>3, <1>4, <1>8, <1>9 DEF Sound, HOST, OWNED, EXTERNAL, NONE
  <1> QED BY <1>3, <1>7, <1>10 DEF bump

\* Bytes nobody holds any more are stranded.
LEMMA ForgetSound ==
  ASSUME NEW m, NEW h, NEW L, NEW st, Sound(m, h, L, st),
         m.type \in {OWNED, EXTERNAL}, NEW b \in L
  PROVE  Sound(m, h, L \ {b}, st + Reserved(b))
  <1>1. ArenaHolds(m, h, L, st) /\ IsFiniteSet(L) /\ L \subseteq Blocks /\ st \in Nat
    BY DEF Sound
  <1>2. Reserved(b) \in Nat
    BY <1>1, BlockLemma
  <1>3. m.last_index = Held(L \ {b}) + (st + Reserved(b))
    <2>1. Held(L \ {b}) = Held(L) - Reserved(b) /\ Held(L) \in Nat
      BY <1>1, HeldLemma
    <2>2. m.last_index = Held(L) + st
      BY <1>1 DEF ArenaHolds
    <2> QED BY <1>1, <1>2, <2>1, <2>2
  <1>4. ArenaHolds(m, h, L \ {b}, st + Reserved(b))
    BY <1>1, <1>3 DEF ArenaHolds
  <1>5. IsFiniteSet(L \ {b}) /\ st + Reserved(b) \in Nat
    BY <1>1, <1>2, FS_RemoveElement
  <1> QED BY <1>1, <1>4, <1>5 DEF Sound, HOST, OWNED, EXTERNAL, NONE

\* A block handed back from the end of an arena takes no other with it.
LEMMA TailSound ==
  ASSUME NEW m, NEW h, NEW L, NEW st, Sound(m, h, L, st),
         m.type \in {OWNED, EXTERNAL}, NEW b \in L,
         is_single_arena_reclaimable(b, Reserved(b), m)
  PROVE  Sound(bump(m, -Reserved(b)), h, L \ {b}, st)
  <1> DEFINE n == Reserved(b)
             a == [m EXCEPT !.last_index = @ + (-n)]
  <1>1. /\ m \in Handle /\ ArenaHolds(m, h, L, st) /\ IsFiniteSet(L) /\ L \subseteq Blocks
        /\ m.last_index <= m.capacity /\ st \in Nat
    BY DEF Sound
  <1>2. /\ m.last_index \in Multiples /\ m.capacity \in Multiples
        /\ m.last_index \in Nat /\ m.capacity \in Nat
    BY <1>1 DEF Handle, Multiples
  <1>3. n \in Multiples /\ n \in Nat /\ b.off \in Multiples /\ b.off \in Nat
    BY <1>1, BlockLemma
  <1>4. b.data = m.data /\ m.last_index = b.off + n /\ m.last_index + (-n) = b.off
    BY <1>2, <1>3 DEF is_single_arena_reclaimable
  <1>5. a.last_index = b.off /\ a.data = m.data /\ a.type = m.type
        /\ a.capacity = m.capacity /\ a \in Handle /\ a.last_index <= a.capacity
    <2>1. a.last_index = b.off /\ a.data = m.data /\ a.type = m.type
          /\ a.capacity = m.capacity /\ a \in Handle
      BY <1>1, <1>3, <1>4 DEF Handle
    <2>2. b.off <= m.capacity
      BY <1>1, <1>2, <1>3, <1>4
    <2> QED BY <2>1, <2>2
  <1>6. ASSUME NEW c \in L \ {b}
        PROVE  c.off + Reserved(c) <= b.off
    <2>1. /\ c.data = m.data /\ Reserved(c) # 0 /\ c.off + Reserved(c) <= m.last_index
          /\ ~Overlap(c, b)
      BY <1>1 DEF ArenaHolds
    <2>2. c.off \in Nat /\ Reserved(c) \in Nat
      BY <1>1, BlockLemma
    <2>3. ~(c.off < b.off + n /\ b.off < c.off + Reserved(c))
      BY <1>4, <2>1 DEF Overlap
    <2> HIDE DEF n
    <2> QED BY <1>3, <1>4, <2>1, <2>2, <2>3
  <1>7. ArenaHolds(a, h, L \ {b}, st)
    <2>1. a.last_index = Held(L \ {b}) + st
      <3>1. Held(L \ {b}) = Held(L) - n /\ Held(L) \in Nat
        BY <1>1, HeldLemma
      <3>2. m.last_index = Held(L) + st
        BY <1>1 DEF ArenaHolds
      <3> HIDE DEF a, n
      <3> QED BY <1>1, <1>2, <1>3, <1>4, <1>5, <3>1, <3>2
    <2> HIDE DEF a
    <2> QED BY <1>1, <1>5, <1>6, <2>1 DEF ArenaHolds
  <1>8. IsFiniteSet(L \ {b})
    BY <1>1, FS_RemoveElement
  <1>9. Sound(a, h, L \ {b}, st)
    <2>1. h \subseteq HostBlocks
      BY DEF Sound
    <2> HIDE DEF a
    <2> QED BY <1>1, <1>5, <1>7, <1>8, <2>1 DEF Sound, HOST, OWNED, EXTERNAL, NONE
  <1> QED BY <1>9 DEF bump

\* A smaller size for a block that is not the tail strands the difference.
LEMMA TrimSound ==
  ASSUME NEW m, NEW h, NEW L, NEW st, Sound(m, h, L, st),
         m.type \in {OWNED, EXTERNAL}, NEW b \in L,
         NEW size \in 1..UINT32_MAX, arnm_align8_u32(size) # 0,
         arnm_align8_u32(size) <= Reserved(b), size # b.size
  PROVE  LET c == [b EXCEPT !.size = size] IN
         /\ c \in Blocks \ L
         /\ Sound(m, h, (L \ {b}) \cup {c}, st + (Reserved(b) - arnm_align8_u32(size)))
  <1> DEFINE c == [b EXCEPT !.size = size]
             n == arnm_align8_u32(size)
             M == (L \ {b}) \cup {c}
             t == st + (Reserved(b) - n)
  <1>1. ArenaHolds(m, h, L, st) /\ IsFiniteSet(L) /\ L \subseteq Blocks /\ st \in Nat
    BY DEF Sound
  <1>2. /\ c \in Blocks /\ c.data = b.data /\ c.off = b.off /\ c.size = size
        /\ Reserved(c) = n
    BY <1>1 DEF Blocks, Reserved
  <1>3. \A d \in L : /\ d.data = m.data /\ Reserved(d) # 0 /\ Reserved(d) \in Nat
                     /\ d.off \in Nat /\ d.off + Reserved(d) <= m.last_index
    BY <1>1, BlockLemma DEF ArenaHolds
  <1>4. n \in Nat /\ n # 0 /\ n <= Reserved(b) /\ m.last_index \in Nat
    <2>1. n \in Nat
      BY AlignLemma DEF Multiples
    <2>2. m.last_index \in Nat
      BY DEF Sound, Handle, Multiples
    <2> QED BY <2>1, <2>2
  <1>5. ASSUME NEW d \in L \ {b} PROVE ~Overlap(d, c) /\ ~Overlap(c, d) /\ c # d
    <2>1. ~Overlap(d, b) /\ ~Overlap(b, d)
      BY <1>1 DEF ArenaHolds
    <2>2. ~Overlap(d, c) /\ ~Overlap(c, d)
      <3> HIDE DEF c, n
      <3> QED BY <1>2, <1>3, <1>4, <2>1 DEF Overlap
    <2>3. c # d
      <3>1. c.off = b.off /\ c.data = b.data
        BY <1>2
      <3> HIDE DEF c
      <3> QED BY <1>3, <2>1, <3>1 DEF Overlap
    <2> QED BY <2>2, <2>3
  <1>6. c \notin L
    <2>1. c # b
      BY <1>2
    <2> HIDE DEF c
    <2> QED BY <1>5, <2>1
  <1>7. m.last_index = Held(M) + t
    <2>1. Held(L \ {b}) = Held(L) - Reserved(b) /\ Held(L) \in Nat
      BY <1>1, HeldLemma
    <2>2. IsFiniteSet(L \ {b}) /\ L \ {b} \subseteq Blocks
      BY <1>1, FS_RemoveElement
    <2>3. Held(M) = Held(L \ {b}) + n
      <3>1. c \in Blocks \ (L \ {b})
        BY <1>2, <1>6
      <3> HIDE DEF c, n
      <3> QED BY <1>2, <2>2, <3>1, HeldLemma
    <2>4. m.last_index = Held(L) + st
      BY <1>1 DEF ArenaHolds
    <2>5. Reserved(b) \in Nat
      BY <1>3
    <2> HIDE DEF M, n
    <2> QED BY <1>1, <1>4, <2>1, <2>3, <2>4, <2>5
  <1>8. ArenaHolds(m, h, M, t)
    <2>1. \A d \in M : /\ d.data = m.data /\ Reserved(d) # 0
                       /\ d.off + Reserved(d) <= m.last_index
      <3>1. c.off + Reserved(c) <= m.last_index
        <4> HIDE DEF c, n
        <4> QED BY <1>2, <1>3, <1>4
      <3> HIDE DEF c, n
      <3> QED BY <1>2, <1>3, <1>4, <3>1
    <2>2. \A d, e \in M : d # e => ~Overlap(d, e)
      <3> HIDE DEF c
      <3> QED BY <1>1, <1>5 DEF ArenaHolds
    <2>3. h = IF m.type = OWNED THEN {m.data} \ {NULL} ELSE {}
      BY <1>1 DEF ArenaHolds
    <2> HIDE DEF M, t
    <2> QED BY <1>7, <2>1, <2>2, <2>3 DEF ArenaHolds
  <1>9. IsFiniteSet(M) /\ M \subseteq Blocks
    BY <1>1, <1>2, FS_RemoveElement, FS_AddElement
  <1>10. t \in Nat
    <2>1. Reserved(b) \in Nat
      BY <1>3
    <2> HIDE DEF n
    <2> QED BY <1>1, <1>4, <2>1
  <1>11. Sound(m, h, M, t)
    <2> HIDE DEF M, t
    <2> QED BY <1>8, <1>9, <1>10 DEF Sound, HOST, OWNED, EXTERNAL, NONE
  <1> QED BY <1>2, <1>6, <1>11

\* Only what a refused request is told about changes.
LEMMA AccountSound ==
  ASSUME NEW m, NEW h, NEW L, NEW st, Sound(m, h, L, st), NEW n \in Nat
  PROVE  /\ Sound(account_capacity_exceeded(n, m), h, L, st)
         /\ account_capacity_exceeded(n, m).type = m.type
         /\ account_capacity_exceeded(n, m).data = m.data
         /\ account_capacity_exceeded(n, m).last_index = m.last_index
  <1> DEFINE o == IF m.out_of_memory_capacity + n > UINT32_MAX THEN UINT32_MAX
                  ELSE m.out_of_memory_capacity + n
             a == [m EXCEPT !.out_of_memory_capacity = o]
  <1>1. m \in Handle
    BY DEF Sound
  <1>2. o \in 0..UINT32_MAX
    <2>1. m.out_of_memory_capacity \in 0..UINT32_MAX
      BY <1>1 DEF Handle
    <2> QED BY <2>1, WidthAssumption
  <1>3. /\ a \in Handle /\ a.type = m.type /\ a.data = m.data /\ a.capacity = m.capacity
        /\ a.last_index = m.last_index
    <2> HIDE DEF o
    <2> QED BY <1>1, <1>2 DEF Handle
  <1>4. a = account_capacity_exceeded(n, m)
    BY DEF account_capacity_exceeded
  <1>5. Sound(a, h, L, st)
    <2> HIDE DEF a
    <2> QED BY <1>3 DEF Sound, ArenaHolds
  <1> HIDE DEF a
  <1> QED BY <1>3, <1>4, <1>5

\* A block of the host's is new, and the only one under its name.
LEMMA HostTakes ==
  ASSUME NEW m, NEW h, NEW L, NEW st, Sound(m, h, L, st), m.type = HOST,
         NEW size \in 1..UINT32_MAX, NEW d \in HostBlocks \ h
  PROVE  LET b == Block(d, 0, size) IN
         /\ b \in Blocks \ L
         /\ \A c \in L : address(c) # address(b)
         /\ Sound(m, h \cup {d}, L \cup {b}, st)
  <1> DEFINE b == Block(d, 0, size)
  <1>1. HostHolds(h, L) /\ IsFiniteSet(L) /\ L \subseteq Blocks /\ h \subseteq HostBlocks
    BY DEF Sound
  <1>2. b \in Blocks /\ b.data = d /\ b.off = 0
    BY WidthAssumption DEF Block, Blocks, Multiples
  <1>3. \A c \in L : c.data # d
    BY <1>1 DEF HostHolds
  <1>4. b \notin L /\ \A c \in L : address(c) # address(b)
    <2> HIDE DEF b
    <2> QED BY <1>2, <1>3 DEF address
  <1>5. HostHolds(h \cup {d}, L \cup {b})
    <2> HIDE DEF b
    <2> QED BY <1>1, <1>2, <1>3 DEF HostHolds
  <1>6. IsFiniteSet(L \cup {b})
    BY <1>1, FS_AddElement
  <1>7. Sound(m, h \cup {d}, L \cup {b}, st)
    <2> HIDE DEF b
    <2> QED BY <1>1, <1>2, <1>5, <1>6 DEF Sound, HOST, OWNED, EXTERNAL, NONE
  <1> QED BY <1>2, <1>4, <1>7

\* The host gets back the one block under the name.
LEMMA HostGives ==
  ASSUME NEW m, NEW h, NEW L, NEW st, Sound(m, h, L, st), m.type = HOST, NEW b \in L
  PROVE  Sound(m, h \ {b.data}, L \ {b}, st)
  <1>1. HostHolds(h, L) /\ IsFiniteSet(L) /\ L \subseteq Blocks /\ h \subseteq HostBlocks
    BY DEF Sound
  <1>2. HostHolds(h \ {b.data}, L \ {b})
    BY <1>1 DEF HostHolds
  <1>3. IsFiniteSet(L \ {b})
    BY <1>1, FS_RemoveElement
  <1> QED BY <1>1, <1>2, <1>3 DEF Sound, HOST, OWNED, EXTERNAL, NONE

-----------------------------------------------------------------------------
(* What the calls of the allocator answer.                                 *)

\* Two blocks are never at one address.
LEMMA AddressesApart ==
  ASSUME NEW m, NEW h, NEW L, NEW st, Sound(m, h, L, st), NEW b \in L, NEW c \in L, b # c
  PROVE  address(b) # address(c)
  <1>1. m.type \in {NONE, HOST, OWNED, EXTERNAL} /\ b \in Blocks /\ c \in Blocks
    BY DEF Sound, Handle
  <1>2. CASE m.type \in {OWNED, EXTERNAL}
    <2>1. ~Overlap(b, c) /\ Reserved(b) # 0 /\ Reserved(c) # 0
      BY <1>2 DEF Sound, ArenaHolds
    <2>2. b.off \in Nat /\ Reserved(b) \in Nat /\ Reserved(c) \in Nat
      BY <1>1, BlockLemma
    <2> QED BY <2>1, <2>2 DEF Overlap, address
  <1>3. CASE m.type = HOST
    BY <1>3 DEF Sound, HostHolds, address
  <1>4. m.type # NONE
    BY DEF Sound
  <1> QED BY <1>1, <1>2, <1>3, <1>4

Stays == memory'.type = memory.type /\ memory'.data = memory.data

\* The block c comes in the place of the blocks of gone.
Takes(c, gone) ==
  /\ c \in Blocks \ live
  /\ live' = (live \ gone) \cup {c}
  /\ \A d \in live \ gone : address(d) # address(c)

\* Nothing but the answer and a counter of the handle changed.
LEMMA RefuseStep ==
  ASSUME AllocatorOK, NEW r \in Results, Refuse(r)
  PROVE  AllocatorOK' /\ Stays /\ live' = live /\ stranded' = stranded
         /\ memory' = memory /\ host' = host /\ result' = r
  BY DEF AllocatorOK, Refuse, Stays

\* The results are what they are called.
LEMMA ResultsApart ==
  /\ {SUCCESS, NOT_RECLAIMED, INVALID_PARAM, INVALID_STATE, OVERFLOW, OUT_OF_MEMORY}
       \subseteq Results
  /\ \A r \in {NOT_RECLAIMED, INVALID_PARAM, INVALID_STATE, OVERFLOW, OUT_OF_MEMORY} :
       r # SUCCESS
  /\ \A r \in {INVALID_PARAM, INVALID_STATE, OVERFLOW, OUT_OF_MEMORY} : r # NOT_RECLAIMED
  BY DEF Results, SUCCESS, NOT_RECLAIMED, INVALID_PARAM, INVALID_STATE, OVERFLOW,
         OUT_OF_MEMORY

\* malloc hands out a block under a fresh name, or nothing.
LEMMA MallocStep ==
  ASSUME AllocatorOK, is_default_alloc, NEW size \in 1..UINT32_MAX, malloc(size)
  PROVE  /\ AllocatorOK' /\ Stays /\ stranded' = stranded /\ memory' = memory
         /\ \/ result' = OUT_OF_MEMORY /\ live' = live
            \/ result' = SUCCESS /\ \E c : Takes(c, {}) /\ c.size = size
  <1>1. CASE Refuse(OUT_OF_MEMORY)
    BY <1>1, RefuseStep, ResultsApart
  <1>2. ASSUME NEW d \in HostBlocks \ host, host' = host \cup {d},
               live' = live \cup {Block(d, 0, size)}, result' = SUCCESS,
               UNCHANGED <<memory, stranded>>
        PROVE  /\ AllocatorOK' /\ Stays /\ stranded' = stranded /\ memory' = memory
               /\ result' = SUCCESS /\ \E c : Takes(c, {}) /\ c.size = size
    <2> DEFINE c == Block(d, 0, size)
    <2>1. /\ c \in Blocks \ live /\ \A b \in live : address(b) # address(c)
          /\ Sound(memory, host \cup {d}, live \cup {c}, stranded)
      BY HostTakes DEF AllocatorOK, is_default_alloc
    <2>2. c.size = size
      BY DEF Block
    <2>3. Takes(c, {})
      <3> HIDE DEF c
      <3>1. live' = live \cup {c}
        BY <1>2 DEF c
      <3> QED BY <2>1, <3>1 DEF Takes
    <2>4. AllocatorOK'
      BY <1>2, <2>1, ResultsApart DEF AllocatorOK
    <2> HIDE DEF c
    <2> QED BY <1>2, <2>2, <2>3, <2>4 DEF Stays
  <1> QED BY <1>1, <1>2 DEF malloc

\* The outcomes of asking an arena for an aligned size: a block at its end, or
\* nothing.
LEMMA CarveStep ==
  ASSUME AllocatorOK, is_arena, NEW size \in 1..UINT32_MAX,
         NEW n, n = arnm_align8_u32(size), n # 0,
         NEW o, o = arena_alloc_aligned(n)
  PROVE  /\ o.memory.type = memory.type /\ o.memory.data = memory.data
         /\ o.result \in {SUCCESS, INVALID_STATE, OUT_OF_MEMORY}
         /\ o.result # SUCCESS =>
              /\ Sound(o.memory, host, live, stranded)
              /\ o.memory.last_index = memory.last_index
         /\ o.result = SUCCESS =>
              LET c == Block(memory.data, memory.last_index, size) IN
              /\ c \in Blocks \ live /\ c.size = size /\ c.off = memory.last_index
              /\ \A b \in live : address(b) # address(c)
              /\ Sound(o.memory, host, live \cup {c}, stranded)
  <1>1. Sound(memory, host, live, stranded) /\ memory.type \in {OWNED, EXTERNAL}
    BY DEF AllocatorOK, is_arena
  <1>2. n \in Nat
    BY AlignLemma DEF Multiples
  <1>3. CASE memory.data = NULL
    BY <1>1, <1>3, ResultsApart DEF arena_alloc_aligned
  <1>4. CASE memory.data # NULL /\ remaining_bytes(memory) < n
    <2>1. o = [result |-> OUT_OF_MEMORY, memory |-> account_capacity_exceeded(n, memory)]
      BY <1>4 DEF arena_alloc_aligned
    <2> QED BY <1>1, <1>2, <2>1, AccountSound, ResultsApart
  <1>5. CASE memory.data # NULL /\ ~(remaining_bytes(memory) < n)
    <2> DEFINE c == Block(memory.data, memory.last_index, size)
    <2>1. o = [result |-> SUCCESS, memory |-> bump(memory, n)]
      BY <1>5 DEF arena_alloc_aligned
    <2>2. memory \in Handle /\ remaining_bytes(memory) \in Int
      BY <1>1 DEF Sound, Handle, Multiples, remaining_bytes
    <2>3. remaining_bytes(memory) >= n
      BY <1>2, <1>5, <2>2
    <2>4. /\ c \in Blocks \ live /\ \A b \in live : address(b) # address(c)
          /\ Sound(bump(memory, n), host, live \cup {c}, stranded)
      BY <1>1, <1>5, <2>3, BumpSound
    <2>5. c.size = size /\ c.off = memory.last_index
      BY DEF Block
    <2>6. bump(memory, n).type = memory.type /\ bump(memory, n).data = memory.data
      BY <2>2 DEF bump, Handle
    <2> HIDE DEF c
    <2> QED BY <2>1, <2>4, <2>5, <2>6 DEF c
  <1> QED BY <1>3, <1>4, <1>5

\* What is known once arnm_alloc answered.
AllocDone(size) ==
  /\ AllocatorOK' /\ Stays /\ stranded' = stranded
  /\ \/ /\ result' \notin {SUCCESS, NOT_RECLAIMED} /\ live' = live
        /\ memory'.last_index = memory.last_index
     \/ /\ result' = SUCCESS
        /\ \E c : /\ Takes(c, {}) /\ c.size = size
                  /\ is_arena => c.off = memory.last_index

\* arnm_alloc hands out a new block, or changes nothing anybody holds.
LEMMA AllocStep ==
  ASSUME AllocatorOK, NEW size \in 0..UINT32_MAX, arnm_alloc(size)
  PROVE  AllocDone(size)
  <1>1. ASSUME NEW r \in {INVALID_PARAM, OVERFLOW}, Refuse(r)
        PROVE  AllocDone(size)
    BY <1>1, RefuseStep, ResultsApart DEF AllocDone
  <1>2. CASE size # 0 /\ is_default_alloc /\ malloc(size)
    <2>1. size \in 1..UINT32_MAX /\ ~is_arena
      BY <1>2 DEF is_default_alloc, is_arena, HOST, OWNED, EXTERNAL
    <2> QED BY <1>2, <2>1, MallocStep, ResultsApart DEF AllocDone
  <1>3. ASSUME size # 0, is_arena, arnm_align8_u32(size) # 0,
               NEW o, o = arena_alloc_aligned(arnm_align8_u32(size)),
               memory' = o.memory, result' = o.result,
               live' = IF o.result = SUCCESS
                       THEN live \cup {Block(memory.data, memory.last_index, size)}
                       ELSE live,
               UNCHANGED <<host, stranded>>
        PROVE  AllocDone(size)
    <2>1. size \in 1..UINT32_MAX
      BY <1>3
    <2> DEFINE c == Block(memory.data, memory.last_index, size)
    <2>2. /\ o.memory.type = memory.type /\ o.memory.data = memory.data
          /\ o.result \in {SUCCESS, INVALID_STATE, OUT_OF_MEMORY}
          /\ o.result # SUCCESS =>
               /\ Sound(o.memory, host, live, stranded)
               /\ o.memory.last_index = memory.last_index
          /\ o.result = SUCCESS =>
               /\ c \in Blocks \ live /\ c.size = size /\ c.off = memory.last_index
               /\ \A b \in live : address(b) # address(c)
               /\ Sound(o.memory, host, live \cup {c}, stranded)
      BY <1>3, <2>1, CarveStep
    <2>3. live' = IF o.result = SUCCESS THEN live \cup {c} ELSE live
      BY <1>3
    <2> HIDE DEF c
    <2>4. CASE o.result = SUCCESS
      <3>1. AllocatorOK'
        BY <1>3, <2>2, <2>3, <2>4, ResultsApart DEF AllocatorOK
      <3>2. Takes(c, {})
        BY <2>2, <2>3, <2>4 DEF Takes
      <3> QED BY <1>3, <2>2, <2>4, <3>1, <3>2 DEF AllocDone, Stays
    <2>5. CASE o.result # SUCCESS
      <3>1. AllocatorOK'
        BY <1>3, <2>2, <2>3, <2>5, ResultsApart DEF AllocatorOK
      <3> QED BY <1>3, <2>2, <2>3, <2>5, <3>1, ResultsApart DEF AllocDone, Stays
    <2> QED BY <2>4, <2>5
  <1> QED BY <1>1, <1>2, <1>3 DEF arnm_alloc

\* What is known once arnm_free answered.
FreeDone(b) ==
  /\ AllocatorOK' /\ Stays
  /\ \/ result' = SUCCESS /\ live' = live \ {b} /\ stranded' = stranded
     \/ /\ is_arena /\ result' = NOT_RECLAIMED
        /\ \/ live' = live /\ stranded' = stranded
           \/ /\ live' = live \ {b}
              /\ Reserved(b) \in Nat \ {0}
              /\ stranded' = stranded + Reserved(b)

\* arnm_free takes the block back, or warns that the arena keeps its bytes.
LEMMA FreeStep ==
  ASSUME AllocatorOK, NEW b, arnm_free(b)
  PROVE  b \in live /\ FreeDone(b)
  <1>0. b \in live /\ Sound(memory, host, live, stranded) /\ memory \in Handle
    BY DEF arnm_free, AllocatorOK, Sound
  <1>1. CASE is_default_alloc /\ host' = host \ {b.data} /\ live' = live \ {b}
             /\ result' = SUCCESS /\ UNCHANGED <<memory, stranded>>
    <2>1. Sound(memory, host \ {b.data}, live \ {b}, stranded)
      BY <1>0, <1>1, HostGives DEF is_default_alloc
    <2>2. AllocatorOK'
      BY <1>1, <2>1, ResultsApart DEF AllocatorOK
    <2> QED BY <1>0, <1>1, <2>2 DEF FreeDone, Stays
  <1>2. CASE /\ is_arena /\ is_single_arena_reclaimable(b, Reserved(b), memory)
             /\ memory' = bump(memory, -Reserved(b)) /\ live' = live \ {b}
             /\ result' = SUCCESS /\ UNCHANGED <<host, stranded>>
    <2>1. Sound(bump(memory, -Reserved(b)), host, live \ {b}, stranded)
      BY <1>0, <1>2, TailSound DEF is_arena
    <2>2. AllocatorOK'
      BY <1>2, <2>1, ResultsApart DEF AllocatorOK
    <2>3. Stays
      BY <1>0, <1>2 DEF Stays, bump, Handle
    <2> QED BY <1>0, <1>2, <2>2, <2>3 DEF FreeDone
  <1>3. CASE is_arena /\ result' = NOT_RECLAIMED /\ UNCHANGED <<live, stranded>>
             /\ UNCHANGED <<memory, host>>
    BY <1>0, <1>3, ResultsApart DEF FreeDone, AllocatorOK, Stays
  <1>4. CASE /\ is_arena /\ result' = NOT_RECLAIMED /\ live' = live \ {b}
             /\ stranded' = stranded + Reserved(b) /\ UNCHANGED <<memory, host>>
    <2>1. Sound(memory, host, live \ {b}, stranded + Reserved(b))
      BY <1>0, <1>4, ForgetSound DEF is_arena
    <2>2. AllocatorOK'
      BY <1>4, <2>1, ResultsApart DEF AllocatorOK
    <2>3. Reserved(b) \in Nat \ {0}
      BY <1>0, <1>4, BlockLemma DEF Sound, ArenaHolds, is_arena
    <2> QED BY <1>0, <1>4, <2>2, <2>3 DEF FreeDone, Stays
  <1> QED BY <1>0, <1>1, <1>2, <1>3, <1>4 DEF arnm_free

\* What is known once a block of another size was asked for in the place of b.
ReallocDone(b, size) ==
  /\ AllocatorOK' /\ Stays
  /\ \/ live' = live /\ (result' = SUCCESS => size = b.size)
     \/ /\ result' \in {SUCCESS, NOT_RECLAIMED}
        /\ \E c : Takes(c, {b}) /\ c.size = size

\* The host carries a block over, under its old name or a fresh one.
LEMMA ReallocHostStep ==
  ASSUME AllocatorOK, is_default_alloc, NEW b \in live, NEW size \in 1..UINT32_MAX,
         size # b.size, realloc_host(b, size)
  PROVE  ReallocDone(b, size)
  <1>0. Sound(memory, host, live, stranded) /\ memory.type = HOST
    BY DEF AllocatorOK, is_default_alloc
  <1>1. CASE Refuse(OUT_OF_MEMORY)
    BY <1>1, RefuseStep, ResultsApart DEF ReallocDone
  <1>2. ASSUME NEW d \in (HostBlocks \ host) \cup {b.data},
               host' = (host \ {b.data}) \cup {d},
               live' = (live \ {b}) \cup {Block(d, 0, size)},
               result' = SUCCESS, UNCHANGED <<memory, stranded>>
        PROVE  ReallocDone(b, size)
    <2> DEFINE c == Block(d, 0, size)
    <2>1. Sound(memory, host \ {b.data}, live \ {b}, stranded)
      BY <1>0, HostGives
    <2>2. d \in HostBlocks \ (host \ {b.data})
      <3>1. b.data \in host /\ host \subseteq HostBlocks
        BY <1>0 DEF Sound, HostHolds
      <3> QED BY <1>2, <3>1
    <2>3. /\ c \in Blocks \ (live \ {b}) /\ \A x \in live \ {b} : address(x) # address(c)
          /\ Sound(memory, (host \ {b.data}) \cup {d}, (live \ {b}) \cup {c}, stranded)
      BY <1>0, <2>1, <2>2, HostTakes
    <2>4. c.size = size /\ c # b
      BY DEF Block
    <2>5. live' = (live \ {b}) \cup {c}
      BY <1>2
    <2> HIDE DEF c
    <2>6. Takes(c, {b})
      BY <2>3, <2>4, <2>5 DEF Takes
    <2>7. AllocatorOK'
      BY <1>2, <2>3, <2>5, ResultsApart DEF AllocatorOK
    <2> QED BY <1>2, <2>4, <2>6, <2>7 DEF ReallocDone, Stays
  <1> QED BY <1>1, <1>2 DEF realloc_host

\* The tail is resized where it is, as if handed back and carved again.
LEMMA ReallocTailStep ==
  ASSUME AllocatorOK, is_arena, NEW b \in live, NEW size \in 1..UINT32_MAX,
         size # b.size, arnm_align8_u32(size) # 0, realloc_tail(b, size)
  PROVE  ReallocDone(b, size)
  <1> DEFINE old == Reserved(b)
             new == arnm_align8_u32(size)
  <1>0. /\ Sound(memory, host, live, stranded) /\ memory.type \in {OWNED, EXTERNAL}
        /\ memory \in Handle /\ b \in Blocks
    BY DEF AllocatorOK, is_arena, Sound
  <1>1. is_single_arena_reclaimable(b, old, memory) /\ UNCHANGED <<host, stranded>>
    BY DEF realloc_tail
  <1>2. /\ old \in Nat /\ new \in Nat /\ b.off \in Nat /\ b.data # NULL
        /\ memory.last_index \in Nat /\ memory.capacity \in Nat
        /\ memory.last_index <= memory.capacity
        /\ b.data = memory.data /\ memory.last_index - old = b.off
    <2>1. memory.last_index \in Nat /\ memory.capacity \in Nat
          /\ memory.last_index <= memory.capacity
      BY <1>0 DEF Handle, Multiples, Sound
    <2>2. b.data # NULL
      BY <1>0, NamesAssumption DEF Blocks
    <2> QED BY <1>0, <1>1, <2>1, <2>2, AlignLemma, BlockLemma
         DEF Multiples, is_single_arena_reclaimable
  <1>3. CASE /\ new < old \/ remaining_bytes(memory) >= new - old
             /\ memory' = bump(memory, new - old)
             /\ live' = (live \ {b}) \cup {[b EXCEPT !.size = size]}
             /\ result' = SUCCESS
    <2> DEFINE m == bump(memory, -old)
               c == Block(m.data, m.last_index, size)
    <2>1. Sound(m, host, live \ {b}, stranded)
      BY <1>0, <1>1, TailSound
    <2>2. /\ m.type = memory.type /\ m.data = memory.data /\ m.capacity = memory.capacity
          /\ m.last_index = b.off /\ m \in Handle
      <3>1. /\ m.type = memory.type /\ m.data = memory.data /\ m.capacity = memory.capacity
            /\ m.last_index = memory.last_index + (-old)
        BY <1>0 DEF bump, Handle
      <3>2. m \in Handle
        BY <2>1 DEF Sound
      <3> HIDE DEF m, old
      <3> QED BY <1>2, <3>1, <3>2
    <2>3. remaining_bytes(m) >= new
      <3>1. remaining_bytes(m) = memory.capacity - b.off
            /\ remaining_bytes(memory) = memory.capacity - memory.last_index
        BY <2>2 DEF remaining_bytes
      <3> HIDE DEF m, old, new
      <3> QED BY <1>2, <1>3, <3>1
    <2>4. /\ c \in Blocks \ (live \ {b}) /\ \A x \in live \ {b} : address(x) # address(c)
          /\ Sound(bump(m, new), host, (live \ {b}) \cup {c}, stranded)
      <3> HIDE DEF m
      <3> QED BY <1>0, <1>2, <2>1, <2>2, <2>3, BumpSound
    <2>5. c = [b EXCEPT !.size = size] /\ c.size = size /\ c # b
      <3> HIDE DEF m
      <3> QED BY <1>0, <1>2, <2>2 DEF Block, Blocks
    <2>6. bump(m, new) = memory' /\ Stays
      <3>1. m.last_index + new = memory.last_index + (new - old)
        <4> HIDE DEF m, old, new
        <4> QED BY <1>2, <2>2
      <3>2. bump(m, new) = [memory EXCEPT !.last_index = m.last_index + new]
        BY <1>0 DEF bump, Handle
      <3>3. memory' = [memory EXCEPT !.last_index = memory.last_index + (new - old)]
        BY <1>3 DEF bump
      <3>4. memory'.type = memory.type /\ memory'.data = memory.data
        BY <1>0, <3>3 DEF Handle
      <3> HIDE DEF m, old, new
      <3> QED BY <3>1, <3>2, <3>3, <3>4 DEF Stays
    <2> HIDE DEF m, c, old, new
    <2>7. live' = (live \ {b}) \cup {c}
      BY <1>3, <2>5
    <2>8. AllocatorOK'
      BY <1>1, <1>3, <2>4, <2>6, <2>7, ResultsApart DEF AllocatorOK
    <2>9. Takes(c, {b})
      BY <2>4, <2>5, <2>7 DEF Takes
    <2> QED BY <1>3, <2>5, <2>6, <2>8, <2>9 DEF ReallocDone
  <1>4. CASE /\ ~(new < old \/ remaining_bytes(memory) >= new - old)
             /\ memory' = account_capacity_exceeded(new - old, memory)
             /\ result' = OUT_OF_MEMORY /\ UNCHANGED live
    <2>1. new - old \in Nat
      <3> HIDE DEF new, old
      <3> QED BY <1>2, <1>4
    <2>2. Sound(memory', host, live, stranded) /\ Stays
      <3> HIDE DEF new, old
      <3> QED BY <1>0, <1>4, <2>1, AccountSound DEF Stays
    <2>3. result' \in Results /\ result' # SUCCESS
      BY <1>4, ResultsApart
    <2> HIDE DEF new, old
    <2> QED BY <1>1, <1>4, <2>2, <2>3 DEF ReallocDone, AllocatorOK
  <1> QED BY <1>3, <1>4 DEF realloc_tail

\* A buried block moves to grow, and shrinks in name only.
LEMMA ReallocBuriedStep ==
  ASSUME AllocatorOK, is_arena, NEW b \in live, NEW size \in 1..UINT32_MAX,
         size # b.size, arnm_align8_u32(size) # 0, realloc_buried(b, size)
  PROVE  ReallocDone(b, size)
  <1> DEFINE old == Reserved(b)
             new == arnm_align8_u32(size)
             o   == arena_alloc_aligned(new)
  <1>0. /\ Sound(memory, host, live, stranded) /\ memory.type \in {OWNED, EXTERNAL}
        /\ memory \in Handle /\ b \in Blocks /\ host' = host
    BY DEF AllocatorOK, is_arena, Sound, realloc_buried
  <1>1. old \in Nat /\ new \in Nat
    BY <1>0, AlignLemma, BlockLemma DEF Multiples
  <1>2. CASE new > old
    <2> DEFINE c == Block(memory.data, memory.last_index, size)
    <2>1. /\ memory' = o.memory
          /\ IF o.result = SUCCESS
             THEN /\ live' = (live \ {b}) \cup {c}
                  /\ stranded' = stranded + old
                  /\ result' = NOT_RECLAIMED
             ELSE result' = o.result /\ UNCHANGED <<live, stranded>>
      BY <1>2 DEF realloc_buried
    <2>2. /\ o.memory.type = memory.type /\ o.memory.data = memory.data
          /\ o.result \in {SUCCESS, INVALID_STATE, OUT_OF_MEMORY}
          /\ o.result # SUCCESS =>
               /\ Sound(o.memory, host, live, stranded)
               /\ o.memory.last_index = memory.last_index
          /\ o.result = SUCCESS =>
               /\ c \in Blocks \ live /\ c.size = size /\ c.off = memory.last_index
               /\ \A x \in live : address(x) # address(c)
               /\ Sound(o.memory, host, live \cup {c}, stranded)
      BY CarveStep
    <2> HIDE DEF c, o, new, old
    <2>3. CASE o.result = SUCCESS
      <3>1. b \in live \cup {c} /\ (live \cup {c}) \ {b} = (live \ {b}) \cup {c}
        BY <2>2, <2>3
      <3>2. Sound(o.memory, host, (live \cup {c}) \ {b}, stranded + Reserved(b))
        BY <1>0, <2>2, <2>3, <3>1, ForgetSound
      <3>3. Sound(memory', host', live', stranded')
        BY <1>0, <2>1, <2>3, <3>1, <3>2 DEF old
      <3>4. Takes(c, {b})
        BY <2>1, <2>2, <2>3 DEF Takes
      <3> QED BY <2>1, <2>2, <2>3, <3>3, <3>4, ResultsApart
               DEF ReallocDone, AllocatorOK, Stays
    <2>4. CASE o.result # SUCCESS
      BY <1>0, <2>1, <2>2, <2>4, ResultsApart DEF ReallocDone, AllocatorOK, Stays
    <2> QED BY <2>3, <2>4
  <1>3. CASE ~(new > old)
    <2>1. /\ result' = NOT_RECLAIMED /\ memory' = memory
          /\ \/ live' = live /\ stranded' = stranded
             \/ /\ live' = (live \ {b}) \cup {[b EXCEPT !.size = size]}
                /\ stranded' = stranded + (old - new)
      BY <1>3 DEF realloc_buried
    <2>2. CASE live' = live /\ stranded' = stranded
      BY <1>0, <2>1, <2>2, ResultsApart DEF ReallocDone, AllocatorOK, Stays
    <2>3. CASE /\ live' = (live \ {b}) \cup {[b EXCEPT !.size = size]}
               /\ stranded' = stranded + (old - new)
      <3> DEFINE c == [b EXCEPT !.size = size]
      <3>1. new <= old
        <4> HIDE DEF new, old
        <4> QED BY <1>1, <1>3
      <3>2. /\ c \in Blocks \ live
            /\ Sound(memory, host, (live \ {b}) \cup {c}, stranded + (old - new))
        BY <1>0, <3>1, TrimSound
      <3>3. c.size = size /\ address(c) = address(b)
        BY <1>0 DEF address, Blocks
      <3>4. \A d \in live \ {b} : address(d) # address(b)
        BY <1>0, AddressesApart
      <3> HIDE DEF c, new, old
      <3>5. live' = (live \ {b}) \cup {c}
        BY <2>3 DEF c
      <3>6. Takes(c, {b})
        BY <3>2, <3>3, <3>4, <3>5 DEF Takes
      <3> QED BY <1>0, <2>1, <2>3, <3>2, <3>3, <3>5, <3>6, ResultsApart
           DEF ReallocDone, AllocatorOK, Stays
    <2> QED BY <2>1, <2>2, <2>3
  <1> QED BY <1>2, <1>3

\* arnm_realloc to a size that is not 0 resizes the block or leaves it as it is.
LEMMA ReallocStep ==
  ASSUME AllocatorOK, NEW b, NEW size \in 1..UINT32_MAX, arnm_realloc(b, size)
  PROVE  b \in live /\ ReallocDone(b, size)
  <1>0. b \in live /\ OVERFLOW # SUCCESS
    BY ResultsApart DEF arnm_realloc
  <1>1. ASSUME NEW r \in {OVERFLOW, SUCCESS}, Refuse(r), r = SUCCESS => size = b.size
        PROVE  ReallocDone(b, size)
    BY <1>1, RefuseStep, ResultsApart DEF ReallocDone
  <1>2. CASE /\ arnm_align8_u32(size) # 0 /\ size # b.size
             /\ \/ is_default_alloc /\ realloc_host(b, size)
                \/ is_arena /\ realloc_tail(b, size)
                \/ is_arena /\ realloc_buried(b, size)
    BY <1>0, <1>2, ReallocHostStep, ReallocTailStep, ReallocBuriedStep
  <1>3. size # 0
    OBVIOUS
  <1> QED BY <1>0, <1>1, <1>2, <1>3 DEF arnm_realloc

-----------------------------------------------------------------------------
(* The client that puts the handle through every mode.                     *)

\* A handle with nothing in anybody's hands, over what it owns of the host's.
LEMMA EmptySound ==
  ASSUME NEW m \in Handle, m.last_index = 0, NEW h \in SUBSET HostBlocks, NEW st \in Nat,
         m.type \in {OWNED, EXTERNAL} =>
           st = 0 /\ h = IF m.type = OWNED THEN {m.data} \ {NULL} ELSE {},
         m.type \in {NONE, HOST} => h = {}
  PROVE  Sound(m, h, {}, st)
  <1>1. IsFiniteSet({}) /\ Held({}) = 0
    BY FS_EmptySet, HeldLemma
  <1>2. m.last_index <= m.capacity
    BY DEF Handle, Multiples
  <1>3. m.type \in {OWNED, EXTERNAL} => ArenaHolds(m, h, {}, st)
    BY <1>1 DEF ArenaHolds
  <1>4. m.type = HOST => HostHolds(h, {})
    BY DEF HostHolds
  <1> QED BY <1>1, <1>2, <1>3, <1>4 DEF Sound

\* The descriptors the handle is given are descriptors, with an index of 0.
LEMMA HandleLemma ==
  ASSUME NEW type \in {NONE, HOST, OWNED, EXTERNAL},
         NEW data \in HostBlocks \cup Blobs \cup {NULL}, NEW capacity \in Multiples
  PROVE  LET m == arnm_intern(type, data, capacity) IN
         /\ m \in Handle /\ m.type = type /\ m.data = data /\ m.last_index = 0
         /\ m.capacity = capacity
  BY WidthAssumption DEF arnm_intern, Handle, Multiples

\* What the host keeps of the handle's is the block it owns.
LEMMA KeptLemma ==
  ASSUME AllocatorOK
  PROVE  /\ memory \in Handle
         /\ is_arena => host = IF memory.type = OWNED THEN {memory.data} \ {NULL} ELSE {}
         /\ memory.type # HOST => ReleaseHost = {}
         /\ memory.type = HOST => ReleaseHost = host
         /\ memory.type = HOST /\ live = {} => host = {}
         /\ memory.type = NONE => host = {}
         /\ memory.type = OWNED => memory.data \notin Blobs
  <1>1. memory \in Handle /\ host \subseteq HostBlocks
    BY DEF AllocatorOK, Sound
  <1>2. is_arena => host = IF memory.type = OWNED THEN {memory.data} \ {NULL} ELSE {}
    BY DEF AllocatorOK, Sound, ArenaHolds, is_arena
  <1>3. memory.type = NONE => host = {}
    BY DEF AllocatorOK, Sound
  <1>4. memory.type = HOST /\ live = {} => host = {}
    BY DEF AllocatorOK, Sound, HostHolds
  <1>5. memory.type # HOST => ReleaseHost = {}
    <2>1. memory.type \in {NONE, HOST, OWNED, EXTERNAL}
      BY <1>1 DEF Handle
    <2>2. memory.type = OWNED => host \ {memory.data} = {}
      BY <1>2 DEF is_arena
    <2>3. memory.type = EXTERNAL => host = {}
      BY <1>2 DEF is_arena, OWNED, EXTERNAL
    <2> QED BY <1>3, <2>1, <2>2, <2>3 DEF ReleaseHost
  <1>6. memory.type = HOST => ReleaseHost = host
    BY DEF ReleaseHost, HOST, OWNED
  <1>7. memory.type = OWNED => memory.data \notin Blobs
    BY <1>1, <1>2, NamesAssumption DEF is_arena
  <1> QED BY <1>1, <1>2, <1>3, <1>4, <1>5, <1>6, <1>7

\* A reset arena is the arena it was, empty.
LEMMA ResetLemma ==
  ASSUME NEW m \in Handle
  PROVE  /\ arnm_reset_arena(m) \in Handle
         /\ arnm_reset_arena(m).type = m.type /\ arnm_reset_arena(m).data = m.data
         /\ arnm_reset_arena(m).last_index = 0
  <1>1. 0 \in Multiples /\ 0 \in 0..UINT32_MAX
    BY WidthAssumption DEF Multiples
  <1> QED BY <1>1 DEF arnm_reset_arena, Handle

\* A released arena is empty too, and owns nothing.
LEMMA ReleaseLemma ==
  ASSUME NEW m \in Handle
  PROVE  /\ arnm_release_arena(m) \in Handle
         /\ arnm_release_arena(m).type = m.type
         /\ arnm_release_arena(m).data = IF m.type = OWNED THEN NULL ELSE m.data
         /\ arnm_release_arena(m).last_index = 0
  <1> DEFINE a == [m EXCEPT !.data = IF m.type = OWNED THEN NULL ELSE @, !.capacity = 0]
  <1>1. 0 \in Multiples
    BY WidthAssumption DEF Multiples
  <1>2. a \in Handle /\ a.type = m.type /\ a.data = IF m.type = OWNED THEN NULL ELSE m.data
    BY <1>1 DEF Handle
  <1>3. arnm_release_arena(m) = arnm_reset_arena(a)
    BY DEF arnm_release_arena
  <1> HIDE DEF a
  <1> QED BY <1>2, <1>3, ResetLemma

\* Nothing is anybody's where a handle may be initialised.
LEMMA MayInitLemma ==
  ASSUME AllocatorOK, MayInit
  PROVE  host = {} /\ live = {}
  <1>1. memory.type \in {NONE, HOST, OWNED, EXTERNAL}
    BY KeptLemma DEF Handle
  <1> QED BY <1>1, KeptLemma DEF MayInit, is_arena, HOST, OWNED, EXTERNAL

\* Creating, initialising and borrowing.
LEMMA InitStep ==
  ASSUME AllocatorOK,
         \/ arnm_create
         \/ \E c \in Capacities : arnm_init_arena(c)
         \/ \E d \in Blobs, c \in Capacities : arnm_init_arena_borrow(d, c)
  PROVE  AllocatorOK' /\ live' \subseteq live
  <1>0. 0 \in Multiples /\ stranded \in Nat
    BY WidthAssumption DEF Multiples, AllocatorOK, Sound
  <1>1. CASE arnm_create
    <2> DEFINE m == arnm_intern(HOST, NULL, 0)
    <2>1. host = {} /\ live = {}
      BY <1>1 DEF arnm_create, AllocatorOK, Sound
    <2>2. m \in Handle /\ m.type = HOST /\ m.last_index = 0
      BY <1>0, HandleLemma
    <2>3. Sound(m, {}, {}, stranded)
      <3>1. m.type \notin {OWNED, EXTERNAL}
        BY <2>2 DEF HOST, OWNED, EXTERNAL
      <3> HIDE DEF m
      <3> QED BY <1>0, <2>2, <3>1, EmptySound
    <2> QED BY <1>1, <2>1, <2>3, ResultsApart DEF arnm_create, AllocatorOK
  <1>2. ASSUME NEW c \in Capacities, arnm_init_arena(c)
        PROVE  AllocatorOK' /\ live' \subseteq live
    <2>0. host = {} /\ live = {}
      BY <1>2, MayInitLemma DEF arnm_init_arena
    <2>1. ASSUME NEW r \in {INVALID_PARAM, OVERFLOW, OUT_OF_MEMORY}, Refuse(r)
          PROVE  AllocatorOK' /\ live' \subseteq live
      BY <2>1, RefuseStep, ResultsApart
    <2>2. ASSUME NEW data \in HostBlocks \ host,
                 memory' = arnm_intern(OWNED, data, arnm_align8_u32(c)),
                 host' = host \cup {data}, stranded' = 0, result' = SUCCESS, live' = live
          PROVE  AllocatorOK' /\ live' \subseteq live
      <3> DEFINE m == arnm_intern(OWNED, data, arnm_align8_u32(c))
      <3>1. m \in Handle /\ m.type = OWNED /\ m.data = data /\ m.last_index = 0
        BY AlignLemma, NamesAssumption, HandleLemma
      <3>2. Sound(m, {data}, {}, 0)
        <4>1. {data} \ {NULL} = {data}
          BY NamesAssumption
        <4> HIDE DEF m
        <4> QED BY <3>1, <4>1, EmptySound DEF HOST, OWNED, NONE
      <3> HIDE DEF m
      <3> QED BY <2>0, <2>2, <3>2, ResultsApart DEF AllocatorOK, m
    <2> QED BY <1>2, <2>1, <2>2 DEF arnm_init_arena
  <1>3. ASSUME NEW d \in Blobs, NEW c \in Capacities, arnm_init_arena_borrow(d, c)
        PROVE  AllocatorOK' /\ live' \subseteq live
    <2>0. host = {} /\ live = {}
      BY <1>3, MayInitLemma DEF arnm_init_arena_borrow
    <2>1. ASSUME NEW r \in {INVALID_PARAM, OVERFLOW}, Refuse(r)
          PROVE  AllocatorOK' /\ live' \subseteq live
      BY <2>1, RefuseStep, ResultsApart
    <2>2. CASE /\ arnm_align8_u32(c) = c /\ memory' = arnm_intern(EXTERNAL, d, c)
               /\ stranded' = 0 /\ result' = SUCCESS /\ UNCHANGED <<host, live>>
      <3> DEFINE m == arnm_intern(EXTERNAL, d, c)
      <3>1. m \in Handle /\ m.type = EXTERNAL /\ m.last_index = 0
        BY <2>2, AlignLemma, NamesAssumption, HandleLemma
      <3>2. Sound(m, {}, {}, 0)
        <4> HIDE DEF m
        <4> QED BY <3>1, EmptySound DEF HOST, OWNED, EXTERNAL, NONE
      <3> HIDE DEF m
      <3> QED BY <2>0, <2>2, <3>2, ResultsApart DEF AllocatorOK, m
    <2> QED BY <1>3, <2>1, <2>2 DEF arnm_init_arena_borrow
  <1> QED BY <1>1, <1>2, <1>3

\* A handle that is released keeps nothing of the host's, unless the host is
\* what it hands out.
LEMMA ReleasedSound ==
  ASSUME AllocatorOK, memory.type # NONE, is_default_alloc => live = {}
  PROVE  LET released == IF is_arena THEN arnm_release_arena(memory) ELSE memory IN
         released \in Handle /\ ReleaseHost = {} /\ Sound(released, {}, {}, 0)
  <1>1. memory \in Handle /\ memory.type \in {HOST, OWNED, EXTERNAL}
    BY KeptLemma DEF Handle
  <1>2. ReleaseHost = {}
    BY KeptLemma DEF is_default_alloc
  <1>3. CASE is_arena
    <2> DEFINE m == arnm_release_arena(memory)
    <2>1. /\ m \in Handle /\ m.type = memory.type /\ m.last_index = 0
          /\ m.data = IF memory.type = OWNED THEN NULL ELSE memory.data
      BY <1>1, ReleaseLemma
    <2>2. Sound(m, {}, {}, 0)
      <3>1. m.type \notin {NONE, HOST}
        BY <1>3, <2>1 DEF is_arena, HOST, OWNED, EXTERNAL, NONE
      <3> HIDE DEF m
      <3> QED BY <2>1, <3>1, EmptySound
    <2> HIDE DEF m
    <2> QED BY <1>2, <1>3, <2>1, <2>2 DEF m
  <1>4. CASE ~is_arena
    <2>1. memory.type = HOST /\ host = {} /\ live = {}
      BY <1>1, <1>4, KeptLemma DEF is_arena, is_default_alloc
    <2>2. Sound(memory, {}, {}, 0)
      BY <2>1 DEF AllocatorOK, Sound, HOST, OWNED, EXTERNAL
    <2> QED BY <1>1, <1>2, <1>4, <2>2
  <1> QED BY <1>3, <1>4

\* Resetting, releasing, initialising again and destroying.
LEMMA ResetStep ==
  ASSUME AllocatorOK,
         \/ arnm_reset \/ arnm_release \/ arnm_destroy
         \/ \E c \in Capacities : arnm_reinit_arena(c)
  PROVE  AllocatorOK' /\ live' \subseteq live
  <1>0. /\ memory \in Handle /\ memory.type \in {NONE, HOST, OWNED, EXTERNAL}
        /\ result \in Results /\ host \subseteq HostBlocks /\ 0 \in Nat
    BY KeptLemma DEF Handle, AllocatorOK, Sound
  <1>1. ASSUME memory.type = HOST PROVE Sound(memory, host, live, 0)
    BY <1>1 DEF AllocatorOK, Sound, HOST, OWNED, EXTERNAL
  <1>2. CASE arnm_reset
    <2>1. CASE is_arena
      <3> DEFINE m == arnm_reset_arena(memory)
      <3>1. m \in Handle /\ m.type = memory.type /\ m.data = memory.data /\ m.last_index = 0
        BY <1>0, ResetLemma
      <3>2. Sound(m, host, {}, 0)
        <4>1. m.type \notin {NONE, HOST}
          BY <2>1, <3>1 DEF is_arena, HOST, OWNED, EXTERNAL, NONE
        <4> HIDE DEF m
        <4> QED BY <1>0, <2>1, <3>1, <4>1, EmptySound, KeptLemma
      <3> HIDE DEF m
      <3> QED BY <1>0, <1>2, <2>1, <3>2 DEF arnm_reset, AllocatorOK, m
    <2>2. CASE ~is_arena
      <3>1. memory.type = HOST
        BY <1>0, <1>2, <2>2 DEF arnm_reset, is_arena
      <3> QED BY <1>0, <1>1, <1>2, <2>2, <3>1 DEF arnm_reset, AllocatorOK
    <2> QED BY <2>1, <2>2
  <1>3. CASE arnm_release
    <2>1. CASE is_arena
      <3>1. ~is_default_alloc
        BY <2>1 DEF is_arena, is_default_alloc, HOST, OWNED, EXTERNAL
      <3> QED BY <1>0, <1>3, <2>1, <3>1, ReleasedSound DEF arnm_release, AllocatorOK
    <2>2. CASE ~is_arena
      <3>1. memory.type = HOST
        BY <1>0, <1>3, <2>2 DEF arnm_release, is_arena
      <3> QED BY <1>0, <1>1, <1>3, <2>2, <3>1, KeptLemma DEF arnm_release, AllocatorOK
    <2> QED BY <2>1, <2>2
  <1>4. CASE arnm_destroy
    <2> DEFINE m == arnm_intern(NONE, NULL, 0)
    <2>1. m \in Handle /\ m.type = NONE /\ m.last_index = 0
      <3>1. 0 \in Multiples
        BY WidthAssumption DEF Multiples
      <3> QED BY <3>1, HandleLemma
    <2>2. ReleaseHost = {}
      BY <1>4, ReleasedSound DEF arnm_destroy
    <2>3. Sound(m, {}, {}, 0)
      <3> HIDE DEF m
      <3> QED BY <2>1, EmptySound DEF OWNED, EXTERNAL, NONE
    <2> QED BY <1>4, <2>2, <2>3, ResultsApart DEF arnm_destroy, AllocatorOK
  <1>5. ASSUME NEW c \in Capacities, arnm_reinit_arena(c)
        PROVE  AllocatorOK' /\ live' \subseteq live
    <2> DEFINE released == IF is_arena THEN arnm_release_arena(memory) ELSE memory
    <2>1. ReleaseHost = {} /\ Sound(released, {}, {}, 0)
      BY <1>5, ReleasedSound DEF arnm_reinit_arena
    <2>2. live' = {} /\ stranded' = 0
      BY <1>5 DEF arnm_reinit_arena
    <2>3. CASE /\ memory' = released /\ host' = ReleaseHost
               /\ result' = IF c = 0 THEN INVALID_PARAM
                            ELSE IF arnm_align8_u32(c) = 0 THEN OVERFLOW ELSE OUT_OF_MEMORY
      <3> HIDE DEF released
      <3> QED BY <2>1, <2>2, <2>3, ResultsApart DEF AllocatorOK
    <2>4. ASSUME NEW data \in HostBlocks \ ReleaseHost,
                 memory' = arnm_intern(OWNED, data, arnm_align8_u32(c)),
                 host' = ReleaseHost \cup {data}, result' = SUCCESS
          PROVE  AllocatorOK'
      <3> DEFINE m == arnm_intern(OWNED, data, arnm_align8_u32(c))
      <3>1. m \in Handle /\ m.type = OWNED /\ m.data = data /\ m.last_index = 0
        BY AlignLemma, NamesAssumption, HandleLemma
      <3>2. Sound(m, {data}, {}, 0)
        <4>1. {data} \ {NULL} = {data}
          BY NamesAssumption
        <4> HIDE DEF m
        <4> QED BY <3>1, <4>1, EmptySound DEF HOST, OWNED, NONE
      <3> HIDE DEF m
      <3> QED BY <2>1, <2>2, <2>4, <3>2, ResultsApart DEF AllocatorOK, m
    <2> QED BY <1>5, <2>2, <2>3, <2>4 DEF arnm_reinit_arena
  <1> QED BY <1>2, <1>3, <1>4, <1>5

\* A resize of nothing is an allocation under another answer.
LEMMA ReallocNullStep ==
  ASSUME AllocatorOK, NEW size \in 0..UINT32_MAX, arnm_realloc_null(size)
  PROVE  AllocatorOK' /\ (live' = live \/ \E c : live' = live \cup {c} /\ c.size = size)
  <1> DEFINE n == arnm_align8_u32(size)
             o == arena_alloc_aligned(n)
             c == Block(memory.data, memory.last_index, size)
  <1>0. size \in 1..UINT32_MAX
    BY DEF arnm_realloc_null
  <1>1. CASE Refuse(OVERFLOW)
    BY <1>1, RefuseStep, ResultsApart
  <1>2. CASE is_default_alloc /\ malloc(size)
    BY <1>0, <1>2, MallocStep DEF Takes
  <1>3. CASE /\ n # 0 /\ is_arena /\ memory' = o.memory
             /\ IF o.result = SUCCESS
                THEN live' = live \cup {c} /\ result' = NOT_RECLAIMED
                ELSE result' = o.result /\ UNCHANGED live
             /\ UNCHANGED <<host, stranded>>
    <2>1. /\ o.result \in {SUCCESS, INVALID_STATE, OUT_OF_MEMORY}
          /\ o.result # SUCCESS => Sound(o.memory, host, live, stranded)
          /\ o.result = SUCCESS =>
               c.size = size /\ Sound(o.memory, host, live \cup {c}, stranded)
      BY <1>0, <1>3, CarveStep
    <2> HIDE DEF o, c
    <2> QED BY <1>3, <2>1, ResultsApart DEF AllocatorOK
  <1> QED BY <1>1, <1>2, <1>3 DEF arnm_realloc_null

\* Every call of the client keeps the allocator sound and the sizes its own.
LEMMA ClientStep ==
  ASSUME AllocatorOK, ClientOK, Next
  PROVE  AllocatorOK' /\ ClientOK'
  <1>0. Sizes \subseteq 0..UINT32_MAX
    BY NamesAssumption
  <1>1. ASSUME AllocatorOK', live' \subseteq live PROVE AllocatorOK' /\ ClientOK'
    BY <1>1 DEF ClientOK
  <1>2. ASSUME NEW s \in Sizes, arnm_alloc(s) PROVE AllocatorOK' /\ ClientOK'
    BY <1>0, <1>2, AllocStep DEF AllocDone, Takes, ClientOK
  <1>3. ASSUME NEW s \in Sizes, arnm_realloc_null(s) PROVE AllocatorOK' /\ ClientOK'
    BY <1>0, <1>3, ReallocNullStep DEF ClientOK
  <1>4. ASSUME NEW b, arnm_free(b) PROVE AllocatorOK' /\ ClientOK'
    BY <1>4, FreeStep DEF FreeDone, ClientOK
  <1>5. ASSUME NEW b, NEW s \in Sizes, arnm_realloc(b, s) PROVE AllocatorOK' /\ ClientOK'
    <2>1. CASE s = 0
      <3>1. arnm_free(b) \/ Refuse(OVERFLOW) \/ Refuse(SUCCESS)
        BY <1>5, <2>1 DEF arnm_realloc
      <3> QED BY <1>1, <1>4, <3>1, RefuseStep, ResultsApart
    <2>2. CASE s # 0
      <3>1. s \in 1..UINT32_MAX
        BY <1>0, <2>2
      <3> QED BY <1>5, <3>1, ReallocStep DEF ReallocDone, Takes, ClientOK
    <2> QED BY <2>1, <2>2
  <1>6. CASE \/ arnm_reset \/ arnm_release \/ arnm_destroy
             \/ \E c \in Capacities : arnm_reinit_arena(c)
    BY <1>1, <1>6, ResetStep
  <1>7. CASE \/ arnm_create
             \/ \E c \in Capacities : arnm_init_arena(c)
             \/ \E d \in Blobs, c \in Capacities : arnm_init_arena_borrow(d, c)
    BY <1>1, <1>7, InitStep
  <1> QED BY <1>2, <1>3, <1>4, <1>5, <1>6, <1>7 DEF Next

-----------------------------------------------------------------------------
(* Blocks behind a header, and sums over some of the blocks held.          *)

\* NULL is no address, no block and no answer.
LEMMA NullLemma ==
  NULL \notin Addresses /\ NULL \notin Blocks /\ NULL \notin Results
  <1>1. Addresses \subseteq [data : HostBlocks \cup Blobs, off : 0..UINT32_MAX]
    BY DEF Addresses, Multiples
  <1>2. Blocks \subseteq [data : HostBlocks \cup Blobs, off : 0..UINT32_MAX, size : 0..UINT32_MAX]
    <2>1. Multiples \subseteq 0..UINT32_MAX /\ 1..UINT32_MAX \subseteq 0..UINT32_MAX
      BY DEF Multiples
    <2> QED BY <2>1 DEF Blocks
  <1> QED BY <1>1, <1>2, JsonAssumption

\* A header names the block behind it, and no two headers the same.
LEMMA NamedLemma ==
  ASSUME AllocatorOK, HoldersOK
  PROVE  /\ \A a \in DOMAIN header :
              /\ a \in Addresses /\ named(a) \in live /\ address(named(a)) = a
              /\ named(a).data = a.data /\ named(a).off = a.off
              /\ named(a).size = header[a] /\ header[a] \in 1..UINT32_MAX
         /\ \A b \in live : address(b) \in DOMAIN header => b = named(address(b))
         /\ headered \subseteq live
  <1>1. ASSUME NEW a \in DOMAIN header
        PROVE  /\ a \in Addresses /\ named(a) \in live /\ address(named(a)) = a
               /\ named(a).data = a.data /\ named(a).off = a.off
               /\ named(a).size = header[a] /\ header[a] \in 1..UINT32_MAX
    <2>1. a \in Addresses /\ named(a) \in live
      BY DEF HoldersOK, headered
    <2>2. named(a) \in Blocks
      BY <2>1 DEF AllocatorOK, Sound
    <2>3. named(a).data = a.data /\ named(a).off = a.off /\ named(a).size = header[a]
      BY DEF named, Block
    <2>4. address(named(a)) = a
      BY <2>1, <2>3 DEF address, Addresses
    <2> QED BY <2>1, <2>2, <2>3, <2>4 DEF Blocks
  <1>2. ASSUME NEW b \in live, address(b) \in DOMAIN header
        PROVE  b = named(address(b))
    BY <1>1, <1>2, AddressesApart DEF AllocatorOK
  <1> QED BY <1>1, <1>2 DEF headered

\* The sum over some of the blocks is what the others leave of the whole.
LEMMA HeldDifference ==
  ASSUME NEW L, IsFiniteSet(L), L \subseteq Blocks, NEW N, N \subseteq L
  PROVE  /\ Held(L \ N) = Held(L) - Held(N)
         /\ Held(L) \in Nat /\ Held(N) \in Nat /\ Held(L \ N) \in Nat
         /\ Held(N) <= Held(L)
  <1> DEFINE w == [b \in L |-> Reserved(b)]
  <1>1. w \in [L -> Int]
    BY BlockLemma
  <1>2. IsFiniteSet(N) /\ IsFiniteSet(L \ N)
    BY FS_Subset
  <1>3. ASSUME NEW M, M \subseteq L, IsFiniteSet(M)
        PROVE  Held(M) = SumFunctionOnSet(w, M)
    <2> DEFINE v == [b \in M |-> Reserved(b)]
    <2>1. \A x \in M : v[x] = w[x] /\ v[x] \in Int
      BY <1>1, <1>3
    <2>2. Held(M) = SumFunctionOnSet(v, M)
      BY DEF Held
    <2> HIDE DEF v, w
    <2> QED BY <1>3, <2>1, <2>2, SumAgrees
  <1>4. SumFunctionOnSet(w, L \ N) = SumFunctionOnSet(w, L) - SumFunctionOnSet(w, N)
    <2> HIDE DEF w
    <2> QED BY <1>1, SumDifference
  <1>5. Held(L \ N) = SumFunctionOnSet(w, L \ N)
    BY <1>2, <1>3
  <1>6. Held(L) = SumFunctionOnSet(w, L)
    BY <1>3
  <1>7. Held(N) = SumFunctionOnSet(w, N)
    BY <1>2, <1>3
  <1>8. Held(L \ N) \in Nat
    BY <1>2, HeldLemma
  <1>9. Held(L) \in Nat /\ Held(N) \in Nat
    BY <1>2, HeldLemma
  <1> HIDE DEF w
  <1> QED BY <1>4, <1>5, <1>6, <1>7, <1>8, <1>9

\* What the blocks from an offset on take fits between it and the index.
LEMMA HeldPacks ==
  ASSUME NEW m, NEW h, NEW L, NEW st, Sound(m, h, L, st), m.type \in {OWNED, EXTERNAL},
         NEW N, N \subseteq L, NEW lo \in Nat, lo <= m.last_index, \A b \in N : lo <= b.off
  PROVE  Held(N) <= m.last_index - lo
  <1> DEFINE at == [b \in N |-> b.off]
             w  == [b \in N |-> Reserved(b)]
  <1>1. /\ ArenaHolds(m, h, L, st) /\ IsFiniteSet(L) /\ L \subseteq Blocks
        /\ m.last_index \in Nat
    BY DEF Sound, Handle, Multiples
  <1>2. IsFiniteSet(N)
    BY <1>1, FS_Subset
  <1>3. at \in [N -> Nat] /\ w \in [N -> Nat]
    BY <1>1, BlockLemma
  <1>4. ASSUME NEW b \in N, NEW c \in N, b # c
        PROVE  at[b] + w[b] <= at[c] \/ at[c] + w[c] <= at[b]
    <2>1. ~Overlap(b, c) /\ b.data = c.data
      BY <1>1, <1>4 DEF ArenaHolds
    <2>2. b.off \in Nat /\ c.off \in Nat /\ Reserved(b) \in Nat /\ Reserved(c) \in Nat
      BY <1>1, BlockLemma
    <2> QED BY <2>1, <2>2 DEF Overlap
  <1>5. \A b \in N : lo <= at[b] /\ at[b] + w[b] <= m.last_index
    BY <1>1 DEF ArenaHolds
  <1>6. Held(N) = SumFunctionOnSet(w, N)
    BY DEF Held
  <1> HIDE DEF at, w
  <1> QED BY <1>1, <1>2, <1>3, <1>4, <1>5, <1>6, Packing

\* A run that reaches from its first block to the index goes back at once: no
\* other block lies in it.
LEMMA RunSound ==
  ASSUME NEW m, NEW h, NEW L, NEW st, Sound(m, h, L, st), m.type \in {OWNED, EXTERNAL},
         NEW N, N \subseteq L, NEW f \in N, \A b \in N : f.off <= b.off,
         m.last_index - Held(N) = f.off
  PROVE  Sound(bump(m, -Held(N)), h, L \ N, st)
  <1> DEFINE a == [m EXCEPT !.last_index = @ + (-Held(N))]
  <1>1. /\ ArenaHolds(m, h, L, st) /\ IsFiniteSet(L) /\ L \subseteq Blocks
        /\ m.last_index \in Nat /\ m \in Handle /\ m.last_index <= m.capacity /\ st \in Nat
        /\ m.capacity \in Nat
    BY DEF Sound, Handle, Multiples
  <1>2. /\ Held(L \ N) = Held(L) - Held(N) /\ Held(L) \in Nat /\ Held(N) \in Nat
        /\ IsFiniteSet(L \ N) /\ IsFiniteSet(N)
    BY <1>1, HeldDifference, FS_Subset
  <1>3. f.off \in Multiples /\ f.off \in Nat /\ f.off <= m.last_index
    <2>1. f \in Blocks
      BY <1>1
    <2>2. f.off \in Multiples /\ f.off \in Nat
      BY <2>1, BlockLemma
    <2> QED BY <1>1, <1>2, <2>2
  <1>4. /\ a.last_index = f.off /\ a.data = m.data /\ a.type = m.type
        /\ a.capacity = m.capacity /\ a \in Handle /\ a.last_index <= a.capacity
    <2>1. a.last_index = m.last_index + (-Held(N)) /\ a.data = m.data /\ a.type = m.type
          /\ a.capacity = m.capacity
      BY <1>1 DEF Handle
    <2>2. m.last_index + (-Held(N)) = f.off
      <3> HIDE DEF a
      <3> QED BY <1>1, <1>2, <1>3
    <2>3. f.off <= m.capacity
      BY <1>1, <1>3
    <2>4. a \in Handle
      BY <1>1, <1>3, <2>2 DEF Handle
    <2> QED BY <2>1, <2>2, <2>3, <2>4
  <1>5. ASSUME NEW c \in L \ N
        PROVE  c.off + Reserved(c) <= f.off
    <2>1. /\ c \in Blocks /\ f \in Blocks
          /\ c.off \in Nat /\ Reserved(c) \in Nat /\ Reserved(c) # 0
          /\ Reserved(f) \in Nat /\ Reserved(f) # 0
      BY <1>1, BlockLemma DEF ArenaHolds
    <2>2. CASE c.off >= f.off
      <3>1. Held(N \cup {c}) <= m.last_index - f.off
        <4>1. N \cup {c} \subseteq L /\ \A b \in N \cup {c} : f.off <= b.off
          BY <2>1, <2>2, <1>3
        <4> QED BY <1>3, <4>1, HeldPacks
      <3>2. Held(N \cup {c}) = Held(N) + Reserved(c)
        <4>1. N \subseteq Blocks /\ c \in Blocks \ N
          BY <1>1, <2>1
        <4> QED BY <1>2, <4>1, HeldLemma
      <3> QED BY <1>1, <1>2, <1>3, <2>1, <3>1, <3>2
    <2>3. CASE c.off < f.off
      <3>1. ~Overlap(c, f) /\ c.data = f.data
        BY <1>1 DEF ArenaHolds
      <3> QED BY <1>3, <2>1, <2>3, <3>1 DEF Overlap
    <2> QED BY <1>3, <2>1, <2>2, <2>3
  <1>6. ArenaHolds(a, h, L \ N, st)
    <2>1. a.last_index = Held(L \ N) + st
      <3>1. m.last_index = Held(L) + st
        BY <1>1 DEF ArenaHolds
      <3> HIDE DEF a
      <3> QED BY <1>1, <1>2, <1>4, <3>1
    <2> HIDE DEF a
    <2> QED BY <1>1, <1>4, <1>5, <2>1 DEF ArenaHolds
  <1>7. Sound(a, h, L \ N, st)
    <2>1. h \subseteq HostBlocks
      BY DEF Sound
    <2> HIDE DEF a
    <2> QED BY <1>1, <1>2, <1>4, <1>6, <2>1 DEF Sound, HOST, OWNED, EXTERNAL, NONE
  <1> QED BY <1>7 DEF bump

-----------------------------------------------------------------------------
(* The headered hooks.                                                     *)

\* A step that puts one block in the place of others takes that block.
LEMMA TakenLemma ==
  ASSUME NEW c, NEW gone, Takes(c, gone)
  PROVE  taken = c /\ c \in live' /\ live' # live
  BY DEF Takes, taken

\* What is known once a block behind a header was asked for.
BlockAllocDone(size) ==
  /\ AllocatorOK' /\ Stays /\ stranded' = stranded
  /\ \/ /\ result' \notin {SUCCESS, NOT_RECLAIMED}
        /\ live' = live /\ context' = context /\ header' = header
     \/ /\ result' = SUCCESS
        /\ taken.size = size + HEADER /\ taken \in Blocks \ live
        /\ is_arena => taken.off = memory.last_index
        /\ live' = live \cup {taken}
        /\ context' = charged(context, size + HEADER)
        /\ address(taken) \in Addresses \ DOMAIN header
        /\ DOMAIN header' = DOMAIN header \cup {address(taken)}
        /\ \A a \in DOMAIN header : named(a)' = named(a)
        /\ headered' = headered \cup {taken}

\* json_block_alloc puts a new header in front of a new block, or does nothing.
LEMMA BlockAllocStep ==
  ASSUME AllocatorOK, HoldersOK, NEW size \in Nat, json_block_alloc(size)
  PROVE  BlockAllocDone(size)
  <1>1. CASE size > JSON_BLOCK_MAX_PAYLOAD
    <2>1. Refuse(OUT_OF_MEMORY) /\ context' = context /\ header' = header
      BY <1>1 DEF json_block_alloc
    <2> QED BY <2>1, RefuseStep, ResultsApart DEF BlockAllocDone
  <1>2. CASE ~(size > JSON_BLOCK_MAX_PAYLOAD)
    <2>1. size + HEADER \in 0..UINT32_MAX
      BY <1>2, WidthAssumption DEF JSON_BLOCK_MAX_PAYLOAD, ARNM_MAX_ALLOC_SIZE, HEADER
    <2>2. AllocDone(size + HEADER)
      BY <1>2, <2>1, AllocStep DEF json_block_alloc
    <2>3. CASE result' = SUCCESS
      <3>1. PICK c : /\ Takes(c, {}) /\ c.size = size + HEADER
                     /\ is_arena => c.off = memory.last_index
        BY <2>2, <2>3 DEF AllocDone
      <3>2. taken = c
        BY <3>1, TakenLemma
      <3> DEFINE x == address(taken)
      <3>3. /\ context' = charged(context, size + HEADER)
            /\ header' = [a \in DOMAIN header \cup {x} |->
                            IF a = x THEN size + HEADER ELSE header[a]]
        BY <1>2, <2>3 DEF json_block_alloc
      <3>4. c \in Blocks \ live /\ live' = live \cup {c}
        BY <3>1 DEF Takes
      <3>5. x \in Addresses
        BY <3>2, <3>4 DEF Blocks, Addresses, address
      <3>6. x \notin DOMAIN header
        BY <3>1, <3>2, NamedLemma DEF Takes
      <3>7. DOMAIN header' = DOMAIN header \cup {x}
        BY <3>3
      <3>8. \A a \in DOMAIN header : named(a)' = named(a)
        BY <3>3, <3>6 DEF named
      <3>9. ASSUME NEW y, y = x PROVE named(y)' = c
        <4>1. header'[y] = c.size
          BY <3>1, <3>3, <3>9
        <4>2. y = address(c)
          BY <3>2, <3>9
        <4> HIDE DEF x
        <4> QED BY <3>4, <4>1, <4>2 DEF named, Block, address, Blocks
      <3>10. headered' = headered \cup {c}
        <4> HIDE DEF x
        <4> QED BY <3>7, <3>8, <3>9 DEF headered
      <3>11. AllocatorOK' /\ Stays /\ stranded' = stranded
        BY <2>2 DEF AllocDone
      <3>12. DOMAIN header' = DOMAIN header \cup {address(taken)}
             /\ address(taken) \in Addresses \ DOMAIN header
        BY <3>5, <3>6, <3>7
      <3> HIDE DEF x
      <3> QED BY <2>3, <3>1, <3>2, <3>3, <3>4, <3>8, <3>10, <3>11, <3>12 DEF BlockAllocDone
    <2>4. CASE result' # SUCCESS
      <3>1. context' = context /\ header' = header
        BY <1>2, <2>4 DEF json_block_alloc
      <3> QED BY <2>2, <2>4, <3>1 DEF AllocDone, BlockAllocDone
    <2> QED BY <2>3, <2>4
  <1> QED BY <1>1, <1>2

\* What is known once the block behind a header was given back.
DisposeDone(a) ==
  /\ AllocatorOK' /\ Stays
  /\ DOMAIN header' = DOMAIN header \ {a}
  /\ \A x \in DOMAIN header \ {a} : named(x)' = named(x)
  /\ headered' = headered \ {named(a)} /\ live' = live \ {named(a)}
  /\ \/ /\ result' = SUCCESS /\ stranded' = stranded
     \/ /\ result' = NOT_RECLAIMED /\ stranded' > stranded

\* json_block_dispose drops the block and its header.
LEMMA DisposeStep ==
  ASSUME AllocatorOK, HoldersOK, NEW a \in DOMAIN header, json_block_dispose(a)
  PROVE  DisposeDone(a)
  <1>1. named(a) \in live /\ FreeDone(named(a))
    BY FreeStep DEF json_block_dispose
  <1>2. /\ live' = live \ {named(a)}
        /\ header' = [x \in DOMAIN header \ {a} |-> header[x]]
    BY DEF json_block_dispose
  <1>3. DOMAIN header' = DOMAIN header \ {a}
    BY <1>2
  <1>4. \A x \in DOMAIN header \ {a} : named(x)' = named(x)
    BY <1>2 DEF named
  <1>5. headered' = headered \ {named(a)}
    <2>1. \A x \in DOMAIN header \ {a} : named(x) # named(a)
      BY NamedLemma
    <2> QED BY <1>3, <1>4, <2>1 DEF headered
  <1>6. \/ /\ result' = SUCCESS /\ stranded' = stranded
        \/ /\ result' = NOT_RECLAIMED /\ stranded' > stranded
    <2>1. stranded \in Nat
      BY DEF AllocatorOK, Sound
    <2> QED BY <1>1, <1>2, <2>1 DEF FreeDone
  <1> QED BY <1>1, <1>2, <1>3, <1>4, <1>5, <1>6 DEF DisposeDone, FreeDone

\* What is known once the block behind a header was resized.
BlockReallocDone(a) ==
  /\ AllocatorOK' /\ Stays
  /\ context' = [context EXCEPT !.broken = TRUE] \/ context' = context
  /\ \/ live' = live /\ header' = header
     \/ /\ result' \in {SUCCESS, NOT_RECLAIMED} /\ live' # live
        /\ taken \in Blocks \ live
        /\ live' = (live \ {named(a)}) \cup {taken}
        /\ address(taken) \in Addresses \ (DOMAIN header \ {a})
        /\ DOMAIN header' = (DOMAIN header \ {a}) \cup {address(taken)}
        /\ headered' = (headered \ {named(a)}) \cup {taken}

\* json_block_realloc moves the header with the block.
LEMMA BlockReallocStep ==
  ASSUME AllocatorOK, HoldersOK, NEW a \in DOMAIN header,
         NEW size \in Nat, json_block_realloc(a, size)
  PROVE  BlockReallocDone(a)
  <1>1. CASE size > JSON_BLOCK_MAX_PAYLOAD
    <2>1. Refuse(OUT_OF_MEMORY) /\ context' = context /\ header' = header
      BY <1>1 DEF json_block_realloc
    <2> QED BY <2>1, RefuseStep, ResultsApart DEF BlockReallocDone
  <1>2. CASE ~(size > JSON_BLOCK_MAX_PAYLOAD)
    <2>1. size + HEADER \in 1..UINT32_MAX
      BY <1>2, WidthAssumption DEF JSON_BLOCK_MAX_PAYLOAD, ARNM_MAX_ALLOC_SIZE, HEADER
    <2>2. arnm_realloc(named(a), size + HEADER)
      BY <1>2 DEF json_block_realloc
    <2>3. named(a) \in live /\ ReallocDone(named(a), size + HEADER)
      BY <2>1, <2>2, ReallocStep
    <2>4. /\ context' = [context EXCEPT !.broken = TRUE]
          /\ header' = IF live' = live THEN header
                       ELSE [x \in (DOMAIN header \ {a}) \cup {address(taken)} |->
                               IF x = address(taken) THEN size + HEADER ELSE header[x]]
      BY <1>2 DEF json_block_realloc
    <2>5. CASE live' = live
      BY <2>3, <2>4, <2>5 DEF ReallocDone, BlockReallocDone
    <2>6. ASSUME result' \in {SUCCESS, NOT_RECLAIMED},
                 NEW c, Takes(c, {named(a)}), c.size = size + HEADER
          PROVE  BlockReallocDone(a)
      <3>1. taken = c /\ live' # live
        BY <2>6, TakenLemma
      <3> DEFINE x == address(c)
      <3>2. header' = [y \in (DOMAIN header \ {a}) \cup {x} |->
                         IF y = x THEN size + HEADER ELSE header[y]]
        BY <2>4, <3>1
      <3>3. c \in Blocks \ live /\ live' = (live \ {named(a)}) \cup {c}
        BY <2>6 DEF Takes
      <3>4. x \in Addresses
        BY <3>3 DEF Blocks, Addresses, address
      <3>5. x \notin DOMAIN header \ {a}
        <4>1. \A y \in DOMAIN header \ {a} : named(y) \in live \ {named(a)} /\ address(named(y)) = y
          BY NamedLemma
        <4> QED BY <2>6, <4>1 DEF Takes
      <3>6. DOMAIN header' = (DOMAIN header \ {a}) \cup {x}
        BY <3>2
      <3>7. \A y \in DOMAIN header \ {a} : named(y)' = named(y)
        BY <3>2, <3>5 DEF named
      <3>8. named(x)' = c
        <4>1. header'[x] = c.size
          BY <2>6, <3>2
        <4> QED BY <3>3, <4>1 DEF named, Block, address, Blocks
      <3>9. headered \ {named(a)} = {named(y) : y \in DOMAIN header \ {a}}
        <4>1. \A y \in DOMAIN header \ {a} : named(y) # named(a)
          BY NamedLemma
        <4> QED BY <4>1 DEF headered
      <3>10. headered' = (headered \ {named(a)}) \cup {c}
        <4> HIDE DEF x
        <4> QED BY <3>6, <3>7, <3>8, <3>9 DEF headered
      <3> QED BY <2>3, <2>4, <2>6, <3>1, <3>3, <3>4, <3>5, <3>6, <3>10
           DEF BlockReallocDone, ReallocDone
    <2> QED BY <2>3, <2>5, <2>6 DEF ReallocDone
  <1> QED BY <1>1, <1>2

\* A run that grows by a block stays the sum of its blocks, and in an arena it
\* always fits the width.
LEMMA RunGrows ==
  ASSUME AllocatorOK, HoldersOK, RunOK, NEW size \in Nat, BlockAllocDone(size),
         phase # "free", role = "writer"
  PROVE  /\ context' \in [kept : BOOLEAN, broken : BOOLEAN, span : Multiples]
         /\ is_arena => ~context'.broken
         /\ ~context'.broken => context'.span = Held(headered')
  <1>1. CASE context' = context /\ header' = header
    BY <1>1 DEF RunOK, headered, named
  <1>2. CASE result' = SUCCESS
    <2> DEFINE c == taken
               n == arnm_align8_u32(size + HEADER)
    <2>1. /\ c.size = size + HEADER /\ c \in Blocks \ live
          /\ live' = live \cup {c} /\ headered' = headered \cup {c}
          /\ context' = charged(context, size + HEADER)
      BY <1>2, ResultsApart DEF BlockAllocDone
    <2>2. Reserved(c) = n /\ n \in Multiples /\ n \in Nat
      BY <2>1, BlockLemma DEF Reserved
    <2>3. /\ IsFiniteSet(live) /\ live \subseteq Blocks /\ headered \subseteq live
          /\ IsFiniteSet(headered)
      <3>1. IsFiniteSet(live) /\ live \subseteq Blocks /\ headered \subseteq live
        BY NamedLemma DEF AllocatorOK, Sound
      <3> QED BY <3>1, FS_Subset
    <2>4. /\ context.span \in Multiples /\ context.kept \in BOOLEAN /\ context.broken \in BOOLEAN
          /\ is_arena => ~context.broken
          /\ ~context.broken => context.span = Held(headered)
      BY DEF RunOK
    <2>5. Held(headered \cup {c}) = Held(headered) + n /\ Held(headered) \in Nat
      <3>1. c \in Blocks \ headered /\ headered \subseteq Blocks
        BY <2>1, <2>3
      <3> HIDE DEF c, n
      <3> QED BY <2>2, <2>3, <3>1, HeldLemma
    <2>6. is_arena => Held(headered) + n <= UINT32_MAX
      <3>1. SUFFICES ASSUME is_arena PROVE Held(headered) + n <= UINT32_MAX
        OBVIOUS
      <3>2. /\ Sound(memory', host', live', stranded')
            /\ memory'.type \in {OWNED, EXTERNAL}
        BY <3>1 DEF BlockAllocDone, AllocatorOK, Stays, is_arena
      <3>3. /\ ArenaHolds(memory', host', live', stranded') /\ stranded' \in Nat
            /\ memory'.last_index \in 0..UINT32_MAX
            /\ IsFiniteSet(live') /\ live' \subseteq Blocks
        BY <3>2 DEF Sound, Handle, Multiples
      <3>4. memory'.last_index = Held(live') + stranded'
        BY <3>3 DEF ArenaHolds
      <3>5. headered \cup {c} \subseteq live'
        BY <2>1, <2>3
      <3>6. Held(headered \cup {c}) <= Held(live') /\ Held(live') \in Nat
        BY <3>3, <3>5, HeldDifference
      <3>7. Held(headered) + n <= memory'.last_index
        <4> HIDE DEF c, n
        <4> QED BY <2>2, <2>5, <3>3, <3>4, <3>6
      <3>8. memory'.last_index \in Nat /\ memory'.last_index <= UINT32_MAX
        BY <3>3, WidthAssumption
      <3> HIDE DEF c, n
      <3> QED BY <2>2, <2>5, <3>7, <3>8, WidthAssumption
    <2>7. CASE n > UINT32_MAX - context.span
      <3>1. context' = [context EXCEPT !.broken = TRUE]
        BY <2>1, <2>7 DEF charged
      <3>2. ~is_arena
        <4>1. is_arena => context.span = Held(headered)
          BY <2>4
        <4> HIDE DEF n, c
        <4> QED BY <2>2, <2>5, <2>6, <2>7, <4>1, WidthAssumption
      <3>3. context'.broken = TRUE /\ context' \in [kept : BOOLEAN, broken : BOOLEAN, span : Multiples]
        BY <3>1 DEF RunOK
      <3> QED BY <3>2, <3>3
    <2>8. CASE ~(n > UINT32_MAX - context.span)
      <3>1. context' = [context EXCEPT !.span = context.span + n]
        BY <2>1, <2>8 DEF charged
      <3>2. context.span + n \in Multiples
        <4> HIDE DEF n
        <4> QED BY <2>2, <2>4, <2>8, WidthAssumption DEF Multiples
      <3>3. context' \in [kept : BOOLEAN, broken : BOOLEAN, span : Multiples]
            /\ context'.broken = context.broken /\ context'.span = context.span + n
        BY <3>1, <3>2 DEF RunOK
      <3> HIDE DEF n, c
      <3> QED BY <2>1, <2>4, <2>5, <3>3
    <2> QED BY <2>7, <2>8
  <1> QED BY <1>1, <1>2 DEF BlockAllocDone

-----------------------------------------------------------------------------
(* Documents.                                                              *)

\* A document is given back name by name, each of its blocks once.
LEMMA ReleaseOrder ==
  ASSUME NEW d \in Documents, d.first # NULL, NamesOnce(d)
  PROVE  /\ in_release_order(d) \in Seq(Addresses)
         /\ in_release_order(d) # <<>>
         /\ Range(in_release_order(d)) = doc_blocks(d)
         /\ IsInjective(in_release_order(d))
  <1> DEFINE s == d.strings
             v == d.values
             f == << d.first >>
  <1>1. s \in Seq(Addresses) /\ v \in Seq(Addresses) /\ d.first \in Addresses
    BY DEF Documents
  <1>2. f \in Seq(Addresses) /\ Range(f) = {d.first} /\ IsInjective(f) /\ Len(f) = 1
    BY <1>1 DEF Range, IsInjective
  <1>3. /\ Range(s) \cap Range(v) = {} /\ IsInjective(s) /\ IsInjective(v)
        /\ d.first \notin Range(s) \cup Range(v)
    BY DEF NamesOnce
  <1>4. in_release_order(d) = (s \o v) \o f
    BY <1>1, <1>2 DEF in_release_order
  <1>5. doc_blocks(d) = Range(s) \cup Range(v) \cup {d.first}
    BY DEF doc_blocks
  <1> HIDE DEF s, v, f
  <1> DEFINE u == s \o v
  <1>6. /\ u \in Seq(Addresses) /\ Range(u) = Range(s) \cup Range(v) /\ IsInjective(u)
    BY <1>1, <1>3, AppendLemma
  <1>7. Len(u) \in Nat
    BY <1>6
  <1> HIDE DEF u
  <1>8. Range(u) \cap Range(f) = {}
    BY <1>2, <1>3, <1>6
  <1>9. /\ u \o f \in Seq(Addresses) /\ Len(u \o f) = Len(u) + Len(f)
        /\ Range(u \o f) = Range(u) \cup Range(f) /\ IsInjective(u \o f)
    <2>1. /\ f \in Seq(Addresses) /\ u \in Seq(Addresses)
      BY <1>2, <1>6
    <2>2. IsInjective(u) /\ IsInjective(f)
      BY <1>2, <1>6
    <2>3. u \o f \in Seq(Addresses) /\ Len(u \o f) = Len(u) + Len(f)
      BY <2>1, AppendLemma
    <2>4. Range(u \o f) = Range(u) \cup Range(f)
      BY <2>1, AppendLemma
    <2>5. IsInjective(u \o f)
      BY <2>1, <2>2, <1>8, AppendLemma
    <2> QED BY <2>3, <2>4, <2>5
  <1>10. u \o f # <<>>
    <2>1. Len(u \o f) # 0
      BY <1>2, <1>7, <1>9
    <2> QED BY <2>1
  <1>11. in_release_order(d) = u \o f
    BY <1>4 DEF u
  <1>12. Range(u \o f) = doc_blocks(d)
    BY <1>2, <1>5, <1>6, <1>9
  <1> QED BY <1>9, <1>10, <1>11, <1>12
\* No document names no block.
LEMMA EmptyDoc ==
  NO_DOC \in Documents /\ doc_blocks(NO_DOC) = {} /\ NamesOnce(NO_DOC) /\ NO_DOC.first = NULL
  <1>1. <<>> \in Seq(Addresses) /\ Range(<<>>) = {} /\ IsInjective(<<>>)
    BY DEF Range, IsInjective
  <1>2. NO_DOC.first = NULL /\ NO_DOC.strings = <<>> /\ NO_DOC.values = <<>>
    BY DEF NO_DOC
  <1>3. NO_DOC \in Documents
    BY <1>1 DEF NO_DOC, Documents
  <1> QED BY <1>1, <1>2, <1>3 DEF doc_blocks, NamesOnce

\* A call that answers for no document owes no answer.
LEMMA Unanswered ==
  ASSUME answer' = NULL, kept_before' \in Nat, phase' # "storage",
         phase' = "free" => then' # "storage"
  PROVE  AnswerOK'
  BY DEF AnswerOK

\* Where the document is left alone its run is too.
LEMMA RunStays ==
  ASSUME RunOK, Stays, phase # "free", phase' # "free", header' = header,
         doc'.first = doc.first, role' = role, context' = context
  PROVE  RunOK'
  <1>1. headered' = headered
    BY DEF headered, named
  <1>2. is_arena' = is_arena
    BY DEF Stays, is_arena
  <1> QED BY <1>1, <1>2 DEF RunOK

-----------------------------------------------------------------------------
(* The operations: what each of them leaves behind.                        *)

\* A new reader or writer has a block of its own and no document.
LEMMA CreateStep ==
  ASSUME AllocatorOK, JsonOK, create
  PROVE  AllocatorOK' /\ JsonOK'
  <1>1. /\ phase = "idle" /\ state = NULL /\ buffer = NULL /\ doc = NO_DOC
        /\ then = "idle" /\ pending = <<>> /\ DOMAIN header = {} /\ headered = {}
    <2>1. phase = "idle" /\ state = NULL
      BY DEF create, idle
    <2>2. /\ buffer = NULL /\ doc = NO_DOC /\ then = "idle" /\ pending = <<>>
          /\ DOMAIN header = doc_blocks(doc)
      BY <2>1 DEF JsonOK, DocumentOK
    <2> QED BY <2>1, <2>2, EmptyDoc DEF headered
  <1>2. AllocDone(STATE_SIZE)
    BY AllocStep, JsonAssumption DEF create
  <1>3. /\ state' = (IF result' = SUCCESS THEN taken ELSE NULL)
        /\ context' = fresh_context /\ answer' = NULL /\ kept_before' = 0
        /\ UNCHANGED <<role, buffer, others, header, doc, phase, then, pending>>
    BY DEF create, unanswered, quiet
  <1>4. headered' = {}
    BY <1>1, <1>3 DEF headered
  <1>5. HoldersOK'
    <2>1. /\ memory'.type \in {HOST, EXTERNAL} /\ live = others
          /\ IsFiniteSet(DOMAIN header') /\ DOMAIN header' \subseteq Addresses
      BY <1>1, <1>2, <1>3 DEF JsonOK, HoldersOK, AllocDone, Stays
    <2>2. CASE live' = live /\ result' # SUCCESS
      BY <1>1, <1>3, <1>4, <2>1, <2>2 DEF HoldersOK
    <2>3. ASSUME result' = SUCCESS, NEW c, Takes(c, {})
          PROVE  HoldersOK'
      <3>1. state' = c /\ c # NULL /\ c \notin live /\ live' = live \cup {c}
        BY <1>3, <2>3, TakenLemma, NullLemma DEF Takes
      <3> QED BY <1>1, <1>3, <1>4, <2>1, <3>1 DEF HoldersOK
    <2> QED BY <1>2, <2>2, <2>3 DEF AllocDone
  <1>6. DocumentOK'
    <2>1. state' = NULL => phase' = "idle" /\ doc' = NO_DOC
      BY <1>1, <1>3
    <2> QED BY <1>1, <1>3, <2>1 DEF JsonOK, DocumentOK, phases, successors
  <1>7. RunOK'
    <2>1. Held({}) = 0 /\ 0 \in Multiples
      BY WidthAssumption, HeldLemma, FS_EmptySet DEF Multiples
    <2>2. context' \in [kept : BOOLEAN, broken : BOOLEAN, span : Multiples]
          /\ ~context'.broken /\ context'.span = 0
      BY <1>3, <2>1 DEF fresh_context
    <2> QED BY <1>1, <1>3, <1>4, <2>1, <2>2 DEF RunOK
  <1>8. AnswerOK'
    BY <1>1, <1>3, Unanswered
  <1> QED BY <1>2, <1>5, <1>6, <1>7, <1>8 DEF JsonOK, AllocDone

\* The block of the reader or writer goes last, and the warning stands.
LEMMA StorageFreedStep ==
  ASSUME AllocatorOK, JsonOK, storage_freed
  PROVE  AllocatorOK' /\ JsonOK'
  <1>1. /\ phase = "storage" /\ arnm_free(state) /\ live' = live \ {state}
        /\ state' = NULL /\ answer' = destroyed(answer, result') /\ phase' = "idle"
        /\ UNCHANGED <<role, buffer, others, context, header, doc, kept_before, then, pending>>
    BY DEF storage_freed, quiet
  <1>2. state \in live /\ FreeDone(state)
    BY <1>1, FreeStep
  <1>3. /\ state # NULL /\ doc = NO_DOC /\ buffer = NULL /\ answer # NULL
        /\ then = "idle" /\ pending = <<>> /\ DOMAIN header = doc_blocks(doc) /\ NamesOnce(doc)
    BY <1>1 DEF JsonOK, DocumentOK, AnswerOK
  <1>4. headered' = headered
    BY <1>1 DEF headered, named
  <1>5. HoldersOK'
    BY <1>1, <1>2, <1>3, <1>4 DEF JsonOK, HoldersOK, FreeDone, Stays
  <1>6. DocumentOK'
    BY <1>1, <1>3 DEF JsonOK, DocumentOK, phases, successors
  <1>7. RunOK'
    BY <1>1, <1>2, RunStays DEF JsonOK, FreeDone
  <1>8. AnswerOK'
    <2>1. told /\ kept_before \in Nat /\ stranded \in Nat /\ stranded' \in Nat
      BY <1>1, <1>2, <1>3 DEF JsonOK, AnswerOK, FreeDone, AllocatorOK, Sound
    <2>2. \/ result' = SUCCESS /\ stranded' = stranded
          \/ result' = NOT_RECLAIMED /\ stranded' > stranded
      <3>1. live' # live
        BY <1>1, <1>2
      <3> QED BY <1>2, <2>1, <3>1 DEF FreeDone
    <2>3. answer' = NOT_RECLAIMED <=> stranded' > kept_before
      <3>1. answer' = NOT_RECLAIMED <=> answer = NOT_RECLAIMED \/ result' = NOT_RECLAIMED
        BY <1>1, <2>2, ResultsApart DEF destroyed
      <3>2. answer = NOT_RECLAIMED <=> stranded > kept_before
        BY <2>1 DEF told
      <3>3. stranded' > kept_before <=> stranded > kept_before \/ result' = NOT_RECLAIMED
        BY <2>1, <2>2, ResultsApart DEF told
      <3> QED BY <3>1, <3>2, <3>3
    <2>4. stranded' >= kept_before
      BY <2>1, <2>2 DEF told
    <2> QED BY <1>1, <2>1, <2>3, <2>4 DEF AnswerOK, told
  <1> QED BY <1>2, <1>5, <1>6, <1>7, <1>8 DEF JsonOK, FreeDone

\* Another user's block is new to everybody.
LEMMA OtherTakesStep ==
  ASSUME AllocatorOK, JsonOK, other_takes
  PROVE  AllocatorOK' /\ JsonOK'
  <1>1. /\ phase = "idle" /\ others' = others \cup (live' \ live)
        /\ answer' = NULL /\ kept_before' = 0
        /\ UNCHANGED <<role, state, buffer, context, header, doc, phase, then, pending>>
    BY DEF other_takes, idle, unanswered, quiet
  <1>2. PICK size \in OtherSizes : AllocDone(size)
    BY AllocStep, JsonAssumption DEF other_takes
  <1>3. headered' = headered
    BY <1>1 DEF headered, named
  <1>4. HoldersOK'
    <2>1. CASE live' = live
      <3>1. others' = others
        BY <1>1, <2>1
      <3> QED BY <1>1, <1>2, <1>3, <2>1, <3>1 DEF JsonOK, HoldersOK, AllocDone, Stays
    <2>2. ASSUME NEW c, Takes(c, {}) PROVE HoldersOK'
      <3>1. c \notin live /\ live' = live \cup {c} /\ others' = others \cup {c}
        BY <1>1, <2>2 DEF Takes
      <3> QED BY <1>1, <1>2, <1>3, <3>1 DEF JsonOK, HoldersOK, AllocDone, Stays
    <2> QED BY <1>2, <2>1, <2>2 DEF AllocDone
  <1>5. DocumentOK'
    BY <1>1 DEF JsonOK, DocumentOK, phases, successors
  <1>6. RunOK'
    BY <1>1, <1>2, RunStays DEF JsonOK, AllocDone
  <1>7. AnswerOK'
    BY <1>1, Unanswered
  <1> QED BY <1>2, <1>4, <1>5, <1>6, <1>7 DEF JsonOK, AllocDone

\* Another user gives back what is its own.
LEMMA OtherGivesStep ==
  ASSUME AllocatorOK, JsonOK, other_gives
  PROVE  AllocatorOK' /\ JsonOK'
  <1>1. /\ phase = "idle" /\ others' = others \cap live'
        /\ answer' = NULL /\ kept_before' = 0
        /\ UNCHANGED <<role, state, buffer, context, header, doc, phase, then, pending>>
    BY DEF other_gives, idle, unanswered, quiet
  <1>2. PICK b \in others : b \in live /\ FreeDone(b)
    BY FreeStep DEF other_gives
  <1>3. headered' = headered
    BY <1>1 DEF headered, named
  <1>4. HoldersOK'
    <2>1. live' = live \/ live' = live \ {b}
      BY <1>2 DEF FreeDone
    <2> QED BY <1>1, <1>2, <1>3, <2>1 DEF JsonOK, HoldersOK, FreeDone, Stays
  <1>5. DocumentOK'
    BY <1>1 DEF JsonOK, DocumentOK, phases, successors
  <1>6. RunOK'
    BY <1>1, <1>2, RunStays DEF JsonOK, FreeDone
  <1>7. AnswerOK'
    BY <1>1, Unanswered
  <1> QED BY <1>2, <1>4, <1>5, <1>6, <1>7 DEF JsonOK, FreeDone

\* A write takes a block for its text, or ends.
LEMMA WriteStep ==
  ASSUME AllocatorOK, JsonOK, write
  PROVE  AllocatorOK' /\ JsonOK'
  <1>1. /\ phase = "idle" /\ role = "writer" /\ doc # NO_DOC
        /\ buffer' = (IF result' = SUCCESS THEN taken ELSE NULL)
        /\ phase' = (IF result' = SUCCESS THEN "serialize" ELSE "idle")
        /\ answer' = NULL /\ kept_before' = 0
        /\ UNCHANGED <<role, state, others, context, header, doc, then, pending>>
    BY DEF write, idle, unanswered, quiet
  <1>2. PICK size \in TextSizes : AllocDone(size)
    <2>1. TextSizes \subseteq 0..UINT32_MAX
      BY JsonAssumption, WidthAssumption DEF ARNM_MAX_ALLOC_SIZE
    <2> QED BY <2>1, AllocStep DEF write
  <1>3. headered' = headered /\ buffer = NULL /\ state # NULL
    BY <1>1 DEF headered, named, JsonOK, DocumentOK
  <1>4. CASE result' # SUCCESS
    <2>1. live' = live /\ buffer' = NULL /\ phase' = "idle"
      BY <1>1, <1>2, <1>4 DEF AllocDone
    <2>2. HoldersOK'
      BY <1>1, <1>2, <1>3, <2>1 DEF JsonOK, HoldersOK, AllocDone, Stays
    <2>3. DocumentOK'
      BY <1>1, <2>1 DEF JsonOK, DocumentOK, phases, successors
    <2> QED BY <1>1, <1>2, <2>1, <2>2, <2>3, RunStays, Unanswered DEF JsonOK, AllocDone
  <1>5. CASE result' = SUCCESS
    <2>1. PICK c : Takes(c, {})
      BY <1>2, <1>5 DEF AllocDone
    <2>2. buffer' = c /\ c # NULL /\ c \notin live /\ live' = live \cup {c}
      BY <1>1, <1>5, <2>1, TakenLemma, NullLemma DEF Takes
    <2>3. phase' = "serialize"
      BY <1>1, <1>5
    <2>4. HoldersOK'
      BY <1>1, <1>2, <1>3, <2>2 DEF JsonOK, HoldersOK, AllocDone, Stays
    <2>5. DocumentOK'
      BY <1>1, <1>3, <2>3 DEF JsonOK, DocumentOK, phases, successors
    <2> QED BY <1>1, <1>2, <2>3, <2>4, <2>5, RunStays, Unanswered DEF JsonOK, AllocDone
  <1> QED BY <1>4, <1>5

\* What is known of a write between its calls.
LEMMA Writing ==
  ASSUME JsonOK, phase \in {"serialize", "unwritten"}
  PROVE  /\ role = "writer" /\ answer = NULL /\ kept_before \in Nat
         /\ state # NULL /\ then = "idle" /\ pending = <<>>
  BY DEF JsonOK, DocumentOK, AnswerOK, phases

\* More room for the text is the same block or one in its place.
LEMMA BufferGrownStep ==
  ASSUME AllocatorOK, JsonOK, buffer_grown
  PROVE  AllocatorOK' /\ JsonOK'
  <1>1. /\ phase = "serialize" /\ phase' \in {"serialize", "unwritten"}
        /\ buffer' = (IF live' = live THEN buffer ELSE taken)
        /\ UNCHANGED <<role, state, others, context, header, doc, then, pending, answer,
                       kept_before>>
    BY DEF buffer_grown, quiet
  <1>2. PICK size \in TextSizes : buffer \in live /\ ReallocDone(buffer, size)
    <2>1. TextSizes \subseteq 1..UINT32_MAX
      BY JsonAssumption, WidthAssumption DEF ARNM_MAX_ALLOC_SIZE
    <2> QED BY <2>1, ReallocStep DEF buffer_grown
  <1>3. /\ headered' = headered /\ buffer # NULL /\ state # NULL
        /\ answer = NULL /\ kept_before \in Nat /\ role = "writer"
    <2>1. live \subseteq Blocks
      BY DEF AllocatorOK, Sound
    <2> QED BY <1>1, <1>2, <2>1, NullLemma, Writing DEF headered, named
  <1>4. HoldersOK'
    <2>1. CASE live' = live
      BY <1>1, <1>2, <1>3, <2>1 DEF JsonOK, HoldersOK, ReallocDone, Stays
    <2>2. ASSUME NEW c, Takes(c, {buffer}) PROVE HoldersOK'
      <3>1. buffer' = c /\ c # NULL /\ c \notin live /\ live' = (live \ {buffer}) \cup {c}
        BY <1>1, <2>2, TakenLemma, NullLemma DEF Takes
      <3> QED BY <1>1, <1>2, <1>3, <3>1 DEF JsonOK, HoldersOK, ReallocDone, Stays
    <2> QED BY <1>2, <2>1, <2>2 DEF ReallocDone
  <1>5. DocumentOK'
    BY <1>1, <1>3 DEF JsonOK, DocumentOK, phases, successors
  <1>6. RunOK'
    BY <1>1, <1>2, RunStays DEF JsonOK, ReallocDone
  <1>7. AnswerOK'
    BY <1>1, <1>3, Unanswered
  <1> QED BY <1>2, <1>4, <1>5, <1>6, <1>7 DEF JsonOK, ReallocDone

\* A text that was not written is given back.
LEMMA UnwrittenStep ==
  ASSUME AllocatorOK, JsonOK, unwritten
  PROVE  AllocatorOK' /\ JsonOK'
  <1>1. /\ phase \in {"serialize", "unwritten"} /\ phase' = "idle"
        /\ buffer' = NULL /\ live' = live \ {buffer}
        /\ UNCHANGED <<role, state, others, context, header, doc, then, pending, answer,
                       kept_before>>
    BY DEF unwritten, quiet
  <1>2. buffer \in live /\ FreeDone(buffer)
    BY FreeStep DEF unwritten
  <1>3. /\ headered' = headered /\ buffer # NULL /\ state # NULL
        /\ answer = NULL /\ kept_before \in Nat /\ role = "writer"
    <2>1. live \subseteq Blocks
      BY DEF AllocatorOK, Sound
    <2> QED BY <1>1, <1>2, <2>1, NullLemma, Writing DEF headered, named
  <1>4. HoldersOK'
    BY <1>1, <1>2, <1>3 DEF JsonOK, HoldersOK, FreeDone, Stays
  <1>5. DocumentOK'
    BY <1>1, <1>3 DEF JsonOK, DocumentOK, phases, successors
  <1>6. RunOK'
    BY <1>1, <1>2, RunStays DEF JsonOK, FreeDone
  <1>7. AnswerOK'
    BY <1>1, <1>3, Unanswered
  <1> QED BY <1>2, <1>4, <1>5, <1>6, <1>7 DEF JsonOK, FreeDone

\* The caller is given the block the allocator knows, under the size it knows.
LEMMA TextWrittenStep ==
  ASSUME AllocatorOK, JsonOK, text_written
  PROVE  AllocatorOK' /\ JsonOK'
  <1>1. /\ phase = "serialize" /\ phase' = "idle" /\ buffer' = NULL
        /\ UNCHANGED <<role, state, context, header, doc, then, pending, answer, kept_before>>
    BY DEF text_written, quiet
  <1>2. PICK needed \in TextSizes :
          /\ buffer \in live /\ ReallocDone(buffer, needed)
          /\ result' = NOT_RECLAIMED => live' = live
          /\ others' = others \cup
               {[buffer EXCEPT !.size = IF result' = SUCCESS THEN needed ELSE @,
                               !.data = IF live' = live THEN @ ELSE taken.data,
                               !.off  = IF live' = live THEN @ ELSE taken.off]}
    <2>1. TextSizes \subseteq 1..UINT32_MAX
      BY JsonAssumption, WidthAssumption DEF ARNM_MAX_ALLOC_SIZE
    <2> QED BY <2>1, ReallocStep DEF text_written
  <1>3. buffer \in Blocks
    BY <1>2 DEF AllocatorOK, Sound
  <1>4. /\ headered' = headered /\ buffer # NULL /\ state # NULL
        /\ answer = NULL /\ kept_before \in Nat /\ role = "writer"
    BY <1>1, <1>3, NullLemma, Writing DEF headered, named
  <1>5. HoldersOK'
    <2>1. CASE live' = live /\ (result' = SUCCESS => needed = buffer.size)
      <3>1. others' = others \cup {buffer}
        <4>1. [buffer EXCEPT !.size = IF result' = SUCCESS THEN needed ELSE @,
                             !.data = IF live' = live THEN @ ELSE taken.data,
                             !.off  = IF live' = live THEN @ ELSE taken.off] = buffer
          BY <1>3, <2>1 DEF Blocks
        <4> QED BY <1>2, <4>1
      <3> QED BY <1>1, <1>2, <1>4, <2>1, <3>1 DEF JsonOK, HoldersOK, ReallocDone, Stays
    <2>2. ASSUME NEW c, Takes(c, {buffer}), c.size = needed,
                 result' \in {SUCCESS, NOT_RECLAIMED}
          PROVE  HoldersOK'
      <3>1. /\ taken = c /\ c \in Blocks /\ c \notin live /\ live' # live
            /\ live' = (live \ {buffer}) \cup {c}
        BY <2>2, TakenLemma DEF Takes
      <3>2. others' = others \cup {c}
        <4>1. result' = SUCCESS
          BY <1>2, <2>2, <3>1
        <4>2. [buffer EXCEPT !.size = IF result' = SUCCESS THEN needed ELSE @,
                             !.data = IF live' = live THEN @ ELSE taken.data,
                             !.off  = IF live' = live THEN @ ELSE taken.off] = c
          BY <1>3, <2>2, <3>1, <4>1 DEF Blocks
        <4> QED BY <1>2, <4>2
      <3> QED BY <1>1, <1>2, <1>4, <3>1, <3>2 DEF JsonOK, HoldersOK, ReallocDone, Stays
    <2> QED BY <1>2, <2>1, <2>2 DEF ReallocDone
  <1>6. DocumentOK'
    BY <1>1, <1>4 DEF JsonOK, DocumentOK, phases, successors
  <1>7. RunOK'
    BY <1>1, <1>2, RunStays DEF JsonOK, ReallocDone
  <1>8. AnswerOK'
    BY <1>1, <1>4, Unanswered
  <1> QED BY <1>2, <1>5, <1>6, <1>7, <1>8 DEF JsonOK, ReallocDone

\* A block behind a header is yyjson's and nobody else's.
LEMMA HoldersGrow ==
  ASSUME HoldersOK, NEW size \in Nat, BlockAllocDone(size), UNCHANGED holder
  PROVE  HoldersOK'
  <1>1. UNCHANGED <<state, buffer, others>> /\ memory'.type = memory.type
    BY DEF holder, BlockAllocDone, Stays
  <1>2. CASE live' = live /\ header' = header
    <2>1. headered' = headered
      BY <1>2 DEF headered, named
    <2> QED BY <1>1, <1>2, <2>1 DEF HoldersOK
  <1>3. CASE result' = SUCCESS
    <2> DEFINE c == taken
               x == address(taken)
    <2>1. /\ c \notin live /\ live' = live \cup {c} /\ headered' = headered \cup {c}
          /\ x \in Addresses /\ DOMAIN header' = DOMAIN header \cup {x}
      BY <1>3, ResultsApart DEF BlockAllocDone
    <2> HIDE DEF c, x
    <2>2. IsFiniteSet(DOMAIN header')
      BY <2>1, FS_AddElement DEF HoldersOK
    <2>3. live' = others' \cup headered' \cup ({state', buffer'} \ {NULL})
      BY <1>1, <2>1 DEF HoldersOK
    <2> QED BY <1>1, <2>1, <2>2, <2>3 DEF HoldersOK
  <1> QED BY <1>2, <1>3 DEF BlockAllocDone

\* A sum that fits is a run again, and one that does not gives the run up.
LEMMA ChargedLemma ==
  ASSUME NEW c \in [kept : BOOLEAN, broken : BOOLEAN, span : Multiples],
         NEW total \in 0..UINT32_MAX
  PROVE  charged(c, total) \in [kept : BOOLEAN, broken : BOOLEAN, span : Multiples]
  <1> DEFINE n == arnm_align8_u32(total)
  <1>1. n \in Multiples /\ c.span \in Multiples
    BY AlignLemma
  <1>2. CASE n > UINT32_MAX - c.span
    BY <1>2 DEF charged
  <1>3. CASE ~(n > UINT32_MAX - c.span)
    <2>1. c.span + n \in Multiples
      <3> HIDE DEF n
      <3> QED BY <1>1, <1>3, WidthAssumption DEF Multiples
    <2>2. charged(c, total) = [c EXCEPT !.span = c.span + n]
      BY <1>3 DEF charged
    <2> HIDE DEF n
    <2> QED BY <2>1, <2>2
  <1> QED BY <1>2, <1>3

\* A reader keeps no run to account for.
LEMMA ReaderRun ==
  ASSUME AllocatorOK, RunOK, role = "reader", role' = role, NEW size \in Nat, BlockAllocDone(size)
  PROVE  RunOK'
  <1>1. CASE context' = context
    BY <1>1 DEF RunOK
  <1>2. CASE result' = SUCCESS
    <2>1. taken \in Blocks /\ taken.size = size + HEADER
          /\ context' = charged(context, size + HEADER)
      BY <1>2, ResultsApart DEF BlockAllocDone
    <2>2. size + HEADER \in 0..UINT32_MAX
      <3>1. size + HEADER \in 1..UINT32_MAX
        BY <2>1 DEF Blocks
      <3> QED BY <3>1, WidthAssumption
    <2>3. context \in [kept : BOOLEAN, broken : BOOLEAN, span : Multiples]
      BY DEF RunOK
    <2>4. context' \in [kept : BOOLEAN, broken : BOOLEAN, span : Multiples]
      BY <2>1, <2>2, <2>3, ChargedLemma
    <2> QED BY <2>4 DEF RunOK
  <1> QED BY <1>1, <1>2 DEF BlockAllocDone

\* What is asked for after the first block comes behind it.
LEMMA WriterRun ==
  ASSUME AllocatorOK, HoldersOK, RunOK, phase # "free", phase' # "free",
         role = "writer", role' = role, NEW size \in Nat, BlockAllocDone(size),
         doc.first \in DOMAIN header, doc'.first = doc.first
  PROVE  RunOK'
  <1>1. /\ context' \in [kept : BOOLEAN, broken : BOOLEAN, span : Multiples]
        /\ is_arena => ~context'.broken
        /\ ~context'.broken => context'.span = Held(headered')
    BY RunGrows
  <1>2. is_arena' = is_arena
    BY DEF BlockAllocDone, Stays, is_arena
  <1>3. is_arena => \A a \in DOMAIN header' : a.off >= doc'.first.off
    <2>1. SUFFICES ASSUME is_arena, NEW a \in DOMAIN header'
                   PROVE  a.off >= doc.first.off
      OBVIOUS
    <2>2. CASE a \in DOMAIN header
      BY <2>1, <2>2 DEF RunOK
    <2>3. CASE a \notin DOMAIN header
      <3>1. result' = SUCCESS
        BY <2>1, <2>3 DEF BlockAllocDone
      <3>2. a = address(taken) /\ taken.off = memory.last_index
        BY <2>1, <2>3, <3>1, ResultsApart DEF BlockAllocDone
      <3> DEFINE f == named(doc.first)
      <3>3. f \in live /\ f.off = doc.first.off
        BY NamedLemma
      <3>4. /\ f \in Blocks /\ f.off + Reserved(f) <= memory.last_index
            /\ memory.last_index \in Nat
        BY <2>1, <3>3 DEF AllocatorOK, Sound, ArenaHolds, is_arena, Handle, Multiples
      <3>5. f.off \in Nat /\ Reserved(f) \in Nat
        BY <3>4, BlockLemma
      <3>6. a.off = memory.last_index
        BY <3>2 DEF address
      <3> HIDE DEF f
      <3> QED BY <3>3, <3>4, <3>5, <3>6
    <2> QED BY <2>2, <2>3
  <1> QED BY <1>1, <1>2, <1>3 DEF RunOK

\* A chunk that comes to a document is named once.
LEMMA ChunkAdded ==
  ASSUME NEW d \in Documents, NamesOnce(d), NEW pool \in {"strings", "values"},
         NEW a \in Addresses \ doc_blocks(d)
  PROVE  LET e == [d EXCEPT ![pool] = << a >> \o @] IN
         /\ e \in Documents /\ NamesOnce(e) /\ e.first = d.first
         /\ doc_blocks(e) = doc_blocks(d) \cup {a}
         /\ pool = "values" => e.strings = d.strings
         /\ pool = "strings" => e.values = d.values
  <1> DEFINE e == [d EXCEPT ![pool] = << a >> \o @]
  <1>1. /\ d.strings \in Seq(Addresses) /\ d.values \in Seq(Addresses)
        /\ d.first \in Addresses \cup {NULL} /\ a \in Addresses /\ a # d.first
        /\ a \notin Range(d.strings) /\ a \notin Range(d.values)
    BY NullLemma DEF Documents, doc_blocks
  <1>2. ASSUME NEW s \in Seq(Addresses), a \notin Range(s)
        PROVE  /\ << a >> \o s \in Seq(Addresses) /\ Range(<< a >> \o s) = {a} \cup Range(s)
               /\ IsInjective(s) => IsInjective(<< a >> \o s)
    BY <1>1, <1>2, PrependLemma
  <1>3. CASE pool = "strings"
    <2>0. e = [d EXCEPT !["strings"] = << a >> \o @]
      BY <1>3, Zenon
    <2> HIDE DEF e
    <2>1. e.first = d.first /\ e.strings = << a >> \o d.strings /\ e.values = d.values
      BY <2>0 DEF Documents
    <2>2. /\ << a >> \o d.strings \in Seq(Addresses)
          /\ Range(<< a >> \o d.strings) = {a} \cup Range(d.strings)
          /\ IsInjective(<< a >> \o d.strings)
      BY <1>1, <1>2 DEF NamesOnce
    <2>3. e \in Documents
      BY <1>1, <2>0, <2>2 DEF Documents
    <2>4. NamesOnce(e)
      BY <1>1, <2>1, <2>2 DEF NamesOnce
    <2>5. doc_blocks(e) = doc_blocks(d) \cup {a}
      BY <2>1, <2>2 DEF doc_blocks
    <2> QED BY <1>3, <2>1, <2>3, <2>4, <2>5 DEF e
  <1>4. CASE pool = "values"
    <2>0. e = [d EXCEPT !["values"] = << a >> \o @]
      BY <1>4, Zenon
    <2> HIDE DEF e
    <2>1. e.first = d.first /\ e.values = << a >> \o d.values /\ e.strings = d.strings
      BY <2>0 DEF Documents
    <2>2. /\ << a >> \o d.values \in Seq(Addresses)
          /\ Range(<< a >> \o d.values) = {a} \cup Range(d.values)
          /\ IsInjective(<< a >> \o d.values)
      BY <1>1, <1>2 DEF NamesOnce
    <2>3. e \in Documents
      BY <1>1, <2>0, <2>2 DEF Documents
    <2>4. NamesOnce(e)
      BY <1>1, <2>1, <2>2 DEF NamesOnce
    <2>5. doc_blocks(e) = doc_blocks(d) \cup {a}
      BY <2>1, <2>2 DEF doc_blocks
    <2> QED BY <1>4, <2>1, <2>3, <2>4, <2>5 DEF e
  <1> QED BY <1>3, <1>4

\* A first block that comes to a document, or takes the place of another.
LEMMA FirstNamed ==
  ASSUME NEW d \in Documents, NamesOnce(d),
         NEW a \in Addresses \ (Range(d.strings) \cup Range(d.values))
  PROVE  LET e == [d EXCEPT !.first = a] IN
         /\ e \in Documents /\ NamesOnce(e) /\ e.first = a /\ e.first # NULL
         /\ e.strings = d.strings /\ e.values = d.values
         /\ doc_blocks(e) = {a} \cup Range(d.strings) \cup Range(d.values)
  <1> DEFINE e == [d EXCEPT !.first = a]
  <1>1. e \in Documents /\ e.first = a /\ e.strings = d.strings /\ e.values = d.values
    BY DEF Documents
  <1>2. a # NULL
    BY NullLemma
  <1> HIDE DEF e
  <1> QED BY <1>1, <1>2 DEF NamesOnce, doc_blocks, e

\* What is known of the document outside its release.
LEMMA Holding ==
  ASSUME JsonOK, phase # "free"
  PROVE  /\ doc \in Documents /\ NamesOnce(doc) /\ DOMAIN header = doc_blocks(doc)
         /\ then = "idle" /\ pending = <<>> /\ pending \in Seq(Addresses)
         /\ HoldersOK /\ RunOK /\ role \in {"writer", "reader"}
         /\ phase \in phases
         /\ phase # "idle" => state # NULL
         /\ doc # NO_DOC => state # NULL
         /\ phase \notin {"serialize", "unwritten"} => buffer = NULL
  BY DEF JsonOK, DocumentOK

\* yyjson_mut_doc_new: the first block of the run, or nothing.
LEMMA DocumentTakenStep ==
  ASSUME AllocatorOK, JsonOK, document_taken
  PROVE  AllocatorOK' /\ JsonOK'
  <1>1. /\ phase = "document" /\ json_block_alloc(DOC_SIZE)
        /\ answer' = NULL /\ kept_before' = 0
        /\ UNCHANGED <<role, state, buffer, others, then, pending>>
    BY DEF document_taken, unanswered, quiet, holder
  <1>2. /\ HoldersOK /\ RunOK /\ doc = NO_DOC /\ role = "writer" /\ buffer = NULL
        /\ state # NULL /\ then = "idle" /\ pending = <<>> /\ DOMAIN header = {}
    <2>1. doc = NO_DOC /\ role = "writer"
      BY <1>1 DEF JsonOK, DocumentOK, phases
    <2> QED BY <1>1, <2>1, Holding, EmptyDoc
  <1>3. BlockAllocDone(DOC_SIZE)
    BY <1>1, <1>2, BlockAllocStep, JsonAssumption
  <1>4. HoldersOK'
    BY <1>1, <1>2, <1>3, HoldersGrow, JsonAssumption DEF holder
  <1>5. /\ context' \in [kept : BOOLEAN, broken : BOOLEAN, span : Multiples]
        /\ is_arena => ~context'.broken
        /\ ~context'.broken => context'.span = Held(headered')
    BY <1>1, <1>2, <1>3, RunGrows, JsonAssumption
  <1>6. is_arena' = is_arena
    BY <1>3 DEF BlockAllocDone, Stays, is_arena
  <1>7. CASE result' = SUCCESS
    <2> DEFINE a == address(taken)
    <2>1. a \in Addresses /\ DOMAIN header' = {a}
      BY <1>2, <1>3, <1>7, ResultsApart DEF BlockAllocDone
    <2>2. doc' = [NO_DOC EXCEPT !.first = a] /\ phase' = "root"
      BY <1>7 DEF document_taken
    <2> HIDE DEF a
    <2>3. NO_DOC.strings = <<>> /\ NO_DOC.values = <<>> /\ Range(<<>>) = {}
      BY DEF NO_DOC, Range
    <2>4. /\ doc' \in Documents /\ NamesOnce(doc') /\ doc'.first = a /\ doc'.first # NULL
          /\ doc'.strings = <<>> /\ doc'.values = <<>> /\ doc_blocks(doc') = {a}
      BY <2>1, <2>2, <2>3, EmptyDoc, FirstNamed
    <2>5. DocumentOK'
      BY <1>1, <1>2, <2>1, <2>2, <2>4 DEF JsonOK, DocumentOK, phases, successors
    <2>6. \A x \in DOMAIN header' : x.off >= doc'.first.off
      <3>1. a.off \in Nat
        BY <2>1 DEF Addresses, Multiples
      <3> QED BY <2>1, <2>4, <3>1
    <2>7. RunOK'
      BY <1>5, <1>6, <2>2, <2>6 DEF RunOK
    <2> QED BY <1>1, <1>3, <1>4, <2>2, <2>5, <2>7, Unanswered DEF JsonOK, BlockAllocDone
  <1>8. CASE result' # SUCCESS
    <2>1. doc' = NO_DOC /\ phase' = "idle" /\ DOMAIN header' = {}
      BY <1>2, <1>3, <1>8 DEF document_taken, BlockAllocDone
    <2>2. DocumentOK'
      BY <1>1, <1>2, <2>1, EmptyDoc DEF JsonOK, DocumentOK, phases, successors
    <2>3. RunOK'
      BY <1>5, <1>6, <2>1 DEF RunOK
    <2> QED BY <1>1, <1>3, <1>4, <2>1, <2>2, <2>3, Unanswered DEF JsonOK, BlockAllocDone
  <1> QED BY <1>7, <1>8

\* The root takes a first chunk of values.
LEMMA RootTakenStep ==
  ASSUME AllocatorOK, JsonOK, root_taken
  PROVE  AllocatorOK' /\ JsonOK'
  <1>1. PICK size \in ChunkSizes :
          /\ json_block_alloc(size)
          /\ IF result' = SUCCESS
             THEN doc' = [doc EXCEPT !.values = << address(taken) >>] /\ phase' = "idle"
             ELSE doc' = doc /\ phase' = "rootless"
    BY DEF root_taken
  <1>2. /\ phase = "root"
        /\ UNCHANGED <<role, state, buffer, others, answer, kept_before, then, pending>>
    BY DEF root_taken, quiet, holder
  <1>3. /\ HoldersOK /\ RunOK /\ role = "writer" /\ buffer = NULL
        /\ state # NULL /\ then = "idle" /\ pending = <<>> /\ pending \in Seq(Addresses)
        /\ doc \in Documents /\ NamesOnce(doc) /\ DOMAIN header = doc_blocks(doc)
        /\ doc.first # NULL /\ doc.values = <<>> /\ doc.first \in DOMAIN header
        /\ answer = NULL /\ kept_before \in Nat /\ size \in Nat
    <2>1. doc.first # NULL /\ doc.values = <<>> /\ role = "writer"
          /\ answer = NULL /\ kept_before \in Nat
      BY <1>2 DEF JsonOK, DocumentOK, AnswerOK, phases
    <2> QED BY <1>2, <2>1, Holding, JsonAssumption DEF doc_blocks
  <1>4. BlockAllocDone(size)
    BY <1>1, <1>3, BlockAllocStep
  <1>5. HoldersOK'
    BY <1>2, <1>3, <1>4, HoldersGrow DEF holder
  <1>6. CASE result' = SUCCESS
    <2> DEFINE a == address(taken)
    <2>1. a \in Addresses \ doc_blocks(doc) /\ DOMAIN header' = doc_blocks(doc) \cup {a}
      BY <1>3, <1>4, <1>6, ResultsApart DEF BlockAllocDone
    <2>2. doc' = [doc EXCEPT !.values = << a >>] /\ phase' = "idle"
      BY <1>1, <1>6
    <2> HIDE DEF a
    <2>3. doc' = [doc EXCEPT !["values"] = << a >> \o @]
      <3>1. << a >> \o doc.values = << a >>
        BY <1>3
      <3> QED BY <2>2, <3>1
    <2>4. /\ doc' \in Documents /\ NamesOnce(doc') /\ doc'.first = doc.first
          /\ doc_blocks(doc') = doc_blocks(doc) \cup {a}
      BY <1>3, <2>1, <2>3, ChunkAdded
    <2>5. DocumentOK'
      BY <1>2, <1>3, <2>1, <2>2, <2>4 DEF JsonOK, DocumentOK, phases, successors
    <2>6. RunOK'
      BY <1>2, <1>3, <1>4, <2>2, <2>4, WriterRun
    <2> QED BY <1>2, <1>3, <1>4, <1>5, <2>2, <2>5, <2>6, Unanswered DEF JsonOK, BlockAllocDone
  <1>7. CASE result' # SUCCESS
    <2>1. doc' = doc /\ phase' = "rootless" /\ header' = header
      BY <1>1, <1>4, <1>7 DEF BlockAllocDone
    <2>2. DocumentOK'
      BY <1>2, <1>3, <2>1 DEF JsonOK, DocumentOK, phases, successors
    <2>3. RunOK'
      BY <1>2, <1>3, <1>4, <2>1, WriterRun
    <2> QED BY <1>2, <1>3, <1>4, <1>5, <2>1, <2>2, <2>3, Unanswered DEF JsonOK, BlockAllocDone
  <1> QED BY <1>6, <1>7

\* A pool that ran out chains one more chunk.
LEMMA PoolGrownStep ==
  ASSUME AllocatorOK, JsonOK, pool_grown
  PROVE  AllocatorOK' /\ JsonOK'
  <1>1. PICK size \in ChunkSizes, pool \in {"strings", "values"} :
          /\ json_block_alloc(size)
          /\ doc' = IF result' = SUCCESS
                    THEN [doc EXCEPT ![pool] = << address(taken) >> \o @] ELSE doc
    BY DEF pool_grown
  <1>2. /\ phase = "idle" /\ role = "writer" /\ doc # NO_DOC /\ phase' = "idle"
        /\ answer' = NULL /\ kept_before' = 0
        /\ UNCHANGED <<role, state, buffer, others, then, pending>>
    BY DEF pool_grown, idle, quiet, unanswered, holder
  <1>3. /\ HoldersOK /\ RunOK /\ buffer = NULL
        /\ state # NULL /\ then = "idle" /\ pending = <<>> /\ pending \in Seq(Addresses)
        /\ doc \in Documents /\ NamesOnce(doc) /\ DOMAIN header = doc_blocks(doc)
        /\ doc.first # NULL /\ doc.first \in DOMAIN header /\ size \in Nat
    <2>1. doc.first # NULL
      BY <1>2 DEF JsonOK, DocumentOK
    <2> QED BY <1>2, <2>1, Holding, JsonAssumption DEF doc_blocks
  <1>4. BlockAllocDone(size)
    BY <1>1, <1>3, BlockAllocStep
  <1>5. HoldersOK'
    BY <1>2, <1>3, <1>4, HoldersGrow DEF holder
  <1>6. /\ doc' \in Documents /\ NamesOnce(doc') /\ doc'.first = doc.first
        /\ DOMAIN header' = doc_blocks(doc')
    <2>1. CASE result' = SUCCESS
      <3> DEFINE a == address(taken)
      <3>1. a \in Addresses \ doc_blocks(doc) /\ DOMAIN header' = doc_blocks(doc) \cup {a}
        BY <1>3, <1>4, <2>1, ResultsApart DEF BlockAllocDone
      <3> DEFINE e == [doc EXCEPT ![pool] = << a >> \o @]
      <3>2. doc' = e
        BY <1>1, <2>1
      <3> HIDE DEF a
      <3>3. /\ e \in Documents /\ NamesOnce(e) /\ e.first = doc.first
            /\ doc_blocks(e) = doc_blocks(doc) \cup {a}
        <4>1. doc \in Documents /\ NamesOnce(doc)
          BY <1>3
        <4> QED BY <3>1, <4>1, ChunkAdded
      <3> HIDE DEF e
      <3> QED BY <3>1, <3>2, <3>3
    <2>2. CASE result' # SUCCESS
      BY <1>1, <1>3, <1>4, <2>2 DEF BlockAllocDone
    <2> QED BY <2>1, <2>2
  <1>7. DocumentOK'
    BY <1>2, <1>3, <1>6 DEF JsonOK, DocumentOK, phases, successors
  <1>8. RunOK'
    BY <1>2, <1>3, <1>4, <1>6, WriterRun
  <1> QED BY <1>2, <1>4, <1>5, <1>7, <1>8, Unanswered DEF JsonOK, BlockAllocDone

\* A parse begins with a copy of its text, or in situ with none.
LEMMA CopyTakenStep ==
  ASSUME AllocatorOK, JsonOK, copy_taken
  PROVE  AllocatorOK' /\ JsonOK'
  <1>1. /\ phase = "copy" /\ answer' = NULL /\ kept_before' = 0
        /\ UNCHANGED <<role, state, buffer, others, then, pending>>
    BY DEF copy_taken, unanswered, quiet, holder
  <1>2. /\ HoldersOK /\ RunOK /\ doc = NO_DOC /\ role = "reader" /\ buffer = NULL
        /\ state # NULL /\ then = "idle" /\ pending = <<>> /\ pending \in Seq(Addresses)
        /\ DOMAIN header = {}
    <2>1. doc = NO_DOC /\ role = "reader"
      BY <1>1 DEF JsonOK, DocumentOK, phases
    <2> QED BY <1>1, <2>1, Holding, EmptyDoc
  <1>3. ASSUME doc' = NO_DOC, phase' \in {"idle", "values"}, DOMAIN header' = {}
        PROVE  DocumentOK' /\ AnswerOK'
    <2>1. DocumentOK'
      <3>1. NO_DOC.values = <<>>
        BY DEF NO_DOC
      <3> QED BY <1>1, <1>2, <1>3, <3>1, EmptyDoc DEF DocumentOK, phases, successors
    <2> QED BY <1>1, <1>3, <2>1, Unanswered
  <1>4. ASSUME AllocatorOK', Stays, live' = live, doc' = NO_DOC,
               phase' \in {"idle", "values"}, UNCHANGED <<context, header>>
        PROVE  AllocatorOK' /\ JsonOK'
    <2>1. headered' = headered /\ DOMAIN header' = {}
      BY <1>2, <1>4 DEF headered, named
    <2>2. HoldersOK'
      BY <1>1, <1>2, <1>4, <2>1 DEF HoldersOK, Stays
    <2>3. RunOK'
      BY <1>1, <1>2, <1>4 DEF RunOK
    <2> QED BY <1>3, <1>4, <2>1, <2>2, <2>3 DEF JsonOK
  <1>5. CASE /\ Refuse(INVALID_PARAM) /\ doc' = NO_DOC /\ phase' = "idle"
             /\ UNCHANGED <<context, header>>
    BY <1>4, <1>5, RefuseStep, ResultsApart
  <1>6. CASE doc' = NO_DOC /\ phase' = "values" /\ UNCHANGED <<vars, context, header>>
    <2>1. AllocatorOK' /\ Stays /\ live' = live
      BY <1>6 DEF vars, AllocatorOK, Stays
    <2> QED BY <1>4, <1>6, <2>1
  <1>7. ASSUME NEW size \in TextSizes, json_block_alloc(size),
               IF result' = SUCCESS
               THEN doc' = [NO_DOC EXCEPT !.strings = << address(taken) >>] /\ phase' = "values"
               ELSE doc' = NO_DOC /\ phase' = "idle"
        PROVE  AllocatorOK' /\ JsonOK'
    <2>1. size \in Nat
      BY JsonAssumption
    <2>2. BlockAllocDone(size)
      BY <1>2, <1>7, <2>1, BlockAllocStep
    <2>3. HoldersOK'
      BY <1>1, <1>2, <2>1, <2>2, HoldersGrow DEF holder
    <2>4. RunOK'
      BY <1>1, <1>2, <2>1, <2>2, ReaderRun
    <2>5. CASE result' = SUCCESS
      <3> DEFINE a == address(taken)
                 e == [NO_DOC EXCEPT !["strings"] = << a >> \o @]
      <3>1. a \in Addresses \ {} /\ DOMAIN header' = {a}
        BY <1>2, <2>2, <2>5, ResultsApart DEF BlockAllocDone
      <3>2. doc' = [NO_DOC EXCEPT !.strings = << a >>] /\ phase' = "values"
        BY <1>7, <2>5
      <3> HIDE DEF a
      <3>3. doc' = e
        <4>1. << a >> \o NO_DOC.strings = << a >>
          BY DEF NO_DOC
        <4> QED BY <3>2, <4>1
      <3>4. /\ e \in Documents /\ NamesOnce(e) /\ e.first = NULL /\ doc_blocks(e) = {a}
            /\ e.values = <<>>
        <4>1. NO_DOC.values = <<>>
          BY DEF NO_DOC
        <4> QED BY <3>1, <4>1, EmptyDoc, ChunkAdded
      <3> HIDE DEF e
      <3>5. DocumentOK'
        BY <1>1, <1>2, <3>1, <3>2, <3>3, <3>4 DEF DocumentOK, phases, successors
      <3> QED BY <1>1, <2>2, <2>3, <2>4, <3>2, <3>5, Unanswered DEF JsonOK, BlockAllocDone
    <2>6. CASE result' # SUCCESS
      <3>1. doc' = NO_DOC /\ phase' = "idle" /\ DOMAIN header' = {}
        BY <1>2, <1>7, <2>2, <2>6 DEF BlockAllocDone
      <3> QED BY <1>3, <2>2, <2>3, <2>4, <3>1 DEF JsonOK, BlockAllocDone
    <2> QED BY <2>5, <2>6
  <1> QED BY <1>5, <1>6, <1>7 DEF copy_taken

\* What is known of a parse between its calls.
LEMMA Parsing ==
  ASSUME JsonOK, phase \in {"values", "parsing"}
  PROVE  /\ role = "reader" /\ answer = NULL /\ kept_before \in Nat /\ buffer = NULL
         /\ state # NULL /\ then = "idle" /\ pending = <<>> /\ pending \in Seq(Addresses)
         /\ doc \in Documents /\ NamesOnce(doc) /\ DOMAIN header = doc_blocks(doc)
         /\ doc.values = <<>> /\ HoldersOK /\ RunOK
         /\ doc_blocks(doc) = ({doc.first} \ {NULL}) \cup Range(doc.strings)
         /\ phase = "values" => doc.first = NULL
         /\ phase = "parsing" => doc.first \in DOMAIN header
  <1>1. /\ role = "reader" /\ answer = NULL /\ kept_before \in Nat
        /\ doc.values = <<>>
        /\ phase = "values" => doc.first = NULL
        /\ phase = "parsing" => doc.first # NULL
    BY DEF JsonOK, DocumentOK, AnswerOK, phases
  <1>2. doc_blocks(doc) = ({doc.first} \ {NULL}) \cup Range(doc.strings)
    <2>1. Range(<<>>) = {}
      BY DEF Range
    <2> QED BY <1>1, <2>1 DEF doc_blocks
  <1> QED BY <1>1, <1>2, Holding

\* What a parse holds is given back in the order it names, each block once.
LEMMA UndoneStep ==
  ASSUME JsonOK, phase \in {"values", "parsing"}, HoldersOK', RunOK',
         header' = header, UNCHANGED <<role, state, buffer, doc>>,
         answer' = NULL, kept_before' \in Nat,
         undone(IF phase = "values" THEN doc.strings ELSE << doc.first >> \o doc.strings)
  PROVE  JsonOK'
  <1>1. /\ phase' = "free" /\ then' = then
        /\ pending' = IF phase = "values" THEN doc.strings
                      ELSE << doc.first >> \o doc.strings
    BY DEF undone
  <1>2. pending' \in Seq(Addresses) /\ Range(pending') = DOMAIN header /\ IsInjective(pending')
    <2>1. /\ doc.strings \in Seq(Addresses) /\ IsInjective(doc.strings)
          /\ doc.first \notin Range(doc.strings)
      BY Parsing DEF Documents, NamesOnce
    <2>2. CASE phase = "values"
      BY <1>1, <2>1, <2>2, Parsing
    <2>3. CASE phase = "parsing"
      <3>1. doc.first \in Addresses /\ doc.first # NULL
        BY <2>3, Parsing, NullLemma DEF HoldersOK
      <3>2. /\ << doc.first >> \o doc.strings \in Seq(Addresses)
            /\ Range(<< doc.first >> \o doc.strings) = {doc.first} \cup Range(doc.strings)
            /\ IsInjective(<< doc.first >> \o doc.strings)
        BY <2>1, <3>1, PrependLemma
      <3> QED BY <1>1, <2>3, <3>1, <3>2, Parsing
    <2> QED BY <2>2, <2>3
  <1>3. DocumentOK'
    BY <1>1, <1>2, Parsing DEF DocumentOK, phases, successors
  <1>4. AnswerOK'
    BY <1>1, Parsing, Unanswered
  <1> QED BY <1>3, <1>4 DEF JsonOK

\* A parse takes its first values, or lets its copy go.
LEMMA ValuesTakenStep ==
  ASSUME AllocatorOK, JsonOK, values_taken
  PROVE  AllocatorOK' /\ JsonOK'
  <1>1. /\ phase = "values" /\ json_block_alloc(DOC_SIZE)
        /\ UNCHANGED <<role, state, buffer, others, answer, kept_before>>
    BY DEF values_taken, holder
  <1>2. BlockAllocDone(DOC_SIZE)
    BY <1>1, Parsing, BlockAllocStep, JsonAssumption
  <1>3. HoldersOK'
    BY <1>1, <1>2, Parsing, HoldersGrow, JsonAssumption DEF holder
  <1>4. RunOK'
    BY <1>1, <1>2, Parsing, ReaderRun, JsonAssumption
  <1>5. CASE result' = SUCCESS
    <2> DEFINE a == address(taken)
               e == [doc EXCEPT !.first = a]
    <2>1. a \in Addresses \ doc_blocks(doc) /\ DOMAIN header' = doc_blocks(doc) \cup {a}
      BY <1>1, <1>2, <1>5, Parsing, ResultsApart DEF BlockAllocDone
    <2>2. doc' = e /\ phase' = "parsing" /\ then' = then /\ pending' = pending
      BY <1>5 DEF values_taken, quiet
    <2> HIDE DEF a
    <2>3. Range(doc.strings) \cup Range(doc.values) = doc_blocks(doc)
      BY <1>1, Parsing DEF doc_blocks
    <2>4. /\ e \in Documents /\ NamesOnce(e) /\ e.first = a /\ e.first # NULL
          /\ e.values = doc.values /\ doc_blocks(e) = {a} \cup doc_blocks(doc)
      <3>1. doc \in Documents /\ NamesOnce(doc)
        BY <1>1, Parsing
      <3> QED BY <2>1, <2>3, <3>1, FirstNamed
    <2> HIDE DEF e
    <2>5. DocumentOK'
      BY <1>1, <2>1, <2>2, <2>4, Parsing DEF DocumentOK, phases, successors
    <2>6. AnswerOK'
      BY <1>1, <2>2, Parsing, Unanswered
    <2> QED BY <1>2, <1>3, <1>4, <2>5, <2>6 DEF JsonOK, BlockAllocDone
  <1>6. CASE result' # SUCCESS
    <2>1. undone(doc.strings) /\ doc' = doc /\ header' = header
      BY <1>2, <1>6 DEF values_taken, BlockAllocDone
    <2> QED BY <1>1, <1>2, <1>3, <1>4, <2>1, Parsing, UndoneStep DEF BlockAllocDone
  <1> QED BY <1>5, <1>6

\* The values move to grow, and their header with them.
LEMMA ValuesGrownStep ==
  ASSUME AllocatorOK, JsonOK, values_grown
  PROVE  AllocatorOK' /\ JsonOK'
  <1>1. /\ phase = "parsing"
        /\ UNCHANGED <<role, state, buffer, others, answer, kept_before>>
    BY DEF values_grown, holder
  <1>2. PICK size \in ChunkSizes :
          /\ json_block_realloc(doc.first, size)
          /\ IF result' \in {SUCCESS, NOT_RECLAIMED}
             THEN /\ doc' = [doc EXCEPT !.first = IF live' = live THEN @ ELSE address(taken)]
                  /\ UNCHANGED phase /\ quiet
             ELSE undone(<< doc.first >> \o doc.strings) /\ UNCHANGED doc
    BY DEF values_grown
  <1> DEFINE f == named(doc.first)
  <1>3. BlockReallocDone(doc.first)
    BY <1>1, <1>2, Parsing, BlockReallocStep, JsonAssumption
  <1>4. RunOK'
    <2>1. context' \in [kept : BOOLEAN, broken : BOOLEAN, span : Multiples]
      BY <1>1, <1>3, Parsing DEF BlockReallocDone, RunOK
    <2> QED BY <1>1, <2>1, Parsing DEF RunOK
  <1>5. CASE live' = live /\ header' = header
    <2>1. headered' = headered
      BY <1>5 DEF headered, named
    <2>2. HoldersOK'
      BY <1>1, <1>3, <1>5, <2>1, Parsing DEF HoldersOK, BlockReallocDone, Stays
    <2>3. CASE result' \in {SUCCESS, NOT_RECLAIMED}
      <3>1. doc' = doc /\ phase' = phase /\ then' = then /\ pending' = pending
        BY <1>1, <1>2, <1>5, <2>3, Parsing DEF quiet, Documents
      <3>2. DocumentOK'
        BY <1>1, <1>5, <3>1 DEF JsonOK, DocumentOK, phases, successors
      <3>3. AnswerOK'
        BY <1>1, <3>1, Parsing, Unanswered
      <3> QED BY <1>3, <1>4, <2>2, <3>2, <3>3 DEF JsonOK, BlockReallocDone
    <2>4. CASE result' \notin {SUCCESS, NOT_RECLAIMED}
      BY <1>1, <1>2, <1>3, <1>4, <1>5, <2>2, <2>4, Parsing, UndoneStep DEF BlockReallocDone
    <2> QED BY <2>3, <2>4
  <1>6. CASE live' # live
    <2> DEFINE c == taken
               a == address(taken)
               e == [doc EXCEPT !.first = a]
    <2>1. /\ result' \in {SUCCESS, NOT_RECLAIMED} /\ c \in Blocks \ live
          /\ live' = (live \ {f}) \cup {c}
          /\ a \in Addresses \ (DOMAIN header \ {doc.first})
          /\ DOMAIN header' = (DOMAIN header \ {doc.first}) \cup {a}
          /\ headered' = (headered \ {f}) \cup {c}
          /\ memory'.type = memory.type
      BY <1>3, <1>6 DEF BlockReallocDone, Stays
    <2>2. doc' = e /\ phase' = phase /\ then' = then /\ pending' = pending
      BY <1>2, <1>6, <2>1 DEF quiet
    <2>3. f \in headered
      BY <1>1, Parsing DEF headered
    <2> HIDE DEF c, a, f
    <2>4. HoldersOK'
      <3>1. IsFiniteSet(DOMAIN header')
        <4>1. IsFiniteSet(DOMAIN header)
          BY <1>1, Parsing DEF HoldersOK
        <4>2. IsFiniteSet(DOMAIN header \ {doc.first})
          BY <4>1, FS_RemoveElement
        <4> QED BY <2>1, <4>2, FS_AddElement
      <3>2. live' = others' \cup headered' \cup ({state', buffer'} \ {NULL})
        BY <1>1, <2>1, <2>3, Parsing DEF HoldersOK
      <3> QED BY <1>1, <2>1, <2>3, <3>1, <3>2, Parsing DEF HoldersOK
    <2>5. Range(doc.strings) \cup Range(doc.values) = DOMAIN header \ {doc.first}
      <3>1. doc.first \notin Range(doc.strings) \cup Range(doc.values)
        BY <1>1, Parsing DEF NamesOnce
      <3>2. doc.first # NULL
        BY <1>1, Parsing, NullLemma DEF HoldersOK
      <3> QED BY <1>1, <3>1, <3>2, Parsing DEF doc_blocks
    <2>6. /\ e \in Documents /\ NamesOnce(e) /\ e.first = a /\ e.first # NULL
          /\ e.values = doc.values /\ doc_blocks(e) = {a} \cup (DOMAIN header \ {doc.first})
      <3>1. doc \in Documents /\ NamesOnce(doc)
        BY <1>1, Parsing
      <3> QED BY <2>1, <2>5, <3>1, FirstNamed
    <2> HIDE DEF e
    <2>7. DocumentOK'
      BY <1>1, <2>1, <2>2, <2>6, Parsing DEF DocumentOK, phases, successors
    <2>8. AnswerOK'
      BY <1>1, <2>2, Parsing, Unanswered
    <2> QED BY <1>3, <1>4, <2>4, <2>7, <2>8 DEF JsonOK, BlockReallocDone
  <1> QED BY <1>3, <1>5, <1>6 DEF BlockReallocDone

\* A parse ends with its document, or lets go of what it held.
LEMMA ParseEndsStep ==
  ASSUME AllocatorOK, JsonOK, parse_ends
  PROVE  AllocatorOK' /\ JsonOK'
  <1>1. /\ phase = "parsing" /\ answer' = NULL /\ kept_before' = 0
        /\ UNCHANGED <<vars, role, state, buffer, others, context, header, doc>>
        /\ \/ phase' = "idle" /\ then' = then /\ pending' = pending
           \/ undone(<< doc.first >> \o doc.strings)
    BY DEF parse_ends, unanswered, quiet, holder
  <1>2. AllocatorOK' /\ headered' = headered /\ memory' = memory /\ live' = live
    BY <1>1 DEF vars, AllocatorOK, headered, named
  <1>3. HoldersOK'
    BY <1>1, <1>2, Parsing DEF HoldersOK
  <1>4. RunOK'
    BY <1>1, Parsing DEF RunOK
  <1>5. CASE phase' = "idle" /\ then' = then /\ pending' = pending
    <2>1. doc.first # NULL
      BY <1>1, Parsing, NullLemma DEF HoldersOK
    <2>2. DocumentOK'
      BY <1>1, <1>5, <2>1, Parsing DEF DocumentOK, phases, successors
    <2>3. AnswerOK'
      BY <1>1, <1>5, Unanswered
    <2> QED BY <1>2, <1>3, <1>4, <2>2, <2>3 DEF JsonOK
  <1>6. CASE undone(<< doc.first >> \o doc.strings)
    BY <1>1, <1>2, <1>3, <1>4, <1>6, UndoneStep
  <1> QED BY <1>1, <1>5, <1>6

\* The run of a document that is let go of starts at its first block and is
\* not empty.
LEMMA RunLemma ==
  ASSUME AllocatorOK, HoldersOK, is_arena, NEW a \in DOMAIN header
  PROVE  /\ named(a) \in headered /\ named(a).data = a.data /\ named(a).off = a.off
         /\ a.data = memory.data /\ a.off \in Nat /\ memory.last_index \in Nat
         /\ Held(headered) \in Nat \ {0}
         /\ IsFiniteSet(headered) /\ headered \subseteq Blocks
  <1> DEFINE f == named(a)
  <1>1. f \in headered /\ f \in live /\ f.data = a.data /\ f.off = a.off
    BY NamedLemma DEF headered
  <1>2. /\ live \subseteq Blocks /\ IsFiniteSet(live) /\ headered \subseteq live
        /\ f.data = memory.data /\ Reserved(f) # 0 /\ memory.last_index \in Nat
    BY <1>1, NamedLemma
    DEF AllocatorOK, Sound, ArenaHolds, is_arena, Handle, Multiples
  <1>3. IsFiniteSet(headered) /\ headered \subseteq Blocks
    BY <1>2, FS_Subset
  <1>4. Reserved(f) \in Nat /\ f.off \in Nat
    BY <1>1, <1>2, BlockLemma
  <1>5. /\ Held(headered \ {f}) = Held(headered) - Reserved(f) /\ Held(headered) \in Nat
    <2> HIDE DEF f
    <2> QED BY <1>1, <1>3, HeldLemma
  <1>6. Held(headered \ {f}) \in Nat
    <2>1. IsFiniteSet(headered \ {f}) /\ headered \ {f} \subseteq Blocks
      BY <1>3, FS_RemoveElement
    <2> QED BY <2>1, HeldLemma
  <1> HIDE DEF f
  <1>7. Held(headered) # 0
    BY <1>2, <1>4, <1>5, <1>6
  <1> QED BY <1>1, <1>2, <1>3, <1>4, <1>5, <1>7 DEF f

\* A document goes at once where the arena ends at its run, else block by block.
LEMMA LetGoStep ==
  ASSUME AllocatorOK, JsonOK, phase \in {"idle", "rootless"}, state # NULL,
         NEW next \in successors, dispose_document(next)
  PROVE  AllocatorOK' /\ JsonOK'
  <1>1. /\ kept_before' = stranded /\ answer' = SUCCESS /\ SUCCESS # NULL
        /\ SUCCESS # NOT_RECLAIMED /\ stranded \in Nat
        /\ UNCHANGED <<role, state, buffer, others>>
    BY NullLemma, ResultsApart DEF dispose_document, holder, AllocatorOK, Sound
  <1>2. /\ HoldersOK /\ RunOK /\ buffer = NULL /\ role \in {"writer", "reader"}
        /\ doc \in Documents /\ NamesOnce(doc) /\ DOMAIN header = doc_blocks(doc)
        /\ then = "idle" /\ pending = <<>> /\ pending \in Seq(Addresses)
        /\ doc = NO_DOC \/ doc.first # NULL
        /\ role = "reader" => doc.values = <<>>
    BY Holding DEF JsonOK, DocumentOK
  <1>3. /\ next \in phases /\ next \in {"idle", "storage", "document", "copy"}
    BY DEF successors, phases
  <1>4. ASSUME stranded' = stranded, phase' = next
        PROVE  AnswerOK'
    BY <1>1, <1>3, <1>4 DEF AnswerOK, told
  <1>5. ASSUME doc' = NO_DOC, phase' = next, DOMAIN header' = {}, UNCHANGED <<then, pending>>
        PROVE  DocumentOK'
    <2>1. NO_DOC.values = <<>>
      BY DEF NO_DOC
    <2> QED BY <1>1, <1>2, <1>3, <1>5, <2>1, EmptyDoc DEF DocumentOK, phases, successors
  <1>6. CASE doc = NO_DOC
    <2>1. UNCHANGED <<memory, host, live, stranded, result, context, header, doc, pending, then>>
          /\ phase' = next
      BY <1>6 DEF dispose_document, vars
    <2>2. AllocatorOK' /\ headered' = headered /\ Stays
      BY <2>1 DEF AllocatorOK, headered, named, Stays
    <2>3. HoldersOK'
      BY <1>1, <1>2, <2>1, <2>2 DEF HoldersOK
    <2>4. RunOK'
      BY <1>1, <1>2, <1>3, <2>1, <2>2, RunStays
    <2>5. DocumentOK'
      BY <1>2, <1>5, <1>6, <2>1, EmptyDoc
    <2> QED BY <1>4, <2>1, <2>2, <2>3, <2>4, <2>5 DEF JsonOK
  <1>7. CASE doc # NO_DOC /\ span_comes_back
    <2>1. /\ role = "writer" /\ span_named(context, doc.first) /\ json_alc_release_span
          /\ doc' = NO_DOC /\ phase' = next /\ UNCHANGED <<pending, then>>
      BY <1>7 DEF dispose_document, span_comes_back
    <2>2. is_arena /\ ~is_default_alloc /\ doc.first # NULL
      BY <2>1 DEF span_named, is_arena, is_default_alloc, HOST, OWNED, EXTERNAL
    <2>3. doc.first \in DOMAIN header
      BY <1>2, <2>2 DEF doc_blocks
    <2> DEFINE f == named(doc.first)
    <2>4. /\ f \in headered /\ f.off = doc.first.off /\ f.off \in Nat
          /\ memory.last_index \in Nat /\ headered \subseteq live /\ Held(headered) \in Nat
      BY <1>2, <2>2, <2>3, RunLemma, NamedLemma
    <2>5. context.span = Held(headered) /\ context.span \in Multiples
      BY <1>2, <2>1 DEF RunOK, span_named
    <2>6. memory.last_index - Held(headered) = f.off
      <3>1. is_single_arena_reclaimable(Block(doc.first.data, doc.first.off, context.span),
                                        arnm_align8_u32(context.span), memory)
        BY <2>1, <2>2 DEF json_alc_release_span, span_reclaimable, Block
      <3>2. arnm_align8_u32(context.span) = context.span
        <4>1. context.span \in 0..UINT32_MAX
          BY <2>5 DEF Multiples
        <4> QED BY <2>5, <4>1, AlignLemma
      <3> HIDE DEF f
      <3> QED BY <2>4, <2>5, <3>1, <3>2 DEF is_single_arena_reclaimable, Block
    <2>7. \A b \in headered : f.off <= b.off
      <3>1. SUFFICES ASSUME NEW a \in DOMAIN header PROVE f.off <= named(a).off
        BY DEF headered
      <3>2. a.off >= doc.first.off /\ named(a).off = a.off /\ a.off \in Nat
        BY <1>2, <2>1, <2>2, <3>1, RunLemma DEF RunOK
      <3> HIDE DEF f
      <3> QED BY <2>4, <3>2
    <2>8. Sound(bump(memory, -Held(headered)), host, live \ headered, stranded)
      <3>1. Sound(memory, host, live, stranded) /\ memory.type \in {OWNED, EXTERNAL}
        BY <2>2 DEF AllocatorOK, is_arena
      <3> HIDE DEF f
      <3> QED BY <2>4, <2>6, <2>7, <3>1, RunSound
    <2>9. /\ memory' = bump(memory, -context.span) /\ host' = host /\ stranded' = stranded
          /\ live' = {b \in live : address(b) \notin doc_blocks(doc)} /\ result' = SUCCESS
          /\ context' = span_reset(context)
          /\ header' = [x \in DOMAIN header \ doc_blocks(doc) |-> header[x]]
      BY <2>1, <2>2 DEF json_alc_release_span
    <2>10. live' = live \ headered
      <3>1. \A b \in live : address(b) \in DOMAIN header <=> b \in headered
        BY <1>2, NamedLemma DEF headered
      <3> QED BY <1>2, <2>9, <3>1
    <2>11. AllocatorOK'
      BY <2>5, <2>8, <2>9, <2>10, ResultsApart DEF AllocatorOK
    <2>12. DOMAIN header' = {} /\ headered' = {}
      BY <1>2, <2>9 DEF headered
    <2>13. memory'.type = memory.type
      BY <2>9 DEF bump, AllocatorOK, Sound, Handle
    <2>14. HoldersOK'
      <3>1. IsFiniteSet({})
        BY FS_EmptySet
      <3>2. live' = others' \cup headered' \cup ({state', buffer'} \ {NULL})
        BY <1>1, <1>2, <2>10, <2>12 DEF HoldersOK
      <3> QED BY <1>1, <1>2, <2>12, <2>13, <3>1, <3>2 DEF HoldersOK
    <2>15. RunOK'
      <3>1. Held({}) = 0 /\ 0 \in Multiples
        BY WidthAssumption, HeldLemma, FS_EmptySet DEF Multiples
      <3>2. context' \in [kept : BOOLEAN, broken : BOOLEAN, span : Multiples]
            /\ ~context'.broken /\ context'.span = 0
        BY <1>2, <2>9, <3>1 DEF span_reset, RunOK
      <3> QED BY <1>3, <2>1, <2>12, <3>1, <3>2 DEF RunOK
    <2>16. DocumentOK'
      BY <1>5, <2>1, <2>12
    <2>17. AnswerOK'
      BY <1>4, <2>1, <2>9
    <2> QED BY <2>11, <2>14, <2>15, <2>16, <2>17 DEF JsonOK
  <1>8. CASE doc # NO_DOC /\ ~span_comes_back
    <2>1. /\ context' = [context EXCEPT !.kept = FALSE]
          /\ pending' = in_release_order(doc) /\ phase' = "free" /\ then' = next
          /\ UNCHANGED <<memory, host, live, stranded, result, header, doc>>
      BY <1>8 DEF dispose_document, vars
    <2>2. AllocatorOK' /\ headered' = headered /\ is_arena' = is_arena
      BY <2>1 DEF AllocatorOK, headered, named, is_arena
    <2>3. HoldersOK'
      BY <1>1, <1>2, <2>1, <2>2 DEF HoldersOK
    <2>4. /\ pending' \in Seq(Addresses) /\ Range(pending') = DOMAIN header'
          /\ IsInjective(pending')
      BY <1>2, <1>8, <2>1, ReleaseOrder
    <2>5. DocumentOK'
      BY <1>1, <1>2, <2>1, <2>4 DEF DocumentOK, phases, successors
    <2>6. /\ context' \in [kept : BOOLEAN, broken : BOOLEAN, span : Multiples]
          /\ context'.broken = context.broken /\ context'.kept = FALSE
      BY <1>2, <2>1 DEF RunOK
    <2>7. ASSUME role = "writer", is_arena
          PROVE  memory.last_index # doc.first.off + Held(headered)
      <3> DEFINE f == named(doc.first)
      <3>1. doc.first \in DOMAIN header /\ doc.first # NULL
        BY <1>2, <1>8 DEF doc_blocks
      <3>2. /\ f.off = doc.first.off /\ doc.first.data = memory.data /\ doc.first.off \in Nat
            /\ memory.last_index \in Nat /\ Held(headered) \in Nat \ {0}
        BY <1>2, <2>7, <3>1, RunLemma
      <3>3. context.span = Held(headered) /\ context.span \in Multiples /\ ~context.broken
        BY <1>2, <2>7 DEF RunOK
      <3>4. arnm_align8_u32(context.span) = context.span
        <4>1. context.span \in 0..UINT32_MAX
          BY <3>3 DEF Multiples
        <4> QED BY <3>3, <4>1, AlignLemma
      <3>5. ~is_single_arena_reclaimable(Block(doc.first.data, doc.first.off, context.span),
                                         context.span, memory)
        <4>1. span_named(context, doc.first)
          BY <2>7, <3>1, <3>2, <3>3 DEF span_named
        <4> QED BY <1>8, <2>7, <3>4, <4>1 DEF span_comes_back, span_reclaimable, Block
      <3>6. memory.last_index - Held(headered) # doc.first.off
        BY <3>2, <3>3, <3>5 DEF is_single_arena_reclaimable, Block
      <3> HIDE DEF f
      <3> QED BY <3>2, <3>6
    <2>8. RunOK'
      <3>1. Len(pending') \in Nat
        BY <2>4
      <3>2. Len(pending') <= Len(in_release_order(doc))
        BY <2>1, <3>1
      <3> QED BY <1>1, <1>2, <2>1, <2>2, <2>6, <2>7, <3>2 DEF RunOK
    <2>9. AnswerOK'
      BY <1>1, <2>1, <2>6 DEF AnswerOK
    <2> QED BY <2>2, <2>3, <2>5, <2>8, <2>9 DEF JsonOK
  <1> QED BY <1>6, <1>7, <1>8

\* One more block of a document comes back, and the warning is kept.
LEMMA FreeNextStep ==
  ASSUME AllocatorOK, JsonOK, free_next
  PROVE  AllocatorOK' /\ JsonOK'
  <1> DEFINE a == Head(pending)
  <1>1. /\ phase = "free" /\ pending # <<>> /\ json_block_dispose(a)
        /\ pending' = Tail(pending)
        /\ UNCHANGED <<role, state, buffer, others, phase, then, doc, answer, kept_before>>
    BY DEF free_next, holder
  <1>2. /\ HoldersOK /\ RunOK /\ AnswerOK
        /\ pending \in Seq(Addresses) /\ IsInjective(pending) /\ DOMAIN header = Range(pending)
        /\ doc \in Documents /\ then \in successors /\ state # NULL /\ buffer = NULL
        /\ role \in {"writer", "reader"}
    BY <1>1 DEF JsonOK, DocumentOK
  <1>3. /\ pending' \in Seq(Addresses) /\ Len(pending') = Len(pending) - 1
        /\ a \in DOMAIN header /\ Range(pending') = DOMAIN header \ {a}
        /\ IsInjective(pending') /\ Len(pending) \in Nat
    BY <1>1, <1>2, TailLemma
  <1>4. DisposeDone(a)
    BY <1>1, <1>2, <1>3, DisposeStep
  <1>5. context' = disposed(context, result', header[a])
    BY <1>1 DEF json_block_dispose
  <1> HIDE DEF a
  <1>6. HoldersOK'
    <2>1. IsFiniteSet(DOMAIN header')
      <3>1. IsFiniteSet(DOMAIN header)
        BY <1>2 DEF HoldersOK
      <3> QED BY <1>4, <3>1, FS_RemoveElement DEF DisposeDone
    <2>2. named(a) \in headered /\ memory'.type = memory.type
      BY <1>3, <1>4 DEF headered, DisposeDone, Stays
    <2>3. live' = others' \cup headered' \cup ({state', buffer'} \ {NULL})
      BY <1>1, <1>2, <1>4, <2>2 DEF HoldersOK, DisposeDone
    <2> QED BY <1>1, <1>2, <1>4, <2>1, <2>2, <2>3 DEF HoldersOK, DisposeDone
  <1>7. DocumentOK'
    <2>1. DOMAIN header' = Range(pending')
      BY <1>3, <1>4 DEF DisposeDone
    <2> QED BY <1>1, <1>2, <1>3, <2>1 DEF JsonOK, DocumentOK, phases, successors
  <1>8. /\ context' \in [kept : BOOLEAN, broken : BOOLEAN, span : Multiples]
        /\ context'.broken = context.broken
        /\ context'.kept = (context.kept \/ result' = NOT_RECLAIMED)
    <2> DEFINE n == arnm_align8_u32(header[a])
               t == IF n > context.span THEN 0 ELSE context.span - n
    <2>1. context \in [kept : BOOLEAN, broken : BOOLEAN, span : Multiples]
      BY <1>2 DEF RunOK
    <2>2. t \in Multiples
      <3>1. header[a] \in 0..UINT32_MAX
        <4>1. header[a] \in 1..UINT32_MAX
          BY <1>2, <1>3, NamedLemma
        <4> QED BY <4>1, WidthAssumption
      <3>2. n \in Multiples /\ context.span \in Multiples
        BY <2>1, <3>1, AlignLemma
      <3> HIDE DEF n
      <3> QED BY <3>2, WidthAssumption DEF Multiples
    <2>3. CASE result' = NOT_RECLAIMED
      BY <1>5, <2>1, <2>3 DEF disposed
    <2>4. CASE result' # NOT_RECLAIMED
      <3>1. context' = [context EXCEPT !.span = t]
        BY <1>5, <2>4 DEF disposed
      <3> HIDE DEF t
      <3> QED BY <2>1, <2>2, <2>4, <3>1
    <2> QED BY <2>3, <2>4
  <1>9. RunOK'
    <2>1. is_arena' = is_arena
      BY <1>4 DEF DisposeDone, Stays, is_arena
    <2>2. ASSUME role = "writer"
          PROVE  Len(pending') < Len(in_release_order(doc)) /\ Len(in_release_order(doc)) \in Nat
      <3>1. Len(in_release_order(doc)) \in Nat
        <4>1. doc.strings \in Seq(Addresses \cup {NULL}) /\ doc.values \in Seq(Addresses \cup {NULL})
              /\ << doc.first >> \in Seq(Addresses \cup {NULL})
          BY <1>2 DEF Documents
        <4>2. in_release_order(doc) \in Seq(Addresses \cup {NULL})
          BY <4>1 DEF in_release_order
        <4> QED BY <4>2
      <3>2. Len(pending) <= Len(in_release_order(doc))
        BY <1>1, <1>2, <2>2 DEF RunOK
      <3> QED BY <1>3, <3>1, <3>2
    <2>3. role = "writer" => /\ Len(pending') <= Len(in_release_order(doc))
                             /\ Len(pending') # Len(in_release_order(doc))
      <3>1. Len(pending') \in Nat
        BY <1>3
      <3> QED BY <2>2, <3>1
    <2> QED BY <1>1, <1>2, <1>8, <2>1, <2>3 DEF RunOK
  <1>10. AnswerOK'
    <2>1. stranded \in Nat /\ stranded' \in Nat /\ kept_before \in Nat
      BY <1>2, <1>4 DEF AllocatorOK, Sound, DisposeDone, AnswerOK
    <2>2. answer # NULL => /\ answer = SUCCESS /\ stranded >= kept_before
                           /\ context.kept <=> stranded > kept_before
      BY <1>1, <1>2 DEF AnswerOK
    <2>3. then = "storage" => answer # NULL
      BY <1>1, <1>2 DEF AnswerOK
    <2>4. \/ result' = SUCCESS /\ stranded' = stranded
          \/ result' = NOT_RECLAIMED /\ stranded' > stranded
      BY <1>4 DEF DisposeDone
    <2>5. answer # NULL => /\ stranded' >= kept_before
                           /\ context'.kept <=> stranded' > kept_before
      BY <1>8, <2>1, <2>2, <2>4, ResultsApart
    <2> QED BY <1>1, <2>1, <2>2, <2>3, <2>5 DEF AnswerOK
  <1> QED BY <1>4, <1>6, <1>7, <1>9, <1>10 DEF JsonOK, DisposeDone

\* The last block is back: the document is gone and the answer given.
LEMMA DocumentGoneStep ==
  ASSUME AllocatorOK, JsonOK, document_gone
  PROVE  AllocatorOK' /\ JsonOK'
  <1>1. /\ phase = "free" /\ pending = <<>> /\ doc' = NO_DOC
        /\ answer' = (IF answer = NULL THEN NULL
                      ELSE IF context.kept THEN NOT_RECLAIMED ELSE SUCCESS)
        /\ context' = (IF role = "writer" THEN span_reset(context) ELSE context)
        /\ phase' = then /\ then' = "idle"
        /\ UNCHANGED <<memory, host, live, stranded, result, role, state, buffer, others,
                       header, pending, kept_before>>
    BY DEF document_gone, holder, vars
  <1>2. /\ HoldersOK /\ RunOK /\ AnswerOK /\ then \in successors /\ state # NULL
        /\ buffer = NULL /\ role \in {"writer", "reader"} /\ pending \in Seq(Addresses)
        /\ DOMAIN header = {}
    <2>1. Range(<<>>) = {}
      BY DEF Range
    <2> QED BY <1>1, <2>1 DEF JsonOK, DocumentOK
  <1>3. AllocatorOK' /\ headered' = headered /\ headered = {}
    BY <1>1, <1>2 DEF AllocatorOK, headered, named
  <1>4. HoldersOK'
    BY <1>1, <1>2, <1>3 DEF HoldersOK
  <1>5. DocumentOK'
    <2>1. NO_DOC.values = <<>>
      BY DEF NO_DOC
    <2> QED BY <1>1, <1>2, <2>1, EmptyDoc DEF DocumentOK, phases, successors
  <1>6. RunOK'
    <2>1. Held({}) = 0 /\ 0 \in Multiples
      BY WidthAssumption, HeldLemma, FS_EmptySet DEF Multiples
    <2>2. /\ context' \in [kept : BOOLEAN, broken : BOOLEAN, span : Multiples]
          /\ role = "writer" => ~context'.broken /\ context'.span = 0
      BY <1>1, <1>2, <2>1 DEF span_reset, RunOK
    <2>3. phase' # "free"
      BY <1>1, <1>2 DEF successors
    <2> QED BY <1>1, <1>2, <1>3, <2>1, <2>2, <2>3 DEF RunOK
  <1>7. AnswerOK'
    <2>1. answer # NULL => /\ answer = SUCCESS /\ stranded >= kept_before
                           /\ context.kept <=> stranded > kept_before
      BY <1>1, <1>2 DEF AnswerOK
    <2>2. kept_before \in Nat /\ (then = "storage" => answer # NULL)
      BY <1>1, <1>2 DEF AnswerOK
    <2>3. answer' # NULL <=> answer # NULL
      BY <1>1, NullLemma, ResultsApart
    <2>4. answer # NULL => (answer' = NOT_RECLAIMED <=> stranded > kept_before)
      BY <1>1, <2>1, ResultsApart
    <2>5. then \in {"idle", "storage", "document", "copy"}
      BY <1>2 DEF successors
    <2> QED BY <1>1, <2>1, <2>2, <2>3, <2>4, <2>5 DEF AnswerOK, told
  <1> QED BY <1>3, <1>4, <1>5, <1>6, <1>7 DEF JsonOK

-----------------------------------------------------------------------------
(* The specification.                                                      *)

\* Every call of a reader, of a writer and of the others they share with.
LEMMA JsonStep ==
  ASSUME AllocatorOK, JsonOK, JsonNext
  PROVE  AllocatorOK' /\ JsonOK'
  <1>1. CASE release
    <2>1. phase = "idle" /\ state # NULL /\ dispose_document("idle") /\ "idle" \in successors
      BY <1>1 DEF release, idle, successors
    <2> QED BY <2>1, LetGoStep
  <1>2. CASE destroy
    <2>1. phase = "idle" /\ state # NULL /\ dispose_document("storage") /\ "storage" \in successors
      BY <1>2 DEF destroy, idle, successors
    <2> QED BY <2>1, LetGoStep
  <1>3. CASE begin_document
    <2>1. /\ phase = "idle" /\ state # NULL /\ dispose_document("document")
          /\ "document" \in successors
      BY <1>3 DEF begin_document, idle, successors
    <2> QED BY <2>1, LetGoStep
  <1>4. CASE begin_parse
    <2>1. /\ phase = "idle" /\ state # NULL /\ dispose_document("copy")
          /\ "copy" \in successors
      BY <1>4 DEF begin_parse, idle, successors
    <2> QED BY <2>1, LetGoStep
  <1>5. CASE rootless
    <2>1. phase = "rootless" /\ dispose_document("idle") /\ "idle" \in successors
      BY <1>5 DEF rootless, successors
    <2>2. state # NULL
      BY <2>1 DEF JsonOK, DocumentOK
    <2> QED BY <2>1, <2>2, LetGoStep
  <1>6. CASE \/ create \/ storage_freed \/ free_next \/ document_gone
    BY <1>6, CreateStep, StorageFreedStep, FreeNextStep, DocumentGoneStep
  <1>7. CASE \/ document_taken \/ root_taken \/ pool_grown
    BY <1>7, DocumentTakenStep, RootTakenStep, PoolGrownStep
  <1>8. CASE \/ copy_taken \/ values_taken \/ values_grown \/ parse_ends
    BY <1>8, CopyTakenStep, ValuesTakenStep, ValuesGrownStep, ParseEndsStep
  <1>9. CASE \/ write \/ buffer_grown \/ unwritten \/ text_written
    BY <1>9, WriteStep, BufferGrownStep, UnwrittenStep, TextWrittenStep
  <1>10. CASE other_takes \/ other_gives
    BY <1>10, OtherTakesStep, OtherGivesStep
  <1> QED BY <1>1, <1>2, <1>3, <1>4, <1>5, <1>6, <1>7, <1>8, <1>9, <1>10 DEF JsonNext

\* Before the first call nothing is held.
LEMMA EitherInitLemma ==
  ASSUME EitherInit
  PROVE  IInv
  <1>0. SUCCESS \in Results /\ 0 \in Multiples /\ {} \subseteq HostBlocks
    BY ResultsApart, WidthAssumption DEF Multiples
  <1>1. CASE ClientInit
    <2>1. /\ memory = arnm_intern(NONE, NULL, 0) /\ host = {} /\ live = {} /\ stranded = 0
          /\ result = SUCCESS /\ role = "client" /\ answer = NULL
      BY <1>1 DEF ClientInit, Init
    <2>2. memory \in Handle /\ memory.type = NONE /\ memory.last_index = 0
      BY <1>0, <2>1, HandleLemma
    <2>3. Sound(memory, host, live, stranded)
      BY <2>1, <2>2, EmptySound DEF OWNED, EXTERNAL, NONE
    <2> QED BY <1>0, <2>1, <2>3 DEF IInv, AllocatorOK, ClientOK
  <1>2. CASE JsonInit
    <2>1. /\ host = {} /\ live = {} /\ stranded = 0 /\ result = SUCCESS /\ role \in Roles
          /\ context = fresh_context /\ header = <<>> /\ doc = NO_DOC
          /\ state = NULL /\ buffer = NULL /\ others = {}
          /\ phase = "idle" /\ then = "idle" /\ pending = <<>>
          /\ answer = NULL /\ kept_before = 0
      BY <1>2 DEF JsonInit
    <2>2. role \in {"writer", "reader"}
      BY <2>1, JsonAssumption
    <2>3. PICK type \in Handles :
            memory = arnm_intern(type, IF type = HOST THEN NULL ELSE CHOOSE d \in Blobs : TRUE,
                                 IF type = HOST THEN 0 ELSE Capacity)
      BY <1>2 DEF JsonInit
    <2>4. memory \in Handle /\ memory.type \in {HOST, EXTERNAL} /\ memory.last_index = 0
      <3>1. CASE type = HOST
        <4>1. memory = arnm_intern(HOST, NULL, 0)
          BY <2>3, <3>1
        <4> QED BY <1>0, <4>1, HandleLemma
      <3>2. CASE type # HOST
        <4> DEFINE d == CHOOSE d \in Blobs : TRUE
        <4>1. type = EXTERNAL /\ Blobs # {} /\ Capacity \in Multiples
          BY <2>3, <3>2, JsonAssumption DEF Multiples
        <4>2. d \in Blobs
          BY <4>1
        <4>3. memory = arnm_intern(EXTERNAL, d, Capacity)
          BY <2>3, <3>2, <4>1
        <4> HIDE DEF d
        <4> QED BY <4>1, <4>2, <4>3, HandleLemma
      <3> QED BY <3>1, <3>2
    <2>5. Sound(memory, host, live, stranded)
      BY <2>1, <2>4, EmptySound DEF HOST, OWNED, EXTERNAL, NONE
    <2>6. DOMAIN header = {} /\ headered = {} /\ IsFiniteSet({})
      BY <2>1, FS_EmptySet DEF headered
    <2>7. HoldersOK
      BY <2>1, <2>4, <2>6 DEF HoldersOK
    <2>8. DocumentOK
      <3>1. NO_DOC.values = <<>>
        BY DEF NO_DOC
      <3> QED BY <2>1, <2>2, <2>6, <3>1, EmptyDoc DEF DocumentOK, phases, successors
    <2>9. RunOK
      <3>1. Held({}) = 0
        BY HeldLemma, FS_EmptySet
      <3> QED BY <1>0, <2>1, <2>6, <3>1 DEF RunOK, fresh_context
    <2>10. AnswerOK
      BY <2>1 DEF AnswerOK
    <2> QED BY <1>0, <2>1, <2>2, <2>5, <2>7, <2>8, <2>9, <2>10 DEF IInv, AllocatorOK, JsonOK
  <1> QED BY <1>1, <1>2 DEF EitherInit

\* No step of whoever uses the allocator leaves the invariant.
LEMMA EitherStep ==
  ASSUME IInv, [EitherNext]_all_vars
  PROVE  IInv'
  <1>1. CASE ClientNext
    <2>1. role = "client" /\ Next /\ role' = role /\ answer' = answer
      BY <1>1 DEF ClientNext, json_idle
    <2>2. AllocatorOK' /\ ClientOK'
      BY <2>1, ClientStep DEF IInv
    <2> QED BY <2>1, <2>2 DEF IInv
  <1>2. CASE role # "client" /\ JsonNext
    <2>1. AllocatorOK' /\ JsonOK'
      BY <1>2, JsonStep DEF IInv
    <2>2. role' \in {"writer", "reader"}
      BY <2>1 DEF JsonOK, DocumentOK
    <2> QED BY <2>1, <2>2 DEF IInv
  <1>3. CASE UNCHANGED all_vars
    <2>1. UNCHANGED <<memory, host, live, stranded, result>>
          /\ UNCHANGED <<role, state, buffer, others, context, header, doc, phase, then,
                         pending, answer, kept_before>>
      BY <1>3 DEF all_vars, vars, holder
    <2>2. AllocatorOK' = AllocatorOK /\ ClientOK' = ClientOK
      BY <2>1 DEF AllocatorOK, ClientOK
    <2>3. headered' = headered
      BY <2>1 DEF headered, named
    <2>4. HoldersOK' = HoldersOK
      BY <2>1, <2>3 DEF HoldersOK
    <2>5. DocumentOK' = DocumentOK
      BY <2>1 DEF DocumentOK, phases, successors
    <2>6. RunOK' = RunOK
      BY <2>1, <2>3 DEF RunOK, is_arena
    <2>7. AnswerOK' = AnswerOK
      BY <2>1 DEF AnswerOK, told
    <2> QED BY <2>1, <2>2, <2>4, <2>5, <2>6, <2>7 DEF IInv, JsonOK
  <1> QED BY <1>1, <1>2, <1>3 DEF EitherNext

\* What is true between any two calls of a client, of a reader or writer and of
\* the others on its allocator: the handle is sound, every block has one
\* holder, a document names the blocks behind the headers, its run is their sum.
THEOREM Inductive == EitherSpec => []IInv
  <1>1. EitherInit => IInv
    BY EitherInitLemma
  <1>2. IInv /\ [EitherNext]_all_vars => IInv'
    BY EitherStep
  <1> QED BY <1>1, <1>2, PTL DEF EitherSpec

\* An arena's index is what its users hold and what is stranded, and no block
\* of the host is lost: whatever the calls, whatever they answered (memory.c).
THEOREM BytesAccounted == EitherSpec => []EveryByteAccounted
  <1>1. IInv => EveryByteAccounted
    <2> SUFFICES ASSUME IInv PROVE EveryByteAccounted
      OBVIOUS
    <2>1. AllocatorOK /\ Sound(memory, host, live, stranded)
      BY DEF IInv, AllocatorOK
    <2>2. is_arena => memory.last_index = Held(live) + stranded
      BY <2>1 DEF Sound, ArenaHolds, is_arena
    <2>3. NoHostLeak
      <3>1. CASE is_arena
        BY <2>1, <3>1 DEF Sound, ArenaHolds, NoHostLeak, is_arena, is_default_alloc,
                          HOST, OWNED, EXTERNAL
      <3>2. CASE memory.type = HOST
        BY <2>1, <3>2 DEF Sound, HostHolds, NoHostLeak, is_default_alloc, HOST, OWNED
      <3>3. CASE memory.type = NONE
        BY <2>1, <3>3 DEF Sound, NoHostLeak, is_default_alloc, HOST, OWNED, NONE
      <3> QED BY <2>1, <3>1, <3>2, <3>3 DEF Sound, Handle, is_arena
    <2> QED BY <2>2, <2>3 DEF EveryByteAccounted
  <1> QED BY <1>1, Inductive, PTL

\* No two blocks share a byte and none lies past the index, so that neither a
\* tail handed back nor a run taken back at once takes a neighbour with it
\* (memory.c:522, json_memory.h:137).
THEOREM SharesNoBytes == EitherSpec => []NoSharedBytes
  <1>1. IInv => NoSharedBytes
    <2> SUFFICES ASSUME IInv PROVE NoSharedBytes
      OBVIOUS
    <2>1. /\ Sound(memory, host, live, stranded) /\ result \in Results
          /\ memory \in Handle /\ live \subseteq Blocks /\ memory.last_index <= memory.capacity
          /\ host \subseteq HostBlocks /\ stranded \in Nat
      BY DEF IInv, AllocatorOK, Sound
    <2>2. \A b, c \in live : b # c => ~Overlap(b, c)
      <3>1. CASE is_arena
        BY <2>1, <3>1 DEF Sound, ArenaHolds, is_arena
      <3>2. CASE memory.type = HOST
        BY <2>1, <3>2 DEF Sound, HostHolds, Overlap
      <3>3. CASE memory.type = NONE
        BY <2>1, <3>3 DEF Sound
      <3> QED BY <2>1, <3>1, <3>2, <3>3 DEF Handle, is_arena
    <2>3. is_arena => \A b \in live : b.data = memory.data /\ b.off + Reserved(b) <= memory.last_index
      BY <2>1 DEF Sound, ArenaHolds, is_arena
    <2>4. role = "client" => TypeOK
      <3>1. SUFFICES ASSUME role = "client" PROVE TypeOK
        OBVIOUS
      <3>2. \A b \in live : b.size \in Sizes \ {0}
        BY <2>1, <3>1 DEF IInv, ClientOK, Blocks
      <3>3. memory.last_index \in {n \in 0..memory.capacity : n % 8 = 0}
        BY <2>1 DEF Handle, Multiples
      <3> QED BY <2>1, <3>2, <3>3 DEF TypeOK, Handle, Blocks, Multiples
    <2> QED BY <2>2, <2>3, <2>4 DEF NoSharedBytes, NothingShared, ClientBlocksDisjoint, BlocksDisjoint
  <1> QED BY <1>1, Inductive, PTL

\* Every block of the allocator is a reader's or writer's, its document's, its
\* text or another user's, under the size the allocator knows (json_memory.h).
THEOREM HeadersAccountForBlocks == EitherSpec => []JsonBlocksAccounted
  <1>1. IInv => JsonBlocksAccounted
    <2> SUFFICES ASSUME IInv, role # "client" PROVE BlocksAccounted
      BY DEF JsonBlocksAccounted
    <2>1. live = others \cup {named(a) : a \in DOMAIN header} \cup ({state, buffer} \ {NULL})
      BY DEF IInv, JsonOK, HoldersOK, headered
    <2>2. DOMAIN header \subseteq doc_blocks(doc) \cup Range(pending)
      BY DEF IInv, JsonOK, DocumentOK
    <2> QED BY <2>1, <2>2 DEF BlocksAccounted
  <1> QED BY <1>1, Inductive, PTL

\* The run of a writer is what the arena charges for its document's blocks, and
\* a document at the end of the arena is never let go block by block
\* (json_alc_context.span_size, json_alc_release_span).
THEOREM RunIsTheDocument == EitherSpec => []RunAccounts
  <1>1. IInv => RunAccounts
    <2> SUFFICES ASSUME IInv, role = "writer" PROVE RunAccounts
      BY DEF RunAccounts
    <2>1. RunOK /\ DocumentOK /\ HoldersOK
      BY DEF IInv, JsonOK
    <2>2. phase # "free" => DOMAIN header = doc_blocks(doc) /\ pending = <<>>
      BY <2>1 DEF DocumentOK
    <2>3. phase = "free" /\ pending = in_release_order(doc) => DOMAIN header \subseteq doc_blocks(doc)
      <3>1. SUFFICES ASSUME phase = "free", pending = in_release_order(doc)
                     PROVE  DOMAIN header \subseteq doc_blocks(doc)
        OBVIOUS
      <3> DEFINE A == Addresses \cup {NULL}
                 s == doc.strings
                 v == doc.values
                 f == << doc.first >>
      <3>2. s \in Seq(A) /\ v \in Seq(A) /\ f \in Seq(A) /\ Range(f) = {doc.first}
        BY <2>1 DEF DocumentOK, Documents, Range
      <3>3. DOMAIN header = Range(s \o v \o f) /\ DOMAIN header \subseteq Addresses
        BY <2>1, <3>1 DEF DocumentOK, HoldersOK, in_release_order
      <3>4. doc_blocks(doc) = ({doc.first} \ {NULL}) \cup Range(s) \cup Range(v)
        BY DEF doc_blocks
      <3> HIDE DEF A, s, v, f
      <3>5. s \o v \in Seq(A) /\ Range(s \o v) = Range(s) \cup Range(v)
        BY <3>2, AppendLemma
      <3> DEFINE u == s \o v
      <3>6. Range(u \o f) = Range(u) \cup Range(f)
        <4>1. u \in Seq(A) /\ f \in Seq(A)
          BY <3>2, <3>5
        <4> HIDE DEF u
        <4> QED BY <4>1, AppendLemma
      <3> QED BY <3>2, <3>3, <3>4, <3>5, <3>6, NullLemma
    <2> DEFINE charge == Held({named(a) : a \in json_blocks})
    <2>4. \/ phase # "free"
          \/ phase = "free" /\ pending = in_release_order(doc) => charge = Held(headered)
      <3>1. phase = "free" /\ pending = in_release_order(doc) => json_blocks = DOMAIN header
        BY <2>3 DEF json_blocks
      <3> QED BY <3>1 DEF headered
    <2>5. phase # "free" => charge = Held(headered)
      <3>1. phase # "free" => json_blocks = DOMAIN header
        BY <2>2 DEF json_blocks
      <3> QED BY <3>1 DEF headered
    <2>6. idle /\ ~context.broken => context.span = charge
      BY <2>1, <2>5 DEF idle, RunOK
    <2>7. idle /\ is_arena => ~context.broken
      BY <2>1 DEF RunOK
    <2>8. is_arena /\ pending # <<>> /\ pending = in_release_order(doc)
            => memory.last_index # doc.first.off + charge
      BY <2>1, <2>2, <2>4 DEF RunOK
    <2> QED BY <2>6, <2>7, <2>8 DEF RunAccounts
  <1> QED BY <1>1, Inductive, PTL

\* A release or destroy warns exactly when the arena kept bytes it was giving
\* back (json_reader.h, json_writer.h).
THEOREM TellsTheTruth == EitherSpec => []ReleaseTellsTruth
  <1>1. IInv => ReleaseTellsTruth
    BY DEF IInv, JsonOK, AnswerOK, told, ReleaseTellsTruth, idle
  <1> QED BY <1>1, Inductive, PTL
=============================================================================
