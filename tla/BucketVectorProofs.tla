------------------------- MODULE BucketVectorProofs --------------------------
(***************************************************************************)
(* What holds of the bucket vector for every element type, bucket size,    *)
(* limit and allocator: its counters describe its buckets, its blocks are  *)
(* its own, elements stay where they are, and it implements SequenceStore. *)
(*                                                                         *)
(* Good says it of explicit values: a call that moves the index and then   *)
(* takes buckets passes through descriptors that are none of the system's, *)
(* and is proved by putting one lemma behind the other.                    *)
(***************************************************************************)
EXTENDS BucketVector, DataLemmas

-----------------------------------------------------------------------------
(* The inductive invariant.                                                *)

Address == Nat \cup HostAddresses

Descriptors ==
  [index : Address \cup {NULL}, slots : Seq(Address \cup {NULL}), element_size : Nat,
   bucket_capacity : Nat, tail_index : Nat, tail_used : Nat, tail : Address \cup {NULL},
   size : Nat, log2 : Nat, step : Nat, allocated_count : Nat]

Memories ==
  [type : {HOST, OWNED}, data : {0, NULL}, last_index : Nat, capacity : Nat,
   out_of_memory_capacity : Nat]

\* Elements to a bucket, its bytes, and what the allocator takes for it.
Cap(d) == Pow(d.log2)
Bytes(d) == d.element_size * Cap(d)
Charge(d) == arnm_align8_u32(Bytes(d))

\* The tail is where the last element is.
Counted(d) ==
  IF d.size = 0
  THEN d.tail = NULL /\ d.tail_index = 0 /\ d.tail_used = Cap(d)
  ELSE /\ d.tail_index < d.allocated_count
       /\ d.tail = d.slots[d.tail_index + 1]
       /\ d.tail_used \in 1..Cap(d)
       /\ d.size = d.tail_index * Cap(d) + d.tail_used

\* The slots below the count hold buckets, in an index array that is there.
Indexed(d) ==
  /\ Len(d.slots) = d.bucket_capacity
  /\ d.bucket_capacity <= ARNM_BVEC_MAX_INDEX_CAPACITY
  /\ d.allocated_count <= d.bucket_capacity
  /\ d.index = NULL <=> d.bucket_capacity = 0
  /\ \A i \in 1..d.bucket_capacity : d.slots[i] # NULL <=> i <= d.allocated_count

Sized(d) ==
  /\ d.element_size \in 1..UINT16_MAX /\ d.log2 \in 1..MAX_BUCKET_LOG2
  /\ d.step \in 1..UINT16_MAX

\* Never initialised, but perhaps cleared.
Blank(d) ==
  /\ d.element_size = 0 /\ d.log2 = 0 /\ d.index = NULL
  /\ d.size = 0 /\ d.tail = NULL /\ d.tail_index = 0 /\ d.tail_used <= 1

Shape(d) ==
  /\ d \in Descriptors
  /\ Indexed(d)
  /\ Blank(d) \/ (Sized(d) /\ Counted(d))

MemoryOK(m) ==
  /\ m \in Memories
  /\ m.last_index <= m.capacity /\ m.capacity <= ARNM_MAX_ALLOC_SIZE
  /\ m.type = OWNED => m.data = 0

\* m bytes at a and n bytes at b share none.
Apart(a, m, b, n) == a + m <= b \/ b + n <= a

\* In an arena: k buckets s of n bytes, an index array of w bytes at ix, and the
\* neighbour's blocks O.
ArenaOwns(top, ix, w, s, k, n, O) ==
  /\ \A i \in 1..k : s[i] \in Nat /\ s[i] + n <= top
  /\ \A i, j \in 1..k : i # j => Apart(s[i], n, s[j], n)
  /\ ix # NULL =>
       /\ ix \in Nat /\ ix + w <= top
       /\ \A i \in 1..k : Apart(ix, w, s[i], n)
  /\ \A a \in O :
       /\ a \in Nat /\ a + 8 <= top
       /\ \A i \in 1..k : Apart(a, 8, s[i], n)
       /\ ix # NULL => Apart(a, 8, ix, w)
  /\ \A a, b \in O : a # b => Apart(a, 8, b, 8)

\* On the host: each block has a name of its own, and these are all.
HostOwns(h, ix, s, k, O) ==
  /\ O = {}
  /\ \A i \in 1..k : s[i] \in HostAddresses
  /\ \A i, j \in 1..k : i # j => s[i] # s[j]
  /\ ix # NULL => ix \in HostAddresses /\ \A i \in 1..k : ix # s[i]
  /\ h = {s[i] : i \in 1..k} \cup ({ix} \ {NULL})

Owns(m, h, ix, c, s, k, n, O) ==
  IF m.type = HOST THEN HostOwns(h, ix, s, k, O)
  ELSE ArenaOwns(m.last_index, ix, index_bytes(c), s, k, n, O)

Buckets(d) == {d.slots[i] : i \in 1..d.allocated_count}

CellsOK(d, c) == c \in [Buckets(d) -> [0..(Cap(d) - 1) -> Values]]

Good(d, m, h, O, c) ==
  /\ Shape(d)
  /\ MemoryOK(m)
  /\ Owns(m, h, d.index, d.bucket_capacity, d.slots, d.allocated_count, Charge(d), O)
  /\ CellsOK(d, c)

IInv ==
  /\ Good(v, memory, held, others, cells)
  /\ out \in Seq(Values)
  /\ result \in Results \cup {OUT_OF_BOUNDS, TOO_SMALL}

-----------------------------------------------------------------------------
(* Sizes.                                                                  *)

\* The sizes the code is built with: 32-bit blocks, 16-bit counts, and an index both can hold.
LEMMA Widths ==
  /\ UINT32_MAX \in Nat /\ UINT32_MAX > 8
  /\ ARNM_MAX_ALLOC_SIZE \in Nat /\ ARNM_MAX_ALLOC_SIZE < UINT32_MAX
  /\ UINT16_MAX \in Nat /\ 8 <= UINT16_MAX /\ UINT16_MAX <= UINT32_MAX
  /\ ARNM_BVEC_MAX_INDEX_CAPACITY \in Nat
  /\ 8 * ARNM_BVEC_MAX_INDEX_CAPACITY <= ARNM_MAX_ALLOC_SIZE
  /\ 8 * ARNM_BVEC_MAX_INDEX_CAPACITY <= UINT16_MAX
  BY WidthAssumption, BvecAssumption DEF ARNM_MAX_ALLOC_SIZE, ARNM_BVEC_MAX_INDEX_CAPACITY

\* What the allocator charges: not less than it is asked for, and never nothing.
LEMMA Charged ==
  ASSUME NEW b \in Nat \ {0}, b <= ARNM_MAX_ALLOC_SIZE
  PROVE  /\ arnm_align8_u32(b) \in Nat \ {0} /\ b <= arnm_align8_u32(b)
         /\ b % 8 = 0 => arnm_align8_u32(b) = b
  BY Widths DEF arnm_align8_u32

\* An index is a whole number of 8-byte words, so the allocator charges what it is asked for.
LEMMA IndexCharged ==
  ASSUME NEW c \in Nat \ {0}, c <= ARNM_BVEC_MAX_INDEX_CAPACITY
  PROVE  /\ index_bytes(c) \in Nat \ {0} /\ index_bytes(c) = 8 * c
         /\ index_bytes(c) <= ARNM_MAX_ALLOC_SIZE
         /\ arnm_align8_u32(index_bytes(c)) = index_bytes(c)
  <1>1. index_bytes(c) = 8 * c /\ index_bytes(c) \in Nat \ {0} /\ index_bytes(c) % 8 = 0
    BY DEF index_bytes
  <1>2. index_bytes(c) <= ARNM_MAX_ALLOC_SIZE
    BY <1>1, Widths
  <1> HIDE DEF index_bytes
  <1> QED BY <1>1, <1>2, Charged

\* A product grows with either factor.
LEMMA Times ==
  ASSUME NEW a \in Nat, NEW b \in Nat, NEW n \in Nat, a <= b
  PROVE  a * n \in Nat /\ b * n \in Nat /\ a * n <= b * n
         /\ (a + 1) * n = a * n + n
  OBVIOUS

\* A product grows with both factors.
LEMMA TimesBoth ==
  ASSUME NEW a \in Nat, NEW b \in Nat, NEW n \in Nat, NEW m \in Nat, a <= b, n <= m
  PROVE  a * n \in Nat /\ b * m \in Nat /\ a * n <= b * m
  <1>1. a * n <= b * n /\ a * n \in Nat
    BY Times
  <1>2. n * b <= m * b /\ b * m \in Nat
    BY Times
  <1> QED BY <1>1, <1>2

\* A vector that was initialised asks for buckets the allocator can round.
LEMMA Sizes ==
  ASSUME NEW d, d \in Descriptors, Sized(d)
  PROVE  /\ Cap(d) \in Nat \ {0, 1} /\ Cap(d) <= UINT16_MAX
         /\ Bytes(d) \in Nat \ {0} /\ Bytes(d) <= ARNM_MAX_ALLOC_SIZE
         /\ Charge(d) \in Nat \ {0}
  <1>1. /\ d.log2 \in 1..MAX_BUCKET_LOG2 /\ d.element_size \in Nat \ {0}
        /\ d.element_size <= UINT16_MAX
    BY Widths DEF Sized
  <1>2. /\ MAX_BUCKET_LOG2 \in 1..15 /\ Pow(MAX_BUCKET_LOG2) <= UINT16_MAX
        /\ UINT16_MAX * Pow(MAX_BUCKET_LOG2) <= ARNM_MAX_ALLOC_SIZE
    BY BvecAssumption, Zenon DEF Pow
  <1> DEFINE e == d.log2
             M == MAX_BUCKET_LOG2
  <1>3. e \in 0..32 /\ M \in 0..32 /\ 0 \in 0..32 /\ 0 < e /\ (e < M \/ e = M)
    BY <1>1, <1>2
  <1> HIDE DEF e, M
  <1>4. Pow(e) \in Nat /\ Pow(M) \in Nat /\ Pow(0) < Pow(e)
    BY <1>3, PowersGrow
  <1>5. Pow(e) <= Pow(M)
    <2>1. CASE e < M BY <1>3, <1>4, <2>1, PowersGrow
    <2>2. CASE e = M BY <1>4, <2>2
    <2> QED BY <1>3, <2>1, <2>2
  <1>6. Pow(e) > 1
    BY <1>4, PowerStep
  <1>7. Cap(d) = Pow(e)
    BY DEF Cap, e
  <1>8. Pow(M) <= UINT16_MAX /\ UINT16_MAX * Pow(M) <= ARNM_MAX_ALLOC_SIZE
    BY <1>2 DEF M
  <1>9. Cap(d) \in Nat \ {0, 1} /\ Cap(d) <= UINT16_MAX
    BY <1>4, <1>5, <1>6, <1>7, <1>8, Widths
  <1>10. d.element_size * Pow(e) <= UINT16_MAX * Pow(M)
    BY <1>1, <1>4, <1>5, TimesBoth, Widths
  <1>11. Bytes(d) = d.element_size * Pow(e)
    BY <1>7 DEF Bytes
  <1> DEFINE z == d.element_size
             y == Pow(e)
  <1>12. z \in Nat \ {0} /\ y \in Nat \ {0}
    BY <1>1, <1>4, <1>6
  <1> HIDE DEF z, y
  <1>13. z * y \in Nat \ {0}
    BY <1>12
  <1>14. Bytes(d) \in Nat \ {0}
    BY <1>11, <1>13 DEF z, y
  <1>15. Bytes(d) <= ARNM_MAX_ALLOC_SIZE
    <2>1. UINT16_MAX * Pow(M) \in Nat /\ UINT16_MAX * Pow(M) <= ARNM_MAX_ALLOC_SIZE
      BY <1>4, <1>8, Widths, TimesBoth
    <2>2. Bytes(d) <= UINT16_MAX * Pow(M)
      BY <1>10, <1>11, Zenon
    <2> QED BY <1>14, <2>1, <2>2, Widths
  <1>16. Charge(d) \in Nat \ {0}
    BY <1>14, <1>15, Charged DEF Charge
  <1> QED BY <1>9, <1>14, <1>15, <1>16

-----------------------------------------------------------------------------
(* The allocator's answers, over explicit values.                          *)

\* Only the first k of the buckets named count.
LEMMA OwnsPrefix ==
  ASSUME NEW m, NEW h, NEW ix, NEW c, NEW s, NEW t, NEW k \in Nat, NEW n, NEW O,
         Owns(m, h, ix, c, s, k, n, O), \A i \in 1..k : t[i] = s[i]
  PROVE  Owns(m, h, ix, c, t, k, n, O)
  <1>1. {t[i] : i \in 1..k} = {s[i] : i \in 1..k}
    OBVIOUS
  <1>2. CASE m.type = HOST
    BY <1>1, <1>2 DEF Owns, HostOwns
  <1>3. CASE m.type # HOST
    <2>1. ArenaOwns(m.last_index, ix, index_bytes(c), s, k, n, O)
      BY <1>3 DEF Owns
    <2>2. ArenaOwns(m.last_index, ix, index_bytes(c), t, k, n, O)
      BY <2>1 DEF ArenaOwns
    <2> QED BY <1>3, <2>2 DEF Owns
  <1> QED BY <1>2, <1>3

\* The index of an arena after a bump.
LEMMA Bumped ==
  ASSUME NEW m \in Memories, NEW x \in Int, m.last_index + x \in Nat
  PROVE  /\ bump(m, x) \in Memories
         /\ bump(m, x).last_index = m.last_index + x
         /\ bump(m, x).capacity = m.capacity
         /\ bump(m, x).type = m.type /\ bump(m, x).data = m.data
  BY DEF bump, Memories

\* t goes on behind s[k] with j blocks in a row from top on.
RunsOn(t, s, k, j, top, n) ==
  /\ \A i \in 1..k : t[i] = s[i]
  /\ \A i \in 1..j : t[k + i] = top + (i - 1) * n

\* Buckets that the allocator hands out lie beside all that was held.
LEMMA TakenArena ==
  ASSUME NEW top \in Nat, NEW ix, NEW w \in Nat, NEW s, NEW t, NEW k \in Nat,
         NEW n \in Nat \ {0}, NEW O, NEW j \in Nat, NEW new \in Nat,
         ArenaOwns(top, ix, w, s, k, n, O), RunsOn(t, s, k, j, top, n), new = top + j * n
  PROVE  ArenaOwns(new, ix, w, t, k + j, n, O)
  <1>0. /\ \A i \in 1..k : t[i] = s[i]
        /\ \A i \in 1..j : t[k + i] = top + (i - 1) * n
    BY DEF RunsOn
  <1>1. \A i \in 1..j : /\ (i - 1) * n \in Nat /\ i * n \in Nat /\ j * n \in Nat
                        /\ i * n = (i - 1) * n + n /\ i * n <= j * n
    <2> SUFFICES ASSUME NEW i \in 1..j
                 PROVE  /\ (i - 1) * n \in Nat /\ i * n \in Nat /\ j * n \in Nat
                        /\ i * n = (i - 1) * n + n /\ i * n <= j * n
      OBVIOUS
    <2>1. i \in Nat /\ i - 1 \in Nat /\ i <= j /\ i - 1 <= i /\ (i - 1) + 1 = i
      OBVIOUS
    <2>2. /\ i * n \in Nat /\ j * n \in Nat /\ i * n <= j * n
      BY <2>1, Times
    <2>3. (i - 1) * n \in Nat /\ ((i - 1) + 1) * n = (i - 1) * n + n
      BY <2>1, Times
    <2> QED BY <2>1, <2>2, <2>3, Zenon
  <1>2. \A i, l \in 1..j : i < l => i * n <= (l - 1) * n
    <2> SUFFICES ASSUME NEW i \in 1..j, NEW l \in 1..j, i < l PROVE i * n <= (l - 1) * n
      OBVIOUS
    <2>1. i \in Nat /\ l - 1 \in Nat /\ i <= l - 1
      OBVIOUS
    <2> QED BY <2>1, Times
  <1>3. j * n \in Nat
    BY Times
  <1> DEFINE y(i) == (i - 1) * n
  <1>4. \A i \in 1..j : /\ t[k + i] = top + y(i) /\ y(i) \in Nat
                        /\ t[k + i] \in Nat /\ t[k + i] + n <= new /\ top <= t[k + i]
    <2> SUFFICES ASSUME NEW i \in 1..j
                 PROVE  /\ t[k + i] = top + y(i) /\ y(i) \in Nat
                        /\ t[k + i] \in Nat /\ t[k + i] + n <= new /\ top <= t[k + i]
      OBVIOUS
    <2>1. t[k + i] = top + y(i) /\ y(i) \in Nat /\ y(i) + n <= j * n /\ j * n \in Nat
      BY <1>0, <1>1
    <2> HIDE DEF y
    <2> QED BY <2>1
  <1>5. \A i, l \in 1..j : i < l => t[k + i] + n <= t[k + l]
    <2> SUFFICES ASSUME NEW i \in 1..j, NEW l \in 1..j, i < l
                 PROVE  t[k + i] + n <= t[k + l]
      OBVIOUS
    <2>1. y(i) + n <= y(l)
      BY <1>1, <1>2
    <2> HIDE DEF y
    <2> QED BY <1>4, <2>1
  <1> HIDE DEF y
  <1>6. \A i \in 1..(k + j) : i \in 1..k \/ (i - k \in 1..j /\ k + (i - k) = i /\ i > k)
    OBVIOUS
  <1>7. \A i \in 1..(k + j) : i > k => t[i] \in Nat /\ t[i] + n <= new /\ top <= t[i]
    <2> SUFFICES ASSUME NEW i \in 1..(k + j), i > k
                 PROVE  t[i] \in Nat /\ t[i] + n <= new /\ top <= t[i]
      OBVIOUS
    <2> DEFINE l == i - k
    <2>1. l \in 1..j /\ k + l = i
      BY <1>6
    <2> HIDE DEF l
    <2> QED BY <1>4, <2>1
  <1>8. top <= new
    BY <1>3
  <1>9. \A i \in 1..k : t[i] \in Nat /\ t[i] + n <= top
    BY <1>0 DEF ArenaOwns
  <1>10. ASSUME NEW i \in 1..(k + j), NEW l \in 1..(k + j), i < l
         PROVE  Apart(t[i], n, t[l], n)
    <2>1. CASE l \in 1..k
      <3>1. i \in 1..k /\ i # l
        BY <1>10, <2>1
      <3>2. Apart(s[i], n, s[l], n) /\ t[i] = s[i] /\ t[l] = s[l]
        BY <1>0, <2>1, <3>1 DEF ArenaOwns
      <3> QED BY <3>2, Zenon
    <2>2. CASE i \in 1..k /\ l > k
      BY <1>7, <1>9, <2>2 DEF Apart
    <2>3. CASE i > k /\ l > k
      <3> DEFINE p == i - k
                 q == l - k
      <3>1. p \in 1..j /\ q \in 1..j /\ p < q /\ k + p = i /\ k + q = l
        BY <1>6, <1>10, <2>3
      <3> HIDE DEF p, q
      <3>2. t[k + p] + n <= t[k + q]
        BY <1>5, <3>1
      <3>3. t[i] + n <= t[l]
        BY <3>1, <3>2, Zenon
      <3> QED BY <3>3 DEF Apart
    <2> QED BY <1>6, <1>10, <2>1, <2>2, <2>3
  <1>11. \A i, l \in 1..(k + j) : i # l => Apart(t[i], n, t[l], n)
    <2> SUFFICES ASSUME NEW i \in 1..(k + j), NEW l \in 1..(k + j), i # l
                 PROVE  Apart(t[i], n, t[l], n)
      OBVIOUS
    <2>1. i < l \/ l < i
      OBVIOUS
    <2>2. CASE i < l BY <1>10, <2>2
    <2>3. CASE l < i
      <3>1. Apart(t[l], n, t[i], n)
        BY <1>10, <2>3
      <3> QED BY <3>1 DEF Apart
    <2> QED BY <2>1, <2>2, <2>3
  <1>12. \A i \in 1..(k + j) : t[i] \in Nat /\ t[i] + n <= new
    BY <1>6, <1>7, <1>8, <1>9
  <1>13. ASSUME NEW a \in Nat, NEW b \in Nat, a + b <= top, NEW i \in 1..(k + j),
                \A l \in 1..k : Apart(a, b, s[l], n)
         PROVE  Apart(a, b, t[i], n)
    <2>1. CASE i \in 1..k
      BY <1>0, <1>13, <2>1
    <2>2. CASE i > k
      BY <1>7, <1>13, <2>2 DEF Apart
    <2> QED BY <1>6, <2>1, <2>2
  <1>14. ix # NULL => /\ ix \in Nat /\ ix + w <= new
                      /\ \A i \in 1..(k + j) : Apart(ix, w, t[i], n)
    <2> HAVE ix # NULL
    <2>1. ix \in Nat /\ ix + w <= top /\ \A i \in 1..k : Apart(ix, w, s[i], n)
      BY DEF ArenaOwns
    <2> QED BY <1>8, <1>13, <2>1
  <1>15. ASSUME NEW a \in O
         PROVE  /\ a \in Nat /\ a + 8 <= new
                /\ \A i \in 1..(k + j) : Apart(a, 8, t[i], n)
                /\ ix # NULL => Apart(a, 8, ix, w)
    <2>1. /\ a \in Nat /\ a + 8 <= top /\ \A i \in 1..k : Apart(a, 8, s[i], n)
          /\ ix # NULL => Apart(a, 8, ix, w)
      BY DEF ArenaOwns
    <2>2. \A i \in 1..(k + j) : Apart(a, 8, t[i], n)
      BY <1>13, <2>1
    <2>3. a + 8 <= new
      BY <1>8, <2>1
    <2> QED BY <2>1, <2>2, <2>3
  <1>16. \A a, b \in O : a # b => Apart(a, 8, b, 8)
    BY DEF ArenaOwns
  <1> QED BY <1>11, <1>12, <1>14, <1>15, <1>16 DEF ArenaOwns

\* What the allocator grants is addresses, and leaves it in order.
LEMMA Granted ==
  ASSUME NEW m, NEW h, NEW b \in Nat \ {0}, NEW j \in Nat,
         MemoryOK(m), b <= ARNM_MAX_ALLOC_SIZE, NEW o \in taken(m, h, b, j)
  PROVE  /\ MemoryOK(o.memory) /\ o.memory.type = m.type
         /\ o.at \in Seq(Address) /\ Len(o.at) = j
  <1> DEFINE n == arnm_align8_u32(b)
  <1>0. n \in Nat \ {0}
    BY Charged
  <1> HIDE DEF n
  <1>1. CASE m.type = HOST
    <2>1. PICK z \in {z \in [1..j -> HostAddresses \ h] : IsInjective(z)} :
            o = [memory |-> m, held |-> h \cup Range(z), at |-> z]
      BY <1>1 DEF taken
    <2>2. o.memory = m /\ o.at = z /\ z \in [1..j -> HostAddresses]
      BY <2>1
    <2> QED BY <2>2 DEF Address
  <1>2. CASE m.type # HOST
    <2> DEFINE at == [i \in 1..j |-> m.last_index + (i - 1) * n]
               x == j * n
    <2>1. /\ o.memory = bump(m, x) /\ o.at = at
          /\ x <= remaining_bytes(m)
      BY <1>2 DEF taken, n
    <2>2. m \in Memories /\ m.last_index \in Nat /\ m.capacity \in Nat
      BY DEF MemoryOK, Memories
    <2>3. x \in Nat
      BY <1>0, Times
    <2>4. at \in [1..j -> Address]
      <3> SUFFICES ASSUME NEW i \in 1..j PROVE m.last_index + (i - 1) * n \in Nat
        BY DEF Address
      <3>1. i - 1 \in Nat
        OBVIOUS
      <3>2. (i - 1) * n \in Nat
        BY <1>0, <3>1, Times
      <3> QED BY <2>2, <3>2
    <2> HIDE DEF at, x
    <2>5. x \in Int /\ m.last_index + x \in Nat /\ x <= m.capacity - m.last_index
      BY <2>1, <2>2, <2>3 DEF remaining_bytes
    <2>6. /\ bump(m, x) \in Memories /\ bump(m, x).last_index = m.last_index + x
          /\ bump(m, x).capacity = m.capacity /\ bump(m, x).type = m.type
          /\ bump(m, x).data = m.data
      BY <2>2, <2>5, Bumped
    <2>7. MemoryOK(bump(m, x))
      BY <2>2, <2>5, <2>6 DEF MemoryOK
    <2>8. at \in Seq(Address) /\ Len(at) = j
      BY <2>4
    <2> QED BY <2>1, <2>6, <2>7, <2>8
  <1> QED BY <1>1, <1>2

\* t goes on behind s[k] with the j addresses of at.
GoesOn(t, s, k, j, at) ==
  /\ \A i \in 1..k : t[i] = s[i]
  /\ \A i \in 1..j : t[k + i] = at[i]

\* The buckets the allocator hands out in one go are added to what the vector owns.
LEMMA Taken ==
  ASSUME NEW m, NEW h, NEW ix, NEW c, NEW s, NEW t, NEW k \in Nat, NEW b \in Nat \ {0},
         NEW O, NEW j \in Nat,
         MemoryOK(m), b <= ARNM_MAX_ALLOC_SIZE, index_bytes(c) \in Nat,
         Owns(m, h, ix, c, s, k, arnm_align8_u32(b), O),
         NEW o \in taken(m, h, b, j), GoesOn(t, s, k, j, o.at)
  PROVE  Owns(o.memory, o.held, ix, c, t, k + j, arnm_align8_u32(b), O)
  <1> DEFINE n == arnm_align8_u32(b)
  <1>0. n \in Nat \ {0}
    BY Charged
  <1> HIDE DEF n
  <1>9. /\ \A i \in 1..k : t[i] = s[i]
        /\ \A i \in 1..j : t[k + i] = o.at[i]
    BY DEF GoesOn
  <1>1. CASE m.type = HOST
    <2>1. PICK z \in {z \in [1..j -> HostAddresses \ h] : IsInjective(z)} :
            o = [memory |-> m, held |-> h \cup Range(z), at |-> z]
      BY <1>1 DEF taken
    <2>2. /\ o.memory = m /\ o.held = h \cup Range(z) /\ o.at = z
          /\ z \in [1..j -> HostAddresses] /\ Range(z) = {z[i] : i \in 1..j}
          /\ \A i \in 1..j : z[i] \in HostAddresses /\ z[i] \notin h
          /\ \A i, l \in 1..j : z[i] = z[l] => i = l
      BY <2>1 DEF Range, IsInjective
    <2>4. HostOwns(h, ix, s, k, O)
      BY <1>1 DEF Owns
    <2>5. \A i \in 1..(k + j) : (i \in 1..k /\ t[i] = s[i])
                                 \/ (i > k /\ i - k \in 1..j /\ t[i] = z[i - k])
      <3> SUFFICES ASSUME NEW i \in 1..(k + j), i > k
                   PROVE  i - k \in 1..j /\ t[i] = z[i - k]
        BY <1>9
      <3> DEFINE l == i - k
      <3>1. l \in 1..j /\ k + l = i
        OBVIOUS
      <3> HIDE DEF l
      <3>2. t[k + l] = z[l]
        BY <1>9, <2>2, <3>1
      <3> QED BY <3>1, <3>2 DEF l
    <2>6. {t[i] : i \in 1..(k + j)} = {s[i] : i \in 1..k} \cup {z[i] : i \in 1..j}
      <3>1. \A i \in 1..j : z[i] = t[k + i] /\ k + i \in 1..(k + j)
        BY <1>9, <2>2
      <3>2. \A i \in 1..k : s[i] = t[i] /\ i \in 1..(k + j)
        BY <1>9
      <3> QED BY <2>5, <3>1, <3>2
    <2>7. h = {s[i] : i \in 1..k} \cup ({ix} \ {NULL})
      BY <2>4 DEF HostOwns
    <2>8. o.held = {t[i] : i \in 1..(k + j)} \cup ({ix} \ {NULL})
      BY <2>2, <2>6, <2>7
    <2>9. \A i \in 1..(k + j) : t[i] \in HostAddresses
      BY <2>2, <2>4, <2>5 DEF HostOwns
    <2>10. ASSUME NEW i \in 1..(k + j), NEW l \in 1..(k + j), t[i] = t[l] PROVE i = l
      <3>1. \A p \in 1..k, q \in 1..j : s[p] # z[q]
        BY <2>2, <2>7
      <3>2. CASE i \in 1..k /\ l \in 1..k
        BY <1>9, <2>4, <2>10, <3>2 DEF HostOwns
      <3>3. CASE i > k /\ l > k
        <4>1. i - k = l - k
          BY <2>2, <2>5, <2>10, <3>3
        <4> QED BY <4>1
      <3> QED BY <2>5, <2>10, <3>1, <3>2, <3>3
    <2>11. ix # NULL => ix \in HostAddresses /\ \A i \in 1..(k + j) : ix # t[i]
      <3>1. ix # NULL => ix \in HostAddresses /\ ix \in h /\ \A i \in 1..k : ix # s[i]
        BY <2>4, <2>7 DEF HostOwns
      <3> QED BY <2>2, <2>5, <3>1
    <2>12. HostOwns(o.held, ix, t, k + j, O)
      BY <2>4, <2>8, <2>9, <2>10, <2>11 DEF HostOwns
    <2> QED BY <1>1, <2>2, <2>12 DEF Owns
  <1>2. CASE m.type # HOST
    <2> DEFINE at == [i \in 1..j |-> m.last_index + (i - 1) * n]
    <2>1. /\ o = [memory |-> bump(m, j * n), held |-> h, at |-> at]
          /\ j * n <= remaining_bytes(m)
      BY <1>2 DEF taken, n
    <2>2. o.memory = bump(m, j * n) /\ o.held = h /\ o.at = at
      BY <2>1
    <2>3. m \in Memories /\ m.last_index \in Nat /\ m.capacity \in Nat
      BY DEF MemoryOK, Memories
    <2>4. j * n \in Nat /\ m.last_index + j * n \in Nat
      BY <1>0, <2>3, Times
    <2> DEFINE x == j * n
    <2>5. x \in Int /\ x \in Nat /\ m.last_index + x \in Nat /\ x <= m.capacity - m.last_index
      BY <2>1, <2>4 DEF remaining_bytes
    <2> HIDE DEF x
    <2>6. /\ bump(m, x) \in Memories /\ bump(m, x).last_index = m.last_index + x
          /\ bump(m, x).capacity = m.capacity /\ bump(m, x).type = m.type
          /\ bump(m, x).data = m.data
      BY <2>3, <2>5, Bumped
    <2>10. ArenaOwns(m.last_index, ix, index_bytes(c), s, k, n, O)
      BY <1>2 DEF Owns, n
    <2>11. \A i \in 1..j : t[k + i] = m.last_index + (i - 1) * n
      BY <1>9, <2>2
    <2>12. ArenaOwns(bump(m, x).last_index, ix, index_bytes(c), t, k + j, n, O)
      <3>1. bump(m, x).last_index = m.last_index + j * n
        BY <2>6 DEF x
      <3> DEFINE new == bump(m, x).last_index
                 w == index_bytes(c)
                 top == m.last_index
      <3>2. new \in Nat /\ top \in Nat /\ w \in Nat
        BY <2>3, <2>4, <3>1
      <3>3. /\ ArenaOwns(top, ix, w, s, k, n, O) /\ new = top + j * n
            /\ RunsOn(t, s, k, j, top, n)
        BY <1>9, <2>10, <2>11, <3>1 DEF RunsOn
      <3> HIDE DEF new, w, top
      <3>4. ArenaOwns(new, ix, w, t, k + j, n, O)
        BY <1>0, <3>2, <3>3, TakenArena
      <3> QED BY <3>4 DEF new, w
    <2>13. Owns(bump(m, x), h, ix, c, t, k + j, n, O)
      BY <1>2, <2>6, <2>12 DEF Owns
    <2>14. o.memory = bump(m, x) /\ o.held = h /\ o.at = at
      BY <2>2 DEF x
    <2> HIDE DEF at
    <2> QED BY <2>13, <2>14 DEF n
  <1> QED BY <1>1, <1>2

\* A block that is the newest of an arena, and what lies below it.
LEMMA TailIs ==
  ASSUME NEW m, MemoryOK(m), m.type # HOST, NEW at, NEW b
  PROVE  at_tail(m, at, b) <=>
           /\ arnm_align8_u32(b) # 0
           /\ m.last_index - arnm_align8_u32(b) = at
  BY DEF at_tail, is_single_arena_reclaimable, Block, MemoryOK, Memories

\* The newest block of an arena may grow, shrink or go: the rest lies below.
LEMMA IndexAtTail ==
  ASSUME NEW top \in Nat, NEW new \in Nat, NEW ix \in Nat, NEW w \in Nat \ {0}, NEW u \in Nat,
         NEW s, NEW k \in Nat, NEW n \in Nat \ {0}, NEW O,
         ArenaOwns(top, ix, w, s, k, n, O), ix = top - w, new = ix + u, ix # NULL
  PROVE  /\ ArenaOwns(new, ix, u, s, k, n, O)
         /\ ArenaOwns(ix, NULL, 0, s, k, n, O)
  <1>1. \A i \in 1..k : s[i] \in Nat /\ s[i] + n <= ix
    BY DEF ArenaOwns, Apart
  <1>2. \A a \in O : a \in Nat /\ a + 8 <= ix
    BY DEF ArenaOwns, Apart
  <1>3. /\ \A i, j \in 1..k : i # j => Apart(s[i], n, s[j], n)
        /\ \A a \in O : \A i \in 1..k : Apart(a, 8, s[i], n)
        /\ \A a, b \in O : a # b => Apart(a, 8, b, 8)
    BY DEF ArenaOwns
  <1>4. \A i \in 1..k : Apart(ix, u, s[i], n) /\ s[i] + n <= new
    BY <1>1 DEF Apart
  <1>5. \A a \in O : Apart(a, 8, ix, u) /\ a + 8 <= new
    BY <1>2 DEF Apart
  <1>6. ArenaOwns(new, ix, u, s, k, n, O)
    BY <1>1, <1>2, <1>3, <1>4, <1>5 DEF ArenaOwns
  <1>7. ArenaOwns(ix, NULL, 0, s, k, n, O)
    BY <1>1, <1>2, <1>3 DEF ArenaOwns
  <1> QED BY <1>6, <1>7

\* A new index array on top of all, the old one left behind.
LEMMA IndexOnTop ==
  ASSUME NEW top \in Nat, NEW ix, NEW w \in Nat, NEW u \in Nat,
         NEW s, NEW k \in Nat, NEW n \in Nat \ {0}, NEW O,
         ArenaOwns(top, ix, w, s, k, n, O)
  PROVE  ArenaOwns(top + u, top, u, s, k, n, O)
  <1>1. \A i \in 1..k : /\ s[i] \in Nat /\ s[i] + n <= top + u
                        /\ Apart(top, u, s[i], n)
    BY DEF ArenaOwns, Apart
  <1>2. \A a \in O : a \in Nat /\ a + 8 <= top + u /\ Apart(a, 8, top, u)
    BY DEF ArenaOwns, Apart
  <1>3. /\ \A i, j \in 1..k : i # j => Apart(s[i], n, s[j], n)
        /\ \A a \in O : \A i \in 1..k : Apart(a, 8, s[i], n)
        /\ \A a, b \in O : a # b => Apart(a, 8, b, 8)
    BY DEF ArenaOwns
  <1> QED BY <1>1, <1>2, <1>3 DEF ArenaOwns

\* What arnm_realloc may answer for the index array, and what then holds.
LEMMA Resized ==
  ASSUME NEW m, NEW h, NEW ix \in Address \cup {NULL}, NEW c \in Nat, NEW e \in Nat \ {0},
         NEW s, NEW k \in Nat, NEW n \in Nat \ {0}, NEW O,
         MemoryOK(m), Owns(m, h, ix, c, s, k, n, O),
         ix = NULL <=> c = 0, c # e,
         c <= ARNM_BVEC_MAX_INDEX_CAPACITY, e <= ARNM_BVEC_MAX_INDEX_CAPACITY,
         NEW o \in resized(m, h, ix, index_bytes(c), index_bytes(e))
  PROVE  /\ o.result \in {SUCCESS, NOT_RECLAIMED, OUT_OF_MEMORY}
         /\ MemoryOK(o.memory) /\ o.memory.type = m.type
         /\ o.result = OUT_OF_MEMORY => o.memory = m /\ o.held = h
         /\ o.result = NOT_RECLAIMED /\ e < c => o.memory = m /\ o.held = h
         /\ o.result = SUCCESS \/ (o.result = NOT_RECLAIMED /\ c < e) =>
              o.at \in Address /\ Owns(o.memory, o.held, o.at, e, s, k, n, O)
  <1> DEFINE w == index_bytes(c)
             u == index_bytes(e)
  <1>1. /\ u \in Nat \ {0} /\ u <= ARNM_MAX_ALLOC_SIZE /\ u = 8 * e /\ w = 8 * c
    BY IndexCharged DEF index_bytes
  <1>2. c # 0 => w \in Nat \ {0} /\ w <= ARNM_MAX_ALLOC_SIZE /\ arnm_align8_u32(w) = w
    BY IndexCharged
  <1>3. w \in Nat /\ (u <= w <=> e < c) /\ (w < u <=> c < e)
    BY <1>1
  <1>4. SUCCESS # OUT_OF_MEMORY /\ SUCCESS # NOT_RECLAIMED /\ NOT_RECLAIMED # OUT_OF_MEMORY
    BY DEF SUCCESS, OUT_OF_MEMORY, NOT_RECLAIMED
  <1>5. NULL \notin Address
    BY BvecAssumption DEF Address
  <1> DEFINE refused == [result |-> OUT_OF_MEMORY, memory |-> m, held |-> h, at |-> ix]
             same    == [result |-> SUCCESS, memory |-> m, held |-> h, at |-> ix]
  <1>6. CASE m.type = HOST
    <2>0. HostOwns(h, ix, s, k, O)
      BY <1>6 DEF Owns
    <2>1. \/ o = refused
          \/ o = same /\ ix # NULL
          \/ \E a \in HostAddresses \ h :
               o = [same EXCEPT !.at = a, !.held = (h \ {ix}) \cup {a}]
      BY <1>6 DEF resized
    <2>2. CASE o = refused
      BY <1>4, <2>2
    <2>3. CASE o = same /\ ix # NULL
      <3>1. HostOwns(h, ix, s, k, O) => Owns(m, h, ix, e, s, k, n, O)
        BY <1>6 DEF Owns
      <3> QED BY <1>4, <2>0, <2>3, <3>1
    <2>4. ASSUME NEW a \in HostAddresses \ h,
                 o = [same EXCEPT !.at = a, !.held = (h \ {ix}) \cup {a}]
          PROVE  /\ o.result = SUCCESS /\ o.memory = m /\ o.at = a
                 /\ Owns(m, o.held, a, e, s, k, n, O)
      <3>1. o.result = SUCCESS /\ o.memory = m /\ o.at = a /\ o.held = (h \ {ix}) \cup {a}
        BY <2>4
      <3>2. /\ h = {s[i] : i \in 1..k} \cup ({ix} \ {NULL})
            /\ \A i \in 1..k : s[i] \in HostAddresses
            /\ ix # NULL => ix \in HostAddresses /\ \A i \in 1..k : ix # s[i]
        BY <2>0 DEF HostOwns
      <3>3. \A i \in 1..k : s[i] \in h /\ a # s[i] /\ s[i] # NULL
        BY <1>5, <3>2 DEF Address
      <3>4. a # NULL
        BY <1>5 DEF Address
      <3>5. o.held = {s[i] : i \in 1..k} \cup ({a} \ {NULL})
        BY <3>1, <3>2, <3>3, <3>4
      <3>6. HostOwns(o.held, a, s, k, O)
        BY <2>0, <3>3, <3>5 DEF HostOwns
      <3> QED BY <1>6, <3>1, <3>6 DEF Owns
    <2>5. ASSUME NEW a \in HostAddresses \ h,
                 o = [same EXCEPT !.at = a, !.held = (h \ {ix}) \cup {a}]
          PROVE  /\ o.result = SUCCESS /\ MemoryOK(o.memory) /\ o.memory.type = m.type
                 /\ o.at \in Address /\ Owns(o.memory, o.held, o.at, e, s, k, n, O)
      <3>1. o.result = SUCCESS /\ o.memory = m /\ o.at = a /\ Owns(m, o.held, a, e, s, k, n, O)
        BY <2>4, <2>5
      <3>2. a \in Address
        BY DEF Address
      <3>3. Owns(o.memory, o.held, o.at, e, s, k, n, O)
        BY <3>1, Zenon
      <3> QED BY <3>1, <3>2, <3>3
    <2> QED BY <1>4, <2>1, <2>2, <2>3, <2>5
  <1>7. CASE m.type # HOST
    <2> DEFINE top == m.last_index
    <2>0. /\ ArenaOwns(top, ix, w, s, k, n, O)
          /\ m \in Memories /\ top \in Nat /\ m.capacity \in Nat /\ top <= m.capacity
      BY <1>7 DEF Owns, MemoryOK, Memories
    <2>1. ix # NULL => ix \in Nat
      BY <2>0 DEF ArenaOwns
    <2> HIDE DEF w, u
    <2>2. CASE ix # NULL /\ at_tail(m, ix, w)
      <3>1. w \in Nat \ {0} /\ ix \in Nat /\ ix = top - w /\ arnm_align8_u32(w) = w
        BY <1>2, <1>7, <2>1, <2>2, TailIs
      <3>2. o = IF u - w <= remaining_bytes(m)
                THEN [same EXCEPT !.memory = bump(m, u - w)] ELSE refused
        BY <1>7, <2>2 DEF resized, w, u
      <3>3. CASE u - w <= remaining_bytes(m)
        <4>1. o.result = SUCCESS /\ o.memory = bump(m, u - w) /\ o.held = h /\ o.at = ix
          BY <3>2, <3>3
        <4>2. u - w \in Int /\ top + (u - w) = ix + u /\ top + (u - w) \in Nat
          BY <1>1, <2>0, <3>1
        <4> DEFINE b == bump(m, u - w)
        <4>3. /\ b \in Memories /\ b.last_index = ix + u
              /\ b.capacity = m.capacity /\ b.type = m.type /\ b.data = m.data
          BY <2>0, <4>2, Bumped
        <4>4. ix + u <= m.capacity
          BY <1>1, <2>0, <3>1, <3>3 DEF remaining_bytes
        <4> HIDE DEF b
        <4>5. MemoryOK(b)
          BY <4>3, <4>4 DEF MemoryOK
        <4>6. ArenaOwns(ix + u, ix, u, s, k, n, O)
          <5> DEFINE new == ix + u
          <5>1. new \in Nat /\ new = ix + u
            BY <1>1, <3>1
          <5> HIDE DEF new
          <5>2. ArenaOwns(new, ix, u, s, k, n, O)
            BY <1>1, <2>0, <2>2, <3>1, <5>1, IndexAtTail
          <5> QED BY <5>2 DEF new
        <4>7. Owns(b, h, ix, e, s, k, n, O)
          <5>1. ArenaOwns(b.last_index, ix, index_bytes(e), s, k, n, O)
            BY <4>3, <4>6, Zenon DEF u
          <5> QED BY <1>7, <4>3, <5>1 DEF Owns
        <4>8. ix \in Address
          BY <3>1 DEF Address
        <4>9. o.memory = b
          BY <4>1 DEF b
        <4>10. Owns(o.memory, o.held, o.at, e, s, k, n, O) /\ MemoryOK(o.memory)
          BY <4>1, <4>5, <4>7, <4>9, Zenon
        <4>11. o.memory.type = m.type
          BY <4>3, <4>9
        <4> QED BY <1>4, <4>1, <4>8, <4>10, <4>11
      <3>4. CASE ~(u - w <= remaining_bytes(m))
        BY <1>4, <3>2, <3>4
      <3> QED BY <3>3, <3>4
    <2>3. CASE ~(ix # NULL /\ at_tail(m, ix, w))
      <3>1. CASE u <= w
        <4>1. o = [same EXCEPT !.result = NOT_RECLAIMED]
          BY <1>7, <2>3, <3>1 DEF resized, w, u
        <4>2. o.result = NOT_RECLAIMED /\ o.memory = m /\ o.held = h
          BY <4>1
        <4> QED BY <1>3, <1>4, <3>1, <4>2
      <3>2. CASE ~(u <= w) /\ remaining_bytes(m) < u
        <4>1. o = refused
          BY <1>7, <2>3, <3>2 DEF resized, w, u
        <4> QED BY <1>4, <4>1
      <3>3. CASE ~(u <= w) /\ ~(remaining_bytes(m) < u)
        <4>1. o = [result |-> NOT_RECLAIMED, memory |-> bump(m, u), held |-> h, at |-> top]
          BY <1>7, <2>3, <3>3 DEF resized, w, u
        <4>2. o.result = NOT_RECLAIMED /\ o.memory = bump(m, u) /\ o.held = h /\ o.at = top
          BY <4>1
        <4> DEFINE b == bump(m, u)
        <4>3. /\ b \in Memories /\ b.last_index = top + u
              /\ b.capacity = m.capacity /\ b.type = m.type /\ b.data = m.data
          <5>1. u \in Int /\ top + u \in Nat
            BY <1>1, <2>0
          <5> QED BY <2>0, <5>1, Bumped
        <4>4. top + u <= m.capacity
          BY <1>1, <2>0, <3>3 DEF remaining_bytes
        <4> HIDE DEF b
        <4>5. MemoryOK(b)
          BY <4>3, <4>4 DEF MemoryOK
        <4>6. ArenaOwns(top + u, top, u, s, k, n, O)
          BY <1>1, <1>3, <2>0, IndexOnTop
        <4>7. Owns(b, h, top, e, s, k, n, O)
          <5>1. ArenaOwns(b.last_index, top, index_bytes(e), s, k, n, O)
            BY <4>3, <4>6, Zenon DEF u
          <5> QED BY <1>7, <4>3, <5>1 DEF Owns
        <4>8. top \in Address
          BY <2>0 DEF Address
        <4>9. o.memory = b
          BY <4>2 DEF b
        <4>10. Owns(o.memory, o.held, o.at, e, s, k, n, O) /\ MemoryOK(o.memory)
          BY <4>2, <4>5, <4>7, <4>9, Zenon
        <4>11. o.memory.type = m.type
          BY <4>3, <4>9
        <4>12. ~(e < c)
          BY <1>3, <3>3
        <4> QED BY <1>4, <4>2, <4>8, <4>10, <4>11, <4>12
      <3> QED BY <3>1, <3>2, <3>3
    <2> QED BY <2>2, <2>3
  <1> QED BY <1>6, <1>7

\* A block that meets none of j blocks of n bytes that end at top lies below them.
LEMMA BelowTheRun ==
  ASSUME NEW top \in Nat, NEW n \in Nat, NEW j \in Nat, NEW a \in Nat, NEW b \in Nat \ {0},
         a + b <= top,
         \A i \in 1..j : Apart(a, b, top - i * n, n)
  PROVE  a + b <= top - j * n
  <1> DEFINE P == {i \in Nat : i <= j => a + b <= top - i * n}
  <1>1. 0 \in P
    OBVIOUS
  <1>2. ASSUME NEW i \in P PROVE i + 1 \in P
    <2>1. i \in Nat /\ i + 1 \in Nat
      BY <1>2
    <2>2. SUFFICES ASSUME i + 1 <= j PROVE a + b <= top - (i + 1) * n
      BY <2>1
    <2>3. i * n \in Nat /\ (i + 1) * n = i * n + n
      BY <2>1, Times
    <2>4. a + b <= top - i * n
      BY <1>2, <2>1, <2>2
    <2>5. Apart(a, b, top - (i + 1) * n, n)
      <3>1. i + 1 \in 1..j
        BY <2>1, <2>2
      <3> QED BY <3>1
    <2> DEFINE y == i * n
               z == (i + 1) * n
    <2>6. y \in Nat /\ z = y + n /\ a + b <= top - y /\ Apart(a, b, top - z, n)
      BY <2>3, <2>4, <2>5
    <2> HIDE DEF y, z
    <2>7. a + b <= top - z
      BY <2>6 DEF Apart
    <2> QED BY <2>7 DEF z
  <1>3. P = Nat
    <2> HIDE DEF P
    <2> QED BY <1>1, <1>2, NatSetInduction, P \in SUBSET Nat DEF P
  <1>4. j \in P
    <2> HIDE DEF P
    <2> QED BY <1>3
  <1> QED BY <1>4

\* The last j of k buckets are the top of the arena, newest topmost.
Topmost(s, k, j, top, n) == \A i \in 1..j : s[k - j + i] = top - (j - i + 1) * n

\* The j topmost buckets of an arena can be cut off: the rest is still owned below them.
LEMMA Unwound ==
  ASSUME NEW top \in Nat, NEW ix, NEW w \in Nat \ {0}, NEW s, NEW k \in Nat,
         NEW n \in Nat \ {0}, NEW O, NEW j \in 0..k,
         ArenaOwns(top, ix, w, s, k, n, O), Topmost(s, k, j, top, n)
  PROVE  /\ top - j * n \in Nat
         /\ ArenaOwns(top - j * n, ix, w, s, k - j, n, O)
  <1> DEFINE rest == k - j
  <1>0. j \in Nat /\ rest \in Nat /\ rest + j = k /\ rest <= k
    OBVIOUS
  <1>1. \A i \in 1..j : rest + i \in 1..k /\ s[rest + i] = top - (j - i + 1) * n
    BY DEF Topmost
  <1>2. \A i \in 1..j : /\ rest + (j - i + 1) \in 1..k
                        /\ s[rest + (j - i + 1)] = top - i * n
    <2> SUFFICES ASSUME NEW i \in 1..j
                 PROVE  /\ rest + (j - i + 1) \in 1..k
                        /\ s[rest + (j - i + 1)] = top - i * n
      OBVIOUS
    <2> DEFINE l == j - i + 1
    <2>1. l \in 1..j /\ j - l + 1 = i
      OBVIOUS
    <2> HIDE DEF l, rest
    <2>2. rest + l \in 1..k /\ s[rest + l] = top - (j - l + 1) * n
      BY <1>1, <2>1
    <2>3. (j - l + 1) * n = i * n
      BY <2>1, Zenon
    <2>4. s[rest + l] = top - i * n
      BY <2>2, <2>3, Zenon
    <2> QED BY <2>2, <2>4 DEF l
  <1> HIDE DEF rest
  <1>3. j * n \in Nat
    BY <1>0, Times
  <1>4. top - j * n \in Nat
    <2>1. CASE j = 0
      BY <2>1
    <2>2. CASE j # 0
      <3>1. j \in 1..j
        BY <1>0, <2>2
      <3>2. rest + (j - j + 1) \in 1..k /\ s[rest + (j - j + 1)] = top - j * n
        BY <1>2, <3>1
      <3> DEFINE q == rest + (j - j + 1)
      <3>3. q \in 1..k /\ s[q] = top - j * n
        BY <3>2
      <3> HIDE DEF q
      <3>4. s[q] \in Nat
        BY <3>3 DEF ArenaOwns
      <3> QED BY <3>3, <3>4
    <2> QED BY <2>1, <2>2
  <1>5. ASSUME NEW a \in Nat, NEW b \in Nat \ {0}, a + b <= top,
               \A i \in 1..k : i > rest => Apart(a, b, s[i], n)
        PROVE  a + b <= top - j * n
    <2>1. \A i \in 1..j : Apart(a, b, top - i * n, n)
      <3> SUFFICES ASSUME NEW i \in 1..j PROVE Apart(a, b, top - i * n, n)
        OBVIOUS
      <3> DEFINE q == rest + (j - i + 1)
      <3>1. q \in 1..k /\ s[q] = top - i * n
        BY <1>2
      <3>2. q > rest
        BY <1>0
      <3> HIDE DEF q
      <3>3. Apart(a, b, s[q], n)
        BY <1>5, <3>1, <3>2
      <3> QED BY <3>1, <3>3, Zenon
    <2> QED BY <1>0, <1>5, <2>1, BelowTheRun
  <1> DEFINE new == top - j * n
  <1>6. \A i \in 1..rest : s[i] \in Nat /\ s[i] + n <= new
    <2> SUFFICES ASSUME NEW i \in 1..rest PROVE s[i] \in Nat /\ s[i] + n <= new
      OBVIOUS
    <2>1. i \in 1..k /\ \A l \in 1..k : l > rest => i # l
      BY <1>0
    <2>2. s[i] \in Nat /\ s[i] + n <= top /\ \A l \in 1..k : l > rest => Apart(s[i], n, s[l], n)
      BY <2>1 DEF ArenaOwns
    <2> QED BY <1>5, <2>2
  <1>7. ix # NULL => ix \in Nat /\ ix + w <= new
    <2> HAVE ix # NULL
    <2>1. ix \in Nat /\ ix + w <= top /\ \A l \in 1..k : Apart(ix, w, s[l], n)
      BY DEF ArenaOwns
    <2> QED BY <1>5, <2>1
  <1>8. \A a \in O : a \in Nat /\ a + 8 <= new
    <2> SUFFICES ASSUME NEW a \in O PROVE a \in Nat /\ a + 8 <= new
      OBVIOUS
    <2>1. a \in Nat /\ a + 8 <= top /\ \A l \in 1..k : Apart(a, 8, s[l], n)
      BY DEF ArenaOwns
    <2>2. 8 \in Nat \ {0}
      OBVIOUS
    <2> QED BY <1>5, <2>1, <2>2
  <1>9. \A i \in 1..rest : i \in 1..k
    BY <1>0
  <1>10. /\ \A i, l \in 1..k : i # l => Apart(s[i], n, s[l], n)
         /\ ix # NULL => \A i \in 1..k : Apart(ix, w, s[i], n)
         /\ \A a \in O : /\ \A i \in 1..k : Apart(a, 8, s[i], n)
                         /\ ix # NULL => Apart(a, 8, ix, w)
         /\ \A a, b \in O : a # b => Apart(a, 8, b, 8)
    BY DEF ArenaOwns
  <1> HIDE DEF new
  <1>11. ArenaOwns(new, ix, w, s, rest, n, O)
    BY <1>6, <1>7, <1>8, <1>9, <1>10 DEF ArenaOwns
  <1> QED BY <1>4, <1>11 DEF new, rest

\* The buckets from keep on.
Spares(s, keep, k) == {s[i] : i \in (keep + 1)..k}

\* A host that takes the last j of k buckets back.
LEMMA HostReturns ==
  ASSUME NEW h, NEW ix, NEW s, NEW k \in Nat, NEW O, NEW r \in 0..k, HostOwns(h, ix, s, k, O)
  PROVE  HostOwns(h \ Spares(s, r, k), ix, s, r, O)
  <1>1. h = {s[i] : i \in 1..k} \cup ({ix} \ {NULL})
    BY DEF HostOwns
  <1>2. \A i, l \in 1..k : i # l => s[i] # s[l]
    BY DEF HostOwns
  <1>3. \A i \in 1..k : (i \in 1..r /\ ~(i \in (r + 1)..k)) \/ (i \in (r + 1)..k /\ ~(i \in 1..r))
    OBVIOUS
  <1>4. /\ \A i \in 1..r : i \in 1..k
        /\ \A i \in (r + 1)..k : i \in 1..k
    OBVIOUS
  <1>5. \A i \in 1..k : ix # NULL => ix # s[i]
    BY DEF HostOwns
  <1>6. h \ {s[i] : i \in (r + 1)..k} = {s[i] : i \in 1..r} \cup ({ix} \ {NULL})
    BY <1>1, <1>2, <1>3, <1>4, <1>5
  <1> QED BY <1>4, <1>6 DEF HostOwns, Spares

-----------------------------------------------------------------------------
(* Descriptors.                                                            *)

\* What the module reads off the descriptor of the moment.
LEMMA Reads == bucket_capacity = Cap(v) /\ bucket_bytes = Bytes(v)
  <1>1. bucket_capacity = Cap(v)
    BY Zenon DEF bucket_capacity, Cap, Pow
  <1>2. bucket_bytes = Bytes(v)
    BY <1>1, Zenon DEF bucket_bytes, Bytes
  <1> QED BY <1>1, <1>2

\* The buckets that hold elements.
Count(d) == IF d.tail # NULL THEN d.tail_index + 1 ELSE 0

\* e describes the elements d describes, with no less room for more.
Extends(e, d) ==
  /\ e.log2 = d.log2 /\ e.element_size = d.element_size /\ e.step = d.step
  /\ e.size = d.size /\ e.tail = d.tail
  /\ e.tail_index = d.tail_index /\ e.tail_used = d.tail_used
  /\ d.allocated_count <= e.allocated_count
  /\ \A i \in 1..d.allocated_count : e.slots[i] = d.slots[i]

\* The fields of a descriptor, and what its shape says of them.
LEMMA Fields ==
  ASSUME NEW d, Shape(d)
  PROVE  /\ d.index \in Address \cup {NULL} /\ d.slots \in Seq(Address \cup {NULL})
         /\ d.element_size \in Nat /\ d.bucket_capacity \in Nat /\ d.tail_index \in Nat
         /\ d.tail_used \in Nat /\ d.size \in Nat /\ d.log2 \in Nat /\ d.step \in Nat
         /\ d.tail \in Address \cup {NULL}
         /\ d.allocated_count \in Nat /\ d.allocated_count <= d.bucket_capacity
         /\ Len(d.slots) = d.bucket_capacity
         /\ d.bucket_capacity <= ARNM_BVEC_MAX_INDEX_CAPACITY
         /\ \A i \in 1..d.allocated_count : i \in 1..d.bucket_capacity /\ d.slots[i] \in Address
  <1>1. d \in Descriptors /\ Indexed(d)
    BY DEF Shape
  <1>2. /\ d.slots \in Seq(Address \cup {NULL}) /\ d.bucket_capacity \in Nat
        /\ d.allocated_count \in Nat /\ Len(d.slots) = d.bucket_capacity
        /\ d.allocated_count <= d.bucket_capacity
    BY <1>1 DEF Descriptors, Indexed
  <1>3. \A i \in 1..d.bucket_capacity : /\ d.slots[i] \in Address \cup {NULL}
                                        /\ d.slots[i] # NULL <=> i <= d.allocated_count
    BY <1>1, <1>2 DEF Indexed
  <1>4. \A i \in 1..d.allocated_count : i \in 1..d.bucket_capacity /\ d.slots[i] \in Address
    BY <1>2, <1>3
  <1> QED BY <1>1, <1>2, <1>4 DEF Descriptors, Indexed

\* The buckets in use are among those held.
LEMMA InUse ==
  ASSUME NEW d, Shape(d)
  PROVE  Count(d) \in 0..d.allocated_count
  <1>1. CASE Blank(d)
    BY <1>1, Fields DEF Blank, Count
  <1>2. CASE Sized(d) /\ Counted(d)
    <2>1. CASE d.size = 0
      BY <1>2, <2>1, Fields DEF Counted, Count
    <2>2. CASE d.size # 0
      <3>1. d.tail_index < d.allocated_count /\ d.tail_index \in Nat
        BY <1>2, <2>2, Fields DEF Counted
      <3> QED BY <3>1, Fields DEF Count
    <2> QED BY <2>1, <2>2
  <1> QED BY <1>1, <1>2 DEF Shape

\* The tail is a bucket exactly where there are elements.
LEMMA TailOpen ==
  ASSUME NEW d, Shape(d), Sized(d), NULL \notin Address
  PROVE  /\ Counted(d)
         /\ d.size = 0 <=> d.tail = NULL
         /\ d.size # 0 => Count(d) = d.tail_index + 1
         /\ d.size = 0 => Count(d) = 0
         /\ d.tail_used \in 1..Cap(d) /\ Cap(d) \in Nat \ {0, 1}
         /\ d.tail_used = Cap(d) => d.size = Count(d) * Cap(d)
  <1>1. Counted(d)
    BY Widths DEF Shape, Sized, Blank
  <1>2. Cap(d) \in Nat \ {0, 1}
    BY Sizes DEF Shape
  <1>3. CASE d.size = 0
    <2>1. d.tail = NULL /\ d.tail_used = Cap(d)
      BY <1>1, <1>3 DEF Counted
    <2> QED BY <1>1, <1>2, <1>3, <2>1 DEF Count
  <1>4. CASE d.size # 0
    <2>1. /\ d.tail_index < d.allocated_count /\ d.tail = d.slots[d.tail_index + 1]
          /\ d.tail_used \in 1..Cap(d) /\ d.size = d.tail_index * Cap(d) + d.tail_used
      BY <1>1, <1>4 DEF Counted
    <2>2. d.tail_index \in Nat /\ d.tail_index + 1 \in 1..d.allocated_count
      BY <2>1, Fields
    <2>3. d.tail # NULL
      BY <2>1, <2>2, Fields
    <2>4. Count(d) = d.tail_index + 1
      BY <2>3 DEF Count
    <2>5. (d.tail_index + 1) * Cap(d) = d.tail_index * Cap(d) + Cap(d)
      BY <1>2, <2>2, Times
    <2>6. d.tail_used = Cap(d) => d.size = Count(d) * Cap(d)
      BY <2>1, <2>4, <2>5
    <2> QED BY <1>1, <1>2, <1>4, <2>1, <2>3, <2>4, <2>6
  <1> QED BY <1>3, <1>4

\* The index moved to a larger array.
LEMMA IndexMoved ==
  ASSUME Shape(v), Sized(v), NEW at \in Address, NEW n \in Nat, v.bucket_capacity < n,
         n <= ARNM_BVEC_MAX_INDEX_CAPACITY
  PROVE  /\ Shape(with_index(at, n)) /\ Sized(with_index(at, n))
         /\ Extends(with_index(at, n), v)
         /\ with_index(at, n).index = at /\ with_index(at, n).bucket_capacity = n
         /\ with_index(at, n).allocated_count = v.allocated_count
  <1> DEFINE z == [i \in 1..n |-> IF i <= v.bucket_capacity THEN v.slots[i] ELSE NULL]
             e == with_index(at, n)
  <1>1. v \in Descriptors /\ Indexed(v) /\ Counted(v)
    BY Widths DEF Shape, Sized, Blank
  <1>2. /\ e.index = at /\ e.bucket_capacity = n /\ e.slots = z
        /\ e.element_size = v.element_size /\ e.tail_index = v.tail_index
        /\ e.tail_used = v.tail_used /\ e.tail = v.tail /\ e.size = v.size
        /\ e.log2 = v.log2 /\ e.step = v.step /\ e.allocated_count = v.allocated_count
    BY <1>1 DEF with_index, Descriptors
  <1>3. z \in Seq(Address \cup {NULL}) /\ Len(z) = n
    <2>1. \A i \in 1..v.bucket_capacity : v.slots[i] \in Address \cup {NULL}
      BY Fields
    <2>2. z \in [1..n -> Address \cup {NULL}]
      BY <2>1, Fields
    <2> HIDE DEF z
    <2> QED BY <2>2
  <1>4. e \in Descriptors
    <2>1. e = [v EXCEPT !.index = at, !.bucket_capacity = n, !.slots = z]
      BY DEF with_index
    <2> HIDE DEF e, z
    <2> QED BY <1>1, <1>3, <2>1 DEF Descriptors
  <1>5. \A i \in 1..n : z[i] # NULL <=> i <= v.allocated_count
    <2>1. \A i \in 1..v.bucket_capacity : v.slots[i] # NULL <=> i <= v.allocated_count
      BY <1>1 DEF Indexed
    <2> QED BY <2>1, Fields
  <1>6. \A i \in 1..v.allocated_count : z[i] = v.slots[i]
    BY Fields
  <1>7. NULL \notin Address
    BY BvecAssumption DEF Address
  <1> HIDE DEF e, z
  <1>8. Indexed(e)
    <2>1. Len(e.slots) = e.bucket_capacity /\ e.bucket_capacity <= ARNM_BVEC_MAX_INDEX_CAPACITY
      BY <1>2, <1>3
    <2>2. e.allocated_count <= e.bucket_capacity
      BY <1>2, Fields
    <2>3. e.index # NULL /\ e.bucket_capacity # 0
      BY <1>2, <1>7, Fields
    <2>4. \A i \in 1..e.bucket_capacity : e.slots[i] # NULL <=> i <= e.allocated_count
      BY <1>2, <1>5
    <2> QED BY <2>1, <2>2, <2>3, <2>4 DEF Indexed
  <1>9. Sized(e)
    BY <1>2 DEF Sized
  <1>10. Cap(e) = Cap(v)
    BY <1>2 DEF Cap
  <1>11. Counted(e)
    <2>1. CASE v.size = 0
      BY <1>1, <1>2, <1>10, <2>1 DEF Counted
    <2>2. CASE v.size # 0
      <3>1. v.tail_index + 1 \in 1..v.allocated_count
        BY <1>1, <2>2, Fields DEF Counted
      <3>2. e.slots[v.tail_index + 1] = v.slots[v.tail_index + 1]
        BY <1>2, <1>6, <3>1
      <3> QED BY <1>1, <1>2, <1>10, <2>2, <3>2 DEF Counted
    <2> QED BY <2>1, <2>2
  <1>12. Extends(e, v)
    BY <1>2, <1>6, Fields DEF Extends
  <1> QED BY <1>2, <1>4, <1>8, <1>9, <1>11, <1>12 DEF Shape, e

\* Buckets entered in free slots.
LEMMA BucketsEntered ==
  ASSUME NEW d, Shape(d), Sized(d), NEW at \in Seq(Address),
         d.allocated_count + Len(at) <= d.bucket_capacity
  PROVE  /\ Shape(with_buckets(d, at)) /\ Sized(with_buckets(d, at))
         /\ Extends(with_buckets(d, at), d)
         /\ with_buckets(d, at).index = d.index
         /\ with_buckets(d, at).bucket_capacity = d.bucket_capacity
         /\ with_buckets(d, at).allocated_count = d.allocated_count + Len(at)
         /\ \A i \in 1..Len(at) : with_buckets(d, at).slots[d.allocated_count + i] = at[i]
  <1> DEFINE k == d.allocated_count
             z == [i \in DOMAIN d.slots |-> IF i - k \in DOMAIN at THEN at[i - k] ELSE d.slots[i]]
             e == with_buckets(d, at)
  <1>1. d \in Descriptors /\ Indexed(d) /\ Counted(d)
    BY Widths DEF Shape, Sized, Blank
  <1>2. /\ e.index = d.index /\ e.bucket_capacity = d.bucket_capacity /\ e.slots = z
        /\ e.element_size = d.element_size /\ e.tail_index = d.tail_index
        /\ e.tail_used = d.tail_used /\ e.tail = d.tail /\ e.size = d.size
        /\ e.log2 = d.log2 /\ e.step = d.step /\ e.allocated_count = k + Len(at)
    BY <1>1 DEF with_buckets, Descriptors
  <1>3. /\ k \in Nat /\ d.bucket_capacity \in Nat /\ DOMAIN d.slots = 1..d.bucket_capacity
        /\ \A i \in 1..d.bucket_capacity : d.slots[i] \in Address \cup {NULL}
        /\ k <= d.bucket_capacity
    BY Fields
  <1>4. /\ DOMAIN at = 1..Len(at) /\ Len(at) \in Nat
        /\ \A i \in 1..Len(at) : at[i] \in Address
    OBVIOUS
  <1>5. z \in Seq(Address \cup {NULL}) /\ Len(z) = d.bucket_capacity
    <2>1. z \in [1..d.bucket_capacity -> Address \cup {NULL}]
      BY <1>3, <1>4
    <2> HIDE DEF z
    <2> QED BY <1>3, <2>1
  <1>6. e \in Descriptors
    <2>1. e = [d EXCEPT !.slots = z, !.allocated_count = k + Len(at)]
      BY DEF with_buckets
    <2>2. k + Len(at) \in Nat
      BY <1>3, <1>4
    <2> HIDE DEF e, z, k
    <2> QED BY <1>1, <1>5, <2>1, <2>2 DEF Descriptors
  <1>7. NULL \notin Address
    BY BvecAssumption DEF Address
  <1>8. \A i \in 1..k : z[i] = d.slots[i]
    BY <1>3, <1>4
  <1>9. \A i \in 1..Len(at) : z[k + i] = at[i]
    BY <1>3, <1>4
  <1>10. \A i \in 1..d.bucket_capacity : z[i] # NULL <=> i <= k + Len(at)
    <2>1. \A i \in 1..d.bucket_capacity : d.slots[i] # NULL <=> i <= k
      BY <1>1 DEF Indexed
    <2> SUFFICES ASSUME NEW i \in 1..d.bucket_capacity PROVE z[i] # NULL <=> i <= k + Len(at)
      OBVIOUS
    <2>2. CASE i - k \in 1..Len(at)
      <3>1. z[i] = at[i - k] /\ at[i - k] \in Address
        BY <1>3, <1>4, <2>2
      <3>2. i <= k + Len(at)
        BY <1>3, <1>4, <2>2
      <3> QED BY <1>7, <3>1, <3>2
    <2>3. CASE ~(i - k \in 1..Len(at))
      <3>1. z[i] = d.slots[i]
        BY <1>3, <1>4, <2>3
      <3>2. i <= k <=> i <= k + Len(at)
        BY <1>3, <1>4, <2>3
      <3> QED BY <2>1, <3>1, <3>2
    <2> QED BY <2>2, <2>3
  <1> HIDE DEF e, z
  <1>11. Indexed(e)
    BY <1>1, <1>2, <1>5, <1>10 DEF Indexed
  <1>12. Sized(e)
    BY <1>2 DEF Sized
  <1>13. Cap(e) = Cap(d)
    BY <1>2 DEF Cap
  <1>14. Counted(e)
    <2>1. CASE d.size = 0
      BY <1>1, <1>2, <1>13, <2>1 DEF Counted
    <2>2. CASE d.size # 0
      <3>1. d.tail_index + 1 \in 1..k /\ d.tail_index < k
        BY <1>1, <2>2, Fields DEF Counted
      <3>2. e.slots[d.tail_index + 1] = d.slots[d.tail_index + 1]
        BY <1>2, <1>8, <3>1
      <3>3. e.tail_index < e.allocated_count
        BY <1>2, <1>3, <1>4, <3>1, Fields
      <3> QED BY <1>1, <1>2, <1>13, <2>2, <3>2, <3>3 DEF Counted
    <2> QED BY <2>1, <2>2
  <1>15. Extends(e, d)
    BY <1>2, <1>3, <1>4, <1>8 DEF Extends
  <1> QED BY <1>2, <1>6, <1>9, <1>11, <1>12, <1>14, <1>15 DEF Shape, e

-----------------------------------------------------------------------------
(* A descriptor, its allocator and its cells together.                     *)

\* What two descriptors of the same sizes have in common.
LEMMA SameSizes ==
  ASSUME NEW d, NEW e, e.log2 = d.log2, e.element_size = d.element_size
  PROVE  Cap(e) = Cap(d) /\ Bytes(e) = Bytes(d) /\ Charge(e) = Charge(d)
  <1>1. Cap(e) = Cap(d)
    BY DEF Cap
  <1>2. Bytes(e) = Bytes(d)
    BY <1>1 DEF Bytes
  <1>3. Charge(e) = Charge(d)
    BY <1>2 DEF Charge
  <1> QED BY <1>1, <1>2, <1>3

\* No bucket is held twice.
LEMMA Distinct ==
  ASSUME NEW d, NEW m, NEW h, NEW O, NEW c, Good(d, m, h, O, c), Sized(d)
  PROVE  \A i, j \in 1..d.allocated_count : i # j => d.slots[i] # d.slots[j]
  <1> DEFINE n == Charge(d)
  <1>1. n \in Nat \ {0}
    BY Sizes DEF Good, Shape
  <1> HIDE DEF n
  <1>2. Owns(m, h, d.index, d.bucket_capacity, d.slots, d.allocated_count, n, O)
    BY DEF Good, n
  <1>3. CASE m.type = HOST
    BY <1>2, <1>3 DEF Owns, HostOwns
  <1>4. CASE m.type # HOST
    <2>1. \A i \in 1..d.allocated_count : d.slots[i] \in Nat
      BY <1>2, <1>4 DEF Owns, ArenaOwns
    <2>2. \A i, j \in 1..d.allocated_count : i # j => Apart(d.slots[i], n, d.slots[j], n)
      BY <1>2, <1>4 DEF Owns, ArenaOwns
    <2> QED BY <1>1, <2>1, <2>2 DEF Apart
  <1> QED BY <1>3, <1>4

\* What the cells hold is what an element may hold.
LEMMA CellsTyped ==
  ASSUME NEW d, NEW m, NEW h, NEW O, NEW c, Good(d, m, h, O, c),
         NEW i \in 1..d.allocated_count
  PROVE  /\ d.slots[i] \in DOMAIN c
         /\ c[d.slots[i]] \in [0..(Cap(d) - 1) -> Values]
         /\ \A j \in 0..(Cap(d) - 1) : c[d.slots[i]][j] \in Values
  <1>1. d.slots[i] \in Buckets(d)
    BY DEF Buckets
  <1>2. c \in [Buckets(d) -> [0..(Cap(d) - 1) -> Values]]
    BY DEF Good, CellsOK
  <1> DEFINE a == d.slots[i]
             R == 0..(Cap(d) - 1)
  <1>3. a \in DOMAIN c /\ c[a] \in [R -> Values]
    BY <1>1, <1>2
  <1> HIDE DEF a, R
  <1>4. \A j \in R : c[a][j] \in Values
    BY <1>3
  <1> QED BY <1>3, <1>4 DEF a, R

\* Buckets taken from the allocator and entered.
LEMMA BucketsTaken ==
  ASSUME NEW d, NEW m, NEW h, Good(d, m, h, others, cells), Sized(d),
         d.log2 = v.log2, d.element_size = v.element_size,
         NEW j \in Nat, d.allocated_count + j <= d.bucket_capacity,
         NEW o \in taken(m, h, bucket_bytes, j), NEW junk \in Values
  PROVE  LET e == with_buckets(d, o.at)
             f == fresh_cells(cells, o.at, junk)
         IN  /\ Good(e, o.memory, o.held, others, f) /\ Sized(e)
             /\ Len(o.at) = j /\ Extends(e, d)
             /\ e.index = d.index /\ e.bucket_capacity = d.bucket_capacity
             /\ e.allocated_count = d.allocated_count + j
             /\ \A i \in 1..d.allocated_count : f[d.slots[i]] = cells[d.slots[i]]
             /\ o.memory.type = m.type
  <1> DEFINE k == d.allocated_count
             b == Bytes(d)
             e == with_buckets(d, o.at)
             f == fresh_cells(cells, o.at, junk)
             D == Buckets(d)
             R == 0..(Cap(d) - 1)
  <1>0. Shape(d) /\ d \in Descriptors /\ MemoryOK(m) /\ CellsOK(d, cells)
    BY DEF Good, Shape
  <1>1. b \in Nat \ {0} /\ b <= ARNM_MAX_ALLOC_SIZE /\ Charge(d) = arnm_align8_u32(b)
    BY <1>0, Sizes DEF Charge
  <1>2. bucket_bytes = b /\ bucket_capacity = Cap(d)
    BY Reads, SameSizes
  <1>3. k \in Nat /\ d.bucket_capacity \in Nat
    BY <1>0, Fields
  <1>4. index_bytes(d.bucket_capacity) \in Nat
    BY <1>3 DEF index_bytes
  <1>5. Owns(m, h, d.index, d.bucket_capacity, d.slots, k, arnm_align8_u32(b), others)
    BY <1>1 DEF Good
  <1>6. o \in taken(m, h, b, j)
    BY <1>2, Zenon
  <1>7. /\ o.at \in Seq(Address) /\ Len(o.at) = j
        /\ MemoryOK(o.memory) /\ o.memory.type = m.type
    <2> HIDE DEF b
    <2> QED BY <1>0, <1>1, <1>6, Granted
  <1>8. k + Len(o.at) <= d.bucket_capacity
    BY <1>7
  <1>9. /\ Shape(e) /\ Sized(e) /\ Extends(e, d)
        /\ e.index = d.index /\ e.bucket_capacity = d.bucket_capacity
        /\ e.allocated_count = k + Len(o.at)
        /\ \A i \in 1..Len(o.at) : e.slots[k + i] = o.at[i]
    <2> HIDE DEF e
    <2> QED BY <1>0, <1>7, <1>8, BucketsEntered DEF e
  <1> HIDE DEF e
  <1>10. /\ \A i \in 1..k : e.slots[i] = d.slots[i]
         /\ \A i \in 1..j : e.slots[k + i] = o.at[i]
         /\ e.allocated_count = k + j
    BY <1>7, <1>9 DEF Extends
  <1>11. Owns(o.memory, o.held, d.index, d.bucket_capacity, e.slots, k + j,
              arnm_align8_u32(b), others)
    <2> DEFINE t == e.slots
               u == d.slots
               kk == k
               bb == b
    <2>1. GoesOn(t, u, kk, j, o.at)
      BY <1>10 DEF GoesOn
    <2>2. Owns(m, h, d.index, d.bucket_capacity, u, kk, arnm_align8_u32(bb), others)
      BY <1>5
    <2>3. kk \in Nat /\ bb \in Nat \ {0} /\ bb <= ARNM_MAX_ALLOC_SIZE /\ o \in taken(m, h, bb, j)
      BY <1>1, <1>3, <1>6
    <2> HIDE DEF t, u, kk, bb
    <2>4. Owns(o.memory, o.held, d.index, d.bucket_capacity, t, kk + j,
               arnm_align8_u32(bb), others)
      BY <1>0, <1>4, <2>1, <2>2, <2>3, Taken
    <2> QED BY <2>4 DEF t, kk, bb
  <1>12. Cap(e) = Cap(d) /\ Charge(e) = arnm_align8_u32(b)
    <2>1. e.log2 = d.log2 /\ e.element_size = d.element_size
      BY <1>9 DEF Extends
    <2> QED BY <1>1, <2>1, SameSizes
  <1>13. Owns(o.memory, o.held, e.index, e.bucket_capacity, e.slots, e.allocated_count,
              Charge(e), others)
    BY <1>9, <1>10, <1>11, <1>12, Zenon
  <1>14. Range(o.at) = {o.at[i] : i \in 1..j}
    BY <1>7 DEF Range
  <1>15. Buckets(e) = D \cup Range(o.at)
    <2>1. \A i \in 1..(k + j) : i \in 1..k \/ (i - k \in 1..j /\ k + (i - k) = i)
      BY <1>3
    <2>2. \A i \in 1..j : k + i \in 1..(k + j)
      BY <1>3
    <2>3. \A i \in 1..k : i \in 1..(k + j)
      BY <1>3
    <2>4. Buckets(e) = {e.slots[i] : i \in 1..(k + j)}
      BY <1>10 DEF Buckets
    <2>5. ASSUME NEW a \in Buckets(e) PROVE a \in D \cup Range(o.at)
      <3>1. PICK i \in 1..(k + j) : a = e.slots[i]
        BY <2>4
      <3>2. CASE i \in 1..k
        BY <1>10, <3>1, <3>2 DEF Buckets
      <3>3. CASE i - k \in 1..j /\ k + (i - k) = i
        <4> DEFINE l == i - k
        <4>1. l \in 1..j /\ k + l = i
          BY <3>3
        <4> HIDE DEF l
        <4>2. e.slots[k + l] = o.at[l]
          BY <1>10, <4>1
        <4>3. a = o.at[l]
          BY <3>1, <4>1, <4>2
        <4> QED BY <1>14, <4>1, <4>3
      <3> QED BY <2>1, <3>2, <3>3
    <2>6. ASSUME NEW a \in D PROVE a \in Buckets(e)
      <3>1. PICK i \in 1..k : a = d.slots[i]
        BY DEF Buckets
      <3>2. a = e.slots[i] /\ i \in 1..(k + j)
        BY <1>10, <2>3, <3>1
      <3> QED BY <2>4, <3>2
    <2>7. ASSUME NEW a \in Range(o.at) PROVE a \in Buckets(e)
      <3>1. PICK i \in 1..j : a = o.at[i]
        BY <1>14
      <3>2. a = e.slots[k + i] /\ k + i \in 1..(k + j)
        BY <1>10, <2>2, <3>1
      <3> QED BY <2>4, <3>2
    <2> QED BY <2>5, <2>6, <2>7
  <1>16. cells \in [D -> [R -> Values]]
    BY <1>0 DEF CellsOK
  <1>17. f = [a \in D \cup Range(o.at) |->
                IF a \in Range(o.at) THEN [i \in R |-> junk] ELSE cells[a]]
    <2>1. DOMAIN cells = D
      BY <1>16
    <2> QED BY <1>2, <2>1 DEF fresh_cells
  <1>18. CellsOK(e, f)
    <2>1. [i \in R |-> junk] \in [R -> Values]
      OBVIOUS
    <2> DEFINE T == [R -> Values]
               A == Range(o.at)
               w == [i \in R |-> junk]
    <2>2. w \in T /\ cells \in [D -> T] /\ f = [a \in D \cup A |-> IF a \in A THEN w ELSE cells[a]]
      BY <1>16, <1>17, <2>1
    <2>3. Buckets(e) = D \cup A
      BY <1>15
    <2> HIDE DEF T, A, w, D, f
    <2>4. f \in [Buckets(e) -> T]
      BY <2>2, <2>3
    <2> QED BY <1>12, <2>4 DEF CellsOK, T
  <1>19. Good(e, o.memory, o.held, others, f)
    BY <1>7, <1>9, <1>13, <1>18 DEF Good
  <1>20. ASSUME NEW i \in 1..k PROVE f[d.slots[i]] = cells[d.slots[i]]
    <2>1. d.slots[i] \notin Range(o.at)
      <3> SUFFICES ASSUME NEW l \in 1..j, o.at[l] = d.slots[i] PROVE FALSE
        BY <1>14
      <3>1. \A p, q \in 1..e.allocated_count : p # q => e.slots[p] # e.slots[q]
        <4> HIDE DEF f
        <4> QED BY <1>9, <1>19, Distinct
      <3>2. i \in 1..(k + j) /\ k + l \in 1..(k + j) /\ i # k + l
        BY <1>3
      <3> QED BY <1>10, <3>1, <3>2
    <2>2. d.slots[i] \in D
      BY DEF Buckets
    <2> QED BY <1>17, <2>1, <2>2
  <1> QED BY <1>7, <1>9, <1>10, <1>19, <1>20 DEF e

-----------------------------------------------------------------------------
(* Elements and where they are.                                            *)

Loc(d, i) == <<d.slots[(i \div Cap(d)) + 1], i % Cap(d)>>

Elem(d, c, i) == c[d.slots[(i \div Cap(d)) + 1]][i % Cap(d)]

Elements(d, c) == [i \in 1..d.size |-> Elem(d, c, i - 1)]

\* Division with remainder, and that it is the only one.
LEMMA Divides ==
  ASSUME NEW C \in Nat \ {0}, NEW i \in Nat
  PROVE  /\ i \div C \in Nat /\ i % C \in 0..(C - 1)
         /\ i = (i \div C) * C + (i % C)
  OBVIOUS

\* A bucket number and a place in the bucket are read back from the index they make.
LEMMA DividesOnce ==
  ASSUME NEW C \in Nat \ {0}, NEW q \in Nat, NEW r \in 0..(C - 1)
  PROVE  (q * C + r) \div C = q /\ (q * C + r) % C = r
  OBVIOUS

\* An element lies in a bucket in use.
LEMMA Where ==
  ASSUME NEW d, Shape(d), Sized(d), NEW i \in 0..(d.size - 1)
  PROVE  /\ (i \div Cap(d)) + 1 \in 1..Count(d)
         /\ (i \div Cap(d)) + 1 \in 1..d.allocated_count
         /\ i % Cap(d) \in 0..(Cap(d) - 1)
  <1> DEFINE C == Cap(d)
             q == i \div C
             r == i % C
             t == d.tail_index
  <1>0. NULL \notin Address
    BY BvecAssumption DEF Address
  <1>1. d.size \in Nat /\ i \in Nat /\ i < d.size /\ d.size # 0
    BY Fields
  <1>2. C \in Nat \ {0} /\ Count(d) = t + 1 /\ Counted(d)
    BY <1>0, <1>1, TailOpen
  <1>3. d.size = t * C + d.tail_used /\ d.tail_used \in 1..C /\ t \in Nat
    BY <1>1, <1>2, Fields DEF Counted
  <1>4. Count(d) \in 0..d.allocated_count /\ d.allocated_count \in Nat
    BY InUse, Fields
  <1> HIDE DEF C
  <1>5. q \in Nat /\ r \in 0..(C - 1) /\ i = q * C + r
    BY <1>1, <1>2, Divides
  <1> HIDE DEF q, r, t
  <1>6. q <= t
    <2> SUFFICES ASSUME t + 1 <= q PROVE FALSE
      BY <1>3, <1>5
    <2>1. (t + 1) * C <= q * C /\ (t + 1) * C = t * C + C /\ t * C \in Nat /\ q * C \in Nat
      BY <1>2, <1>3, <1>5, Times
    <2> DEFINE x == q * C
               y == t * C
    <2>2. y + C <= x /\ y \in Nat /\ x \in Nat /\ i = x + r /\ d.size = y + d.tail_used
      BY <1>3, <1>5, <2>1
    <2> HIDE DEF x, y
    <2> QED BY <1>1, <1>2, <1>3, <1>5, <2>2
  <1>7. q + 1 \in 1..Count(d) /\ q + 1 \in 1..d.allocated_count
    BY <1>2, <1>3, <1>4, <1>5, <1>6
  <1> QED BY <1>5, <1>7 DEF q, r, C

\* Two elements lie in two places.
LEMMA Places ==
  ASSUME NEW d, NEW m, NEW h, NEW O, NEW c, Good(d, m, h, O, c), Sized(d),
         NEW i \in 0..(d.size - 1), NEW j \in 0..(d.size - 1), Loc(d, i) = Loc(d, j)
  PROVE  i = j
  <1> DEFINE C == Cap(d)
             p == i \div C
             q == j \div C
  <1>0. Shape(d) /\ C \in Nat \ {0} /\ d.size \in Nat /\ i \in Nat /\ j \in Nat
    BY Sizes, Fields DEF Good, Shape
  <1>1. p + 1 \in 1..d.allocated_count /\ q + 1 \in 1..d.allocated_count
    BY <1>0, Where
  <1>2. d.slots[p + 1] = d.slots[q + 1] /\ i % C = j % C
    BY DEF Loc
  <1>3. p + 1 = q + 1
    BY <1>1, <1>2, Distinct
  <1> HIDE DEF C
  <1>4. /\ p \in Nat /\ i % C \in 0..(C - 1) /\ i = p * C + (i % C)
        /\ q \in Nat /\ j % C \in 0..(C - 1) /\ j = q * C + (j % C)
    BY <1>0, Divides
  <1> HIDE DEF p, q
  <1>5. p = q
    BY <1>3, <1>4
  <1>6. p * C + (i % C) = q * C + (j % C)
    BY <1>2, <1>5, Zenon
  <1> QED BY <1>4, <1>6

\* Every element of a good descriptor is a value; together they are a sequence of its size.
LEMMA ElementsTyped ==
  ASSUME NEW d, NEW m, NEW h, NEW O, NEW c, Good(d, m, h, O, c)
  PROVE  /\ \A i \in 0..(d.size - 1) : Elem(d, c, i) \in Values
         /\ Elements(d, c) \in Seq(Values)
         /\ Len(Elements(d, c)) = d.size
  <1>0. Shape(d) /\ d.size \in Nat
    BY Fields DEF Good
  <1>1. ASSUME NEW i \in 0..(d.size - 1) PROVE Elem(d, c, i) \in Values
    <2>1. Sized(d)
      <3>1. d.size # 0
        BY <1>0
      <3> QED BY <1>0, <3>1 DEF Shape, Blank
    <2> DEFINE q == (i \div Cap(d)) + 1
               r == i % Cap(d)
    <2>2. q \in 1..d.allocated_count /\ r \in 0..(Cap(d) - 1)
      BY <1>0, <2>1, Where
    <2> HIDE DEF q, r
    <2>3. c[d.slots[q]][r] \in Values
      BY <2>2, CellsTyped
    <2> QED BY <2>3 DEF Elem, q, r
  <1>2. \A i \in 1..d.size : Elem(d, c, i - 1) \in Values
    <2> SUFFICES ASSUME NEW i \in 1..d.size PROVE Elem(d, c, i - 1) \in Values
      OBVIOUS
    <2>1. i - 1 \in 0..(d.size - 1)
      BY <1>0
    <2> QED BY <1>1, <2>1
  <1>3. Elements(d, c) \in [1..d.size -> Values]
    BY <1>2 DEF Elements
  <1>4. Elements(d, c) \in Seq(Values) /\ Len(Elements(d, c)) = d.size
    BY <1>0, <1>3
  <1> QED BY <1>1, <1>4

\* e and f hold in the buckets in use what d and c hold, but for the places W.
Agrees(d, c, e, f, W) ==
  /\ e.log2 = d.log2
  /\ \A i \in 1..Count(d) :
       /\ e.slots[i] = d.slots[i]
       /\ \A j \in 0..(Cap(d) - 1) :
            <<d.slots[i], j>> \notin W => f[d.slots[i]][j] = c[d.slots[i]][j]

\* Where the buckets agree the elements do.
LEMMA Kept ==
  ASSUME NEW d, Shape(d), Sized(d), NEW c, NEW e, NEW f, NEW W, Agrees(d, c, e, f, W),
         NEW i \in 0..(d.size - 1)
  PROVE  /\ Loc(e, i) = Loc(d, i)
         /\ Loc(d, i) \notin W => Elem(e, f, i) = Elem(d, c, i)
  <1> DEFINE q == (i \div Cap(d)) + 1
             r == i % Cap(d)
  <1>1. q \in 1..Count(d) /\ r \in 0..(Cap(d) - 1)
    BY Where
  <1>2. Cap(e) = Cap(d)
    BY DEF Cap, Agrees
  <1>3. /\ Loc(e, i) = <<e.slots[q], r>> /\ Loc(d, i) = <<d.slots[q], r>>
        /\ Elem(e, f, i) = f[e.slots[q]][r] /\ Elem(d, c, i) = c[d.slots[q]][r]
    BY <1>2 DEF Loc, Elem
  <1> HIDE DEF q, r
  <1>4. /\ e.slots[q] = d.slots[q]
        /\ <<d.slots[q], r>> \notin W => f[d.slots[q]][r] = c[d.slots[q]][r]
    BY <1>1 DEF Agrees
  <1> QED BY <1>3, <1>4

\* The sequence after a step that keeps, adds or drops one element.
LEMMA SequenceKept ==
  ASSUME NEW d, NEW c, NEW e, NEW f, d.size \in Nat, e.size = d.size,
         \A i \in 0..(d.size - 1) : Elem(e, f, i) = Elem(d, c, i)
  PROVE  Elements(e, f) = Elements(d, c)
  <1>1. \A i \in 1..d.size : i - 1 \in 0..(d.size - 1)
    OBVIOUS
  <1>2. \A i \in 1..d.size : Elem(e, f, i - 1) = Elem(d, c, i - 1)
    BY <1>1
  <1> QED BY <1>2 DEF Elements

\* One element more and the others as they were: the sequence is appended to.
LEMMA SequenceGrown ==
  ASSUME NEW d, NEW c, NEW e, NEW f, d.size \in Nat, e.size = d.size + 1,
         Elements(d, c) \in Seq(Values), Len(Elements(d, c)) = d.size,
         Elements(e, f) \in Seq(Values), Len(Elements(e, f)) = e.size,
         \A i \in 0..(d.size - 1) : Elem(e, f, i) = Elem(d, c, i)
  PROVE  /\ Elem(e, f, d.size) \in Values
         /\ Elements(e, f) = Append(Elements(d, c), Elem(e, f, d.size))
  <1>1. \A i \in 1..d.size : i - 1 \in 0..(d.size - 1) /\ i \in 1..e.size
    OBVIOUS
  <1>2. \A i \in 1..d.size : Elements(e, f)[i] = Elements(d, c)[i]
    BY <1>1 DEF Elements
  <1>3. d.size + 1 \in 1..e.size /\ (d.size + 1) - 1 = d.size
    OBVIOUS
  <1>4. Elements(e, f)[d.size + 1] = Elem(e, f, d.size)
    BY <1>3 DEF Elements
  <1> DEFINE s == Elements(d, c)
             t == Elements(e, f)
             x == Elem(e, f, d.size)
             n == d.size
  <1>5. /\ s \in Seq(Values) /\ t \in Seq(Values) /\ Len(s) = n /\ Len(t) = n + 1 /\ n \in Nat
        /\ \A i \in 1..n : t[i] = s[i]
        /\ t[n + 1] = x
    BY <1>2, <1>4
  <1> HIDE DEF s, t, x, n
  <1>6. x \in Values
    BY <1>5
  <1>7. t = Append(s, x)
    BY <1>5, <1>6
  <1> QED BY <1>6, <1>7 DEF s, t, x, n

\* One element less and the others as they were: the sequence has lost its last one.
LEMMA SequenceCut ==
  ASSUME NEW d, NEW c, NEW e, NEW f, d.size \in Nat \ {0}, e.size = d.size - 1,
         Elements(d, c) \in Seq(Values), Len(Elements(d, c)) = d.size,
         Elements(e, f) \in Seq(Values), Len(Elements(e, f)) = e.size,
         \A i \in 0..(e.size - 1) : Elem(e, f, i) = Elem(d, c, i)
  PROVE  Elements(e, f) = SubSeq(Elements(d, c), 1, Len(Elements(d, c)) - 1)
  <1>1. \A i \in 1..e.size : i - 1 \in 0..(e.size - 1) /\ i \in 1..d.size
    OBVIOUS
  <1>2. \A i \in 1..e.size : Elements(e, f)[i] = Elements(d, c)[i]
    BY <1>1 DEF Elements
  <1> DEFINE s == Elements(d, c)
             t == Elements(e, f)
             n == d.size
  <1>5. /\ s \in Seq(Values) /\ t \in Seq(Values) /\ Len(s) = n /\ Len(t) = n - 1
        /\ n \in Nat \ {0}
        /\ \A i \in 1..(n - 1) : t[i] = s[i]
    BY <1>2
  <1> HIDE DEF s, t, n
  <1>7. t = SubSeq(s, 1, n - 1)
    BY <1>5
  <1> QED BY <1>5, <1>7 DEF s, t, n

\* The module's sequence is this one.
LEMMA ContentsAre == contents = Elements(v, cells)
  <1>1. bucket_capacity = Cap(v)
    BY Reads
  <1>2. \A i \in 1..v.size : cells[bucket_of(i - 1)][(i - 1) % bucket_capacity]
                               = Elem(v, cells, i - 1)
    BY <1>1 DEF bucket_of, Elem
  <1> QED BY <1>2 DEF contents, Elements

-----------------------------------------------------------------------------
(* What a step of the vector amounts to for its client.                    *)

\* An element that stays stays where it is.
Placed == \A i \in 0..(v.size - 1) : i < v'.size => Loc(v', i) = Loc(v, i)

\* The step is one of the sequence, or none.
Simulates == [Sequence!Next]_<<contents, out>>

Outcome == IInv' /\ Placed /\ Simulates

\* The refinement mapping, before and after a step, is the elements of the descriptor.
LEMMA ContentsBefore == contents = Elements(v, cells) /\ contents' = Elements(v', cells')
  <1>1. bucket_capacity' = Cap(v')
    BY Zenon DEF bucket_capacity, Cap, Pow
  <1>2. \A i \in 1..v'.size : cells'[bucket_of(i - 1)'][(i - 1) % bucket_capacity']
                               = Elem(v', cells', i - 1)
    BY <1>1 DEF bucket_of, Elem
  <1>3. contents' = Elements(v', cells')
    BY <1>2 DEF contents, Elements
  <1> QED BY <1>3, ContentsAre

\* What the invariant says of the elements of the vector, before a step.
LEMMA StateTyped ==
  ASSUME IInv
  PROVE  /\ Shape(v) /\ v.size \in Nat
         /\ \A i \in 0..(v.size - 1) : Elem(v, cells, i) \in Values
         /\ Elements(v, cells) \in Seq(Values)
         /\ Len(Elements(v, cells)) = v.size
  <1>1. Good(v, memory, held, others, cells)
    BY DEF IInv
  <1>2. Shape(v)
    BY <1>1 DEF Good
  <1> QED BY <1>1, <1>2, Fields, ElementsTyped

\* What the invariant says of the elements of the vector, after a step.
LEMMA StateTypedNext ==
  ASSUME IInv'
  PROVE  /\ Shape(v') /\ v'.size \in Nat
         /\ \A i \in 0..(v'.size - 1) : Elem(v', cells', i) \in Values
         /\ Elements(v', cells') \in Seq(Values)
         /\ Len(Elements(v', cells')) = v'.size
  <1>1. Good(v', memory', held', others', cells')
    BY DEF IInv
  <1>2. Shape(v')
    BY <1>1 DEF Good
  <1> QED BY <1>1, <1>2, Fields, ElementsTyped

\* A call that refuses, or looks.
LEMMA StepOfNothing ==
  ASSUME IInv, UNCHANGED <<memory, held, others, v, cells, out>>,
         result' \in Results \cup {OUT_OF_BOUNDS, TOO_SMALL}
  PROVE  Outcome
  <1>1. IInv'
    BY DEF IInv
  <1>2. Placed
    BY DEF Placed
  <1>3. contents' = contents
    BY ContentsBefore
  <1> QED BY <1>1, <1>2, <1>3 DEF Outcome, Simulates

\* A call that makes room, or lets it go.
LEMMA StepOfRoom ==
  ASSUME IInv, IInv', Sized(v), Agrees(v, cells, v', cells', {}), v'.size = v.size, out' = out
  PROVE  Outcome
  <1>1. Shape(v) /\ v.size \in Nat
    BY StateTyped
  <1>2. \A i \in 0..(v.size - 1) :
          Loc(v', i) = Loc(v, i) /\ Elem(v', cells', i) = Elem(v, cells, i)
    <2> SUFFICES ASSUME NEW i \in 0..(v.size - 1)
                 PROVE  Loc(v', i) = Loc(v, i) /\ Elem(v', cells', i) = Elem(v, cells, i)
      OBVIOUS
    <2>1. Loc(v, i) \notin {}
      OBVIOUS
    <2> QED BY <1>1, <2>1, Kept
  <1>3. Placed
    BY <1>2 DEF Placed
  <1>4. Elements(v', cells') = Elements(v, cells)
    BY <1>1, <1>2, SequenceKept
  <1>5. contents' = contents
    BY <1>4, ContentsBefore
  <1> QED BY <1>3, <1>5 DEF Outcome, Simulates

\* A call that adds an element, whatever is in it.
LEMMA StepOfGrowth ==
  ASSUME IInv, IInv', Sized(v), NEW W, Agrees(v, cells, v', cells', W),
         \A i \in 0..(v.size - 1) : Loc(v, i) \notin W,
         v'.size = v.size + 1, out' = out
  PROVE  Outcome
  <1>1. Shape(v) /\ v.size \in Nat
    BY StateTyped
  <1>2. \A i \in 0..(v.size - 1) :
          Loc(v', i) = Loc(v, i) /\ Elem(v', cells', i) = Elem(v, cells, i)
    BY <1>1, Kept
  <1>3. Placed
    BY <1>2 DEF Placed
  <1>4. /\ Elements(v, cells) \in Seq(Values) /\ Len(Elements(v, cells)) = v.size
        /\ Elements(v', cells') \in Seq(Values) /\ Len(Elements(v', cells')) = v'.size
    BY StateTyped, StateTypedNext
  <1>5. /\ Elem(v', cells', v.size) \in Values
        /\ Elements(v', cells') = Append(Elements(v, cells), Elem(v', cells', v.size))
    BY <1>1, <1>2, <1>4, SequenceGrown
  <1>6. \E x \in Values : contents' = Append(contents, x)
    BY <1>5, ContentsBefore
  <1>7. Sequence!Next
    BY <1>6 DEF Sequence!Next, Sequence!Push
  <1> QED BY <1>3, <1>7 DEF Outcome, Simulates

\* A call that drops the last element.
LEMMA StepOfPop ==
  ASSUME IInv, IInv', Sized(v), Agrees(v, cells, v', cells', {}),
         v.size # 0, v'.size = v.size - 1, out' = out
  PROVE  Outcome
  <1>1. Shape(v) /\ v.size \in Nat \ {0}
    BY StateTyped
  <1>2. \A i \in 0..(v.size - 1) :
          Loc(v', i) = Loc(v, i) /\ Elem(v', cells', i) = Elem(v, cells, i)
    <2> SUFFICES ASSUME NEW i \in 0..(v.size - 1)
                 PROVE  Loc(v', i) = Loc(v, i) /\ Elem(v', cells', i) = Elem(v, cells, i)
      OBVIOUS
    <2>1. Loc(v, i) \notin {}
      OBVIOUS
    <2> QED BY <1>1, <2>1, Kept
  <1>3. Placed
    BY <1>2 DEF Placed
  <1>4. /\ Elements(v, cells) \in Seq(Values) /\ Len(Elements(v, cells)) = v.size
        /\ Elements(v', cells') \in Seq(Values) /\ Len(Elements(v', cells')) = v'.size
    BY StateTyped, StateTypedNext
  <1>5. \A i \in 0..(v'.size - 1) : Elem(v', cells', i) = Elem(v, cells, i)
    <2>1. \A i \in 0..(v'.size - 1) : i \in 0..(v.size - 1)
      BY <1>1
    <2> QED BY <1>2, <2>1
  <1>6. Elements(v', cells')
          = SubSeq(Elements(v, cells), 1, Len(Elements(v, cells)) - 1)
    BY <1>1, <1>4, <1>5, SequenceCut
  <1>7. contents' = SubSeq(contents, 1, Len(contents) - 1)
    BY <1>6, ContentsBefore, Zenon
  <1>8. contents # << >>
    BY <1>1, <1>4, ContentsBefore
  <1>9. Sequence!Next
    BY <1>7, <1>8 DEF Sequence!Next, Sequence!Pop
  <1> QED BY <1>3, <1>9 DEF Outcome, Simulates

\* A call that leaves no element.
LEMMA StepOfEmpty ==
  ASSUME IInv', v'.size = 0, out' = out, v.size \in Nat
  PROVE  Outcome
  <1>1. Placed
    BY DEF Placed
  <1>2. Elements(v', cells') = << >>
    BY StateTypedNext
  <1>3. contents' = << >>
    BY <1>2, ContentsBefore
  <1>4. Sequence!Next
    BY <1>3 DEF Sequence!Next, Sequence!Clear
  <1> QED BY <1>1, <1>4 DEF Outcome, Simulates

\* f is c with x in place j of bucket a.
Written(d, c, f, a, j, x) ==
  /\ CellsOK(d, f)
  /\ f[a][j] = x
  /\ \A b \in Buckets(d), l \in 0..(Cap(d) - 1) :
       <<b, l>> # <<a, j>> => f[b][l] = c[b][l]

\* Writing a cell.
LEMMA Stored ==
  ASSUME NEW d, NEW c, CellsOK(d, c), NEW a \in Buckets(d), NEW j \in 0..(Cap(d) - 1),
         NEW x \in Values, NEW f, f = [c EXCEPT ![a][j] = x]
  PROVE  Written(d, c, f, a, j, x)
  <1> DEFINE R == 0..(Cap(d) - 1)
             D == Buckets(d)
  <1>1. c \in [D -> [R -> Values]]
    BY DEF CellsOK
  <1>2. a \in D /\ j \in R
    OBVIOUS
  <1> HIDE DEF R, D
  <1>3. f = [c EXCEPT ![a] = [c[a] EXCEPT ![j] = x]]
    OBVIOUS
  <1>4. [c[a] EXCEPT ![j] = x] \in [R -> Values]
    BY <1>1, <1>2
  <1>5. f \in [D -> [R -> Values]] /\ f[a][j] = x
    BY <1>1, <1>2, <1>3, <1>4
  <1>6. \A b \in D, l \in R : b # a \/ l # j => f[b][l] = c[b][l]
    BY <1>1, <1>2
  <1>7. \A b \in D, l \in R : <<b, l>> # <<a, j>> => f[b][l] = c[b][l]
    BY <1>6
  <1> QED BY <1>5, <1>7 DEF CellsOK, D, R, Written

-----------------------------------------------------------------------------
(* The calls that take nothing and give nothing back.                      *)

\* The result codes of the calls, told apart.
LEMMA ResultsDiffer ==
  /\ {SUCCESS, NOT_RECLAIMED, INVALID_PARAM, INVALID_STATE, OVERFLOW, OUT_OF_MEMORY} \subseteq Results
  /\ SUCCESS # OUT_OF_MEMORY /\ SUCCESS # NOT_RECLAIMED /\ NOT_RECLAIMED # OUT_OF_MEMORY
  BY DEF Results, SUCCESS, NOT_RECLAIMED, INVALID_PARAM, INVALID_STATE, OVERFLOW,
         OUT_OF_MEMORY

\* A call that is refused moves nothing and loses nothing.
LEMMA RefuseStep ==
  ASSUME IInv, NEW r \in Results \cup {OUT_OF_BOUNDS, TOO_SMALL}, Refuse(r)
  PROVE  Outcome
  BY StepOfNothing DEF Refuse

\* An initialised vector is sized, and its state is valid.
LEMMA Initialised ==
  ASSUME IInv
  PROVE  /\ v.element_size # 0 <=> Sized(v)
         /\ is_state_valid => Sized(v)
         /\ v.size # 0 => Sized(v)
         /\ v.index # NULL => Sized(v)
         /\ v.tail # NULL => Sized(v)
         /\ bucket_count_allocated = v.allocated_count
         /\ arnm_bvec_bucket_count = Count(v)
  <1>1. Shape(v) /\ Indexed(v)
    BY DEF IInv, Good, Shape
  <1>2. v.element_size # 0 <=> Sized(v)
    BY <1>1, Widths DEF Shape, Blank, Sized
  <1>3. v.index = NULL => v.allocated_count = 0
    BY <1>1, Fields DEF Indexed
  <1> QED BY <1>1, <1>2, <1>3 DEF Shape, Blank, is_state_valid, bucket_count_allocated,
             arnm_bvec_bucket_count, Count

\* Where there is no block the sizes do not matter.
LEMMA OwnsNone ==
  ASSUME NEW m, NEW h, NEW c, NEW s, NEW n, NEW O, NEW b, NEW t, NEW p,
         Owns(m, h, NULL, c, s, 0, n, O)
  PROVE  Owns(m, h, NULL, b, t, 0, p, O)
  <1>1. CASE m.type = HOST
    <2>1. HostOwns(h, NULL, s, 0, O)
      BY <1>1 DEF Owns
    <2>2. {s[i] : i \in 1..0} = {t[i] : i \in 1..0}
      OBVIOUS
    <2>3. HostOwns(h, NULL, t, 0, O)
      BY <2>1, <2>2 DEF HostOwns
    <2> QED BY <1>1, <2>3 DEF Owns
  <1>2. CASE m.type # HOST
    <2>1. ArenaOwns(m.last_index, NULL, index_bytes(c), s, 0, n, O)
      BY <1>2 DEF Owns
    <2>2. \A i \in 1..0 : FALSE
      OBVIOUS
    <2>3. ArenaOwns(m.last_index, NULL, index_bytes(b), t, 0, p, O)
      BY <2>1, <2>2 DEF ArenaOwns
    <2> QED BY <1>2, <2>3 DEF Owns
  <1> QED BY <1>1, <1>2

\* A descriptor as init and free leave it.
LEMMA FreshDescriptor ==
  ASSUME NEW e, NEW z \in Nat, NEW l \in Nat, NEW g \in Nat,
         e = [ZeroedDescriptor EXCEPT !.element_size = z, !.log2 = l,
                                      !.tail_used = Pow(l), !.step = g],
         z \in 1..UINT16_MAX, l \in 1..MAX_BUCKET_LOG2, g \in 1..UINT16_MAX
  PROVE  /\ Shape(e) /\ e.size = 0 /\ e.index = NULL /\ e.allocated_count = 0
         /\ e.bucket_capacity = 0
  <1>1. /\ e.index = NULL /\ e.slots = << >> /\ e.element_size = z /\ e.bucket_capacity = 0
        /\ e.tail_index = 0 /\ e.tail_used = Pow(l) /\ e.tail = NULL /\ e.size = 0
        /\ e.log2 = l /\ e.step = g /\ e.allocated_count = 0
    BY DEF ZeroedDescriptor
  <1>2. Pow(l) \in Nat
    <2>1. MAX_BUCKET_LOG2 \in 1..15
      BY BvecAssumption
    <2>2. l \in 0..32
      BY <2>1
    <2> QED BY <2>2, PowersGrow
  <1>3. e \in Descriptors
    <2>1. << >> \in Seq(Address \cup {NULL})
      OBVIOUS
    <2>2. /\ e = [ZeroedDescriptor EXCEPT !.element_size = z, !.log2 = l,
                                          !.tail_used = Pow(l), !.step = g]
          /\ ZeroedDescriptor \in Descriptors
      BY <2>1 DEF ZeroedDescriptor, Descriptors
    <2> HIDE DEF ZeroedDescriptor
    <2> QED BY <1>2, <2>2 DEF Descriptors
  <1>4. Indexed(e)
    BY <1>1, Widths DEF Indexed
  <1>5. Sized(e) /\ Cap(e) = Pow(l)
    BY <1>1 DEF Sized, Cap
  <1>6. Counted(e)
    BY <1>1, <1>5 DEF Counted
  <1> QED BY <1>1, <1>3, <1>4, <1>5, <1>6 DEF Shape

\* arnm_bvec_init: a blank descriptor that is sized, over the same memory.
LEMMA InitStep ==
  ASSUME IInv, NEW l \in Log2s, NEW g \in Steps, NEW b \in ElementSizes,
         arnm_bvec_init(l, g, b)
  PROVE  Outcome
  <1>0. l \in Nat /\ b \in Nat /\ g \in 0..UINT16_MAX /\ v.index = NULL
    BY BvecAssumption DEF arnm_bvec_init
  <1>1. CASE Refuse(INVALID_PARAM)
    BY <1>1, RefuseStep, ResultsDiffer
  <1>2. CASE ~Refuse(INVALID_PARAM)
    <2> DEFINE st == IF g = 0 THEN DEFAULT_INDEX_GROW_STEP_SIZE ELSE g
    <2>1. /\ b # 0 /\ l # 0 /\ l <= MAX_BUCKET_LOG2 /\ b <= UINT16_MAX
          /\ v' = [ZeroedDescriptor EXCEPT !.element_size = b, !.log2 = l,
                                           !.tail_used = 2^l, !.step = st]
          /\ result' = SUCCESS
          /\ UNCHANGED <<memory, held, others, cells, out>>
      BY <1>2 DEF arnm_bvec_init
    <2>2. st \in 1..UINT16_MAX /\ st \in Nat
      BY <1>0, BvecAssumption, Widths
    <2>3. b \in 1..UINT16_MAX /\ l \in 1..MAX_BUCKET_LOG2
      BY <1>0, <2>1, BvecAssumption, Widths
    <2> HIDE DEF st
    <2>4. v' = [ZeroedDescriptor EXCEPT !.element_size = b, !.log2 = l,
                                        !.tail_used = Pow(l), !.step = st]
      BY <2>1, Zenon DEF Pow
    <2>5. /\ Shape(v') /\ v'.size = 0 /\ v'.index = NULL /\ v'.allocated_count = 0
          /\ v'.bucket_capacity = 0
      BY <1>0, <2>2, <2>3, <2>4, FreshDescriptor
    <2>6. /\ Shape(v) /\ MemoryOK(memory) /\ CellsOK(v, cells) /\ Indexed(v)
          /\ Owns(memory, held, v.index, v.bucket_capacity, v.slots, v.allocated_count,
                  Charge(v), others)
          /\ out \in Seq(Values)
      BY DEF IInv, Good, Shape
    <2>7. v.allocated_count = 0 /\ v.size \in Nat
      BY <1>0, <2>6, Fields DEF Indexed
    <2>8. Owns(memory, held, NULL, v.bucket_capacity, v.slots, 0, Charge(v), others)
      BY <1>0, <2>6, <2>7, Zenon
    <2>9. Owns(memory, held, NULL, v'.bucket_capacity, v'.slots, 0, Charge(v'), others)
      BY <2>8, OwnsNone
    <2>10. Owns(memory', held', v'.index, v'.bucket_capacity, v'.slots, v'.allocated_count,
                Charge(v'), others')
      BY <2>1, <2>5, <2>9, Zenon
    <2>11. CellsOK(v', cells')
      <3>1. Buckets(v) = {} /\ Buckets(v') = {}
        BY <2>5, <2>7 DEF Buckets
      <3>2. cells \in [{} -> [0..(Cap(v) - 1) -> Values]]
        BY <2>6, <3>1, Zenon DEF CellsOK
      <3>3. cells \in [{} -> [0..(Cap(v') - 1) -> Values]]
        BY <3>2
      <3> QED BY <2>1, <3>1, <3>3, Zenon DEF CellsOK
    <2>12. IInv'
      BY <2>1, <2>5, <2>6, <2>10, <2>11, ResultsDiffer DEF IInv, Good
    <2> QED BY <2>1, <2>5, <2>7, <2>12, StepOfEmpty
  <1> QED BY <1>1, <1>2

\* A write through an element pointer replaces that element and no other.
LEMMA WriteStep ==
  ASSUME IInv, NEW i \in 0..(v.size - 1), NEW x \in Values, write_element(i, x)
  PROVE  Outcome
  <1> DEFINE q == (i \div Cap(v)) + 1
             r == i % Cap(v)
             a == v.slots[q]
             f == [cells EXCEPT ![a][r] = x]
  <1>0. /\ Good(v, memory, held, others, cells) /\ out \in Seq(Values)
        /\ Shape(v) /\ CellsOK(v, cells) /\ v.size \in Nat
    BY StateTyped DEF IInv, Good
  <1>1. Sized(v)
    <2>1. v.size # 0
      BY <1>0
    <2> QED BY <2>1, Initialised
  <1>2. /\ cells' = f /\ UNCHANGED <<memory, held, others, v, out, result>>
    <2>1. cells' = [cells EXCEPT ![bucket_of(i)][i % bucket_capacity] = x]
      BY DEF write_element
    <2>2. bucket_of(i) = a /\ i % bucket_capacity = r
      BY Reads DEF bucket_of
    <2>3. cells' = f
      BY <2>1, <2>2, Zenon
    <2> QED BY <2>3 DEF write_element
  <1>3. q \in 1..Count(v) /\ q \in 1..v.allocated_count /\ r \in 0..(Cap(v) - 1)
    BY <1>0, <1>1, Where
  <1>4. Loc(v, i) = <<a, r>> /\ Elem(v', cells', i) = cells'[a][r]
    BY <1>2 DEF Loc, Elem
  <1> HIDE DEF q, r
  <1>5. a \in Buckets(v)
    BY <1>3 DEF Buckets
  <1> HIDE DEF a
  <1>16. f = [cells EXCEPT ![a][r] = x]
    OBVIOUS
  <1> HIDE DEF f
  <1>6. /\ CellsOK(v, f) /\ f[a][r] = x
        /\ \A b \in Buckets(v), l \in 0..(Cap(v) - 1) :
              <<b, l>> # <<a, r>> => f[b][l] = cells[b][l]
    <2>1. r \in 0..(Cap(v) - 1)
      BY <1>3
    <2>2. Written(v, cells, f, a, r, x)
      BY <1>0, <1>5, <1>16, <2>1, Stored
    <2> QED BY <2>2 DEF Written
  <1>7. Good(v', memory', held', others', cells')
    BY <1>0, <1>2, <1>6 DEF Good
  <1>8. IInv'
    BY <1>2, <1>7 DEF IInv
  <1>9. Agrees(v, cells, v', cells', {Loc(v, i)})
    <2>1. \A p \in 1..Count(v) : v.slots[p] \in Buckets(v)
      <3>1. Count(v) \in 0..v.allocated_count /\ v.allocated_count \in Nat
        BY <1>0, InUse, Fields
      <3>2. \A p \in 1..Count(v) : p \in 1..v.allocated_count
        BY <3>1
      <3> QED BY <3>2 DEF Buckets
    <2> QED BY <1>2, <1>4, <1>6, <2>1 DEF Agrees
  <1>10. \A j \in 0..(v.size - 1) :
           /\ Loc(v', j) = Loc(v, j)
           /\ j # i => Elem(v', cells', j) = Elem(v, cells, j)
    <2> SUFFICES ASSUME NEW j \in 0..(v.size - 1)
                 PROVE  /\ Loc(v', j) = Loc(v, j)
                        /\ j # i => Elem(v', cells', j) = Elem(v, cells, j)
      OBVIOUS
    <2>1. j # i => Loc(v, j) # Loc(v, i)
      BY <1>0, <1>1, Places
    <2>2. j # i => Loc(v, j) \notin {Loc(v, i)}
      BY <2>1
    <2> QED BY <1>0, <1>1, <1>9, <2>2, Kept
  <1>11. Placed
    BY <1>10 DEF Placed
  <1>12. Elem(v', cells', i) = x
    BY <1>2, <1>4, <1>6
  <1>13. Elements(v', cells') = [Elements(v, cells) EXCEPT ![i + 1] = x]
    <2>1. v'.size = v.size
      BY <1>2
    <2> DEFINE s == Elements(v, cells)
               t == Elements(v', cells')
    <2>2. DOMAIN s = 1..v.size /\ t = [p \in 1..v.size |-> Elem(v', cells', p - 1)]
      BY <2>1 DEF Elements
    <2>3. \A p \in 1..v.size : /\ p - 1 \in 0..(v.size - 1)
                               /\ s[p] = Elem(v, cells, p - 1)
                               /\ (p = i + 1 <=> p - 1 = i)
      BY <1>0 DEF Elements
    <2>4. \A p \in 1..v.size : Elem(v', cells', p - 1) = IF p = i + 1 THEN x ELSE s[p]
      BY <1>10, <1>12, <2>3
    <2>5. s = [p \in 1..v.size |-> s[p]]
      BY <2>2 DEF Elements
    <2> HIDE DEF s
    <2>6. [s EXCEPT ![i + 1] = x] = [p \in 1..v.size |-> IF p = i + 1 THEN x ELSE s[p]]
      BY <2>2
    <2>7. t = [s EXCEPT ![i + 1] = x]
      BY <2>2, <2>4, <2>6
    <2> QED BY <2>7 DEF s
  <1>14. contents' = [contents EXCEPT ![i + 1] = x] /\ i + 1 \in 1..Len(contents)
    <2>1. Len(Elements(v, cells)) = v.size
      BY StateTyped
    <2>2. Len(contents) = v.size
      BY <2>1, ContentsBefore
    <2>3. i + 1 \in 1..Len(contents)
      BY <1>0, <2>2
    <2>4. contents' = [contents EXCEPT ![i + 1] = x]
      BY <1>13, ContentsBefore
    <2> QED BY <2>3, <2>4
  <1>15. Sequence!Next
    BY <1>2, <1>14 DEF Sequence!Next, Sequence!Update
  <1> QED BY <1>8, <1>11, <1>15 DEF Outcome, Simulates

\* The blocks depend on no field but these.
LEMMA GoodKept ==
  ASSUME NEW d, NEW e, NEW m, NEW h, NEW O, NEW c, Good(d, m, h, O, c), Shape(e),
         e.index = d.index, e.slots = d.slots, e.bucket_capacity = d.bucket_capacity,
         e.allocated_count = d.allocated_count, e.log2 = d.log2,
         e.element_size = d.element_size
  PROVE  Good(e, m, h, O, c)
  <1>1. Charge(e) = Charge(d) /\ Cap(e) = Cap(d)
    BY SameSizes
  <1>2. Buckets(e) = Buckets(d)
    BY DEF Buckets
  <1>3. CellsOK(e, c)
    BY <1>1, <1>2 DEF Good, CellsOK
  <1>4. Owns(m, h, e.index, e.bucket_capacity, e.slots, e.allocated_count, Charge(e), O)
    BY <1>1, Zenon DEF Good
  <1> QED BY <1>3, <1>4 DEF Good

\* A descriptor that has lost its last element.
LEMMA Popped ==
  ASSUME Shape(v), Sized(v), v.size # 0
  PROVE  /\ Shape(popped) /\ popped.size = v.size - 1
         /\ popped.index = v.index /\ popped.slots = v.slots
         /\ popped.bucket_capacity = v.bucket_capacity
         /\ popped.allocated_count = v.allocated_count
         /\ popped.log2 = v.log2 /\ popped.element_size = v.element_size
  <1> DEFINE e == popped
             C == Cap(v)
             t == v.tail_index
             u == v.tail_used
  <1>1. /\ v \in Descriptors /\ Indexed(v) /\ Counted(v) /\ bucket_capacity = C
        /\ C \in Nat \ {0, 1} /\ NULL \notin Address
    BY Reads, Sizes, TailOpen, BvecAssumption DEF Shape, Blank, Address
  <1>2. /\ t \in Nat /\ u \in 1..C /\ v.size = t * C + u /\ t < v.allocated_count
        /\ v.size \in Nat /\ v.allocated_count \in Nat
    BY <1>1, Fields DEF Counted
  <1>3. t * C \in Nat
    BY <1>1, <1>2, Times
  <1>4. CASE u > 1
    <2>1. e = [v EXCEPT !.size = v.size - 1, !.tail_used = u - 1]
      BY <1>4 DEF popped
    <2>2. /\ e.size = v.size - 1 /\ e.tail_used = u - 1 /\ e.tail_index = t
          /\ e.tail = v.tail /\ e.index = v.index /\ e.slots = v.slots
          /\ e.bucket_capacity = v.bucket_capacity /\ e.allocated_count = v.allocated_count
          /\ e.log2 = v.log2 /\ e.element_size = v.element_size /\ e.step = v.step
      BY <1>1, <2>1 DEF Descriptors
    <2> DEFINE p == v.size - 1
               q == u - 1
    <2>3. /\ p \in Nat \ {0} /\ q \in Nat /\ q \in 1..C
          /\ p = t * C + q
      <3> DEFINE y == t * C
      <3>1. y \in Nat /\ v.size = y + u
        BY <1>2, <1>3
      <3> HIDE DEF y
      <3>2. p \in Nat \ {0} /\ q \in Nat /\ q \in 1..C /\ p = y + q
        BY <1>1, <1>2, <1>4, <3>1
      <3> QED BY <3>2 DEF y
    <2>4. e = [v EXCEPT !.size = p, !.tail_used = q]
      BY <2>1
    <2>5. e.size = p /\ e.tail_used = q
      BY <2>2
    <2> HIDE DEF e, p, q
    <2>6. e \in Descriptors
      BY <1>1, <2>3, <2>4 DEF Descriptors
    <2>7. Indexed(e) /\ Sized(e) /\ Cap(e) = C
      BY <1>1, <2>2 DEF Indexed, Sized, Cap
    <2>8. v.tail = v.slots[t + 1]
      BY <1>1 DEF Counted
    <2>9. Counted(e)
      BY <1>2, <2>2, <2>3, <2>5, <2>7, <2>8 DEF Counted
    <2>10. Shape(e)
      BY <2>6, <2>7, <2>9 DEF Shape
    <2> QED BY <2>2, <2>10 DEF e
  <1>5. CASE u = 1
    <2> DEFINE i == IF v.size > 1 THEN t - 1 ELSE 0
               a == IF v.size > 1 THEN v.slots[t] ELSE NULL
               p == v.size - 1
    <2>1. e = [v EXCEPT !.size = p, !.tail_used = C, !.tail_index = i, !.tail = a]
      BY <1>1, <1>5 DEF popped
    <2>2. /\ e.size = p /\ e.tail_used = C /\ e.tail_index = i
          /\ e.tail = a /\ e.index = v.index /\ e.slots = v.slots
          /\ e.bucket_capacity = v.bucket_capacity /\ e.allocated_count = v.allocated_count
          /\ e.log2 = v.log2 /\ e.element_size = v.element_size /\ e.step = v.step
      BY <1>1, <2>1 DEF Descriptors
    <2>3. p \in Nat /\ p = t * C /\ (v.size > 1 <=> p # 0)
      BY <1>2, <1>3, <1>5
    <2>4. CASE t = 0
      <3>1. p = 0 /\ i = 0 /\ a = NULL
        <4>1. 0 * C = 0
          BY <1>1
        <4>2. t * C = 0
          BY <2>4, <4>1, Zenon
        <4>3. p = 0
          BY <2>3, <4>2
        <4>4. ~(v.size > 1)
          BY <2>3, <4>3
        <4> QED BY <4>3, <4>4
      <3> HIDE DEF e, p, i, a
      <3>2. e \in Descriptors
        BY <1>1, <2>1, <3>1 DEF Descriptors
      <3>3. Indexed(e) /\ Sized(e) /\ Cap(e) = C
        BY <1>1, <2>2 DEF Indexed, Sized, Cap
      <3>4. Counted(e)
        BY <2>2, <3>1, <3>3 DEF Counted
      <3>5. Shape(e)
        BY <3>2, <3>3, <3>4 DEF Shape
      <3> QED BY <2>2, <3>5 DEF e, p
    <2>5. CASE t # 0
      <3> DEFINE j == t - 1
      <3>1. j \in Nat /\ j + 1 = t /\ (j + 1) * C = j * C + C /\ j * C \in Nat
        BY <1>1, <1>2, <2>5, Times
      <3>2. p # 0 /\ p = j * C + C
        <4>1. t * C = j * C + C
          BY <3>1, Zenon
        <4> DEFINE y == j * C
        <4>2. p = y + C /\ y \in Nat
          BY <2>3, <3>1, <4>1
        <4> HIDE DEF y, p
        <4>3. p # 0
          BY <1>1, <4>2
        <4> QED BY <4>2, <4>3 DEF y
      <3>3. i = j /\ a = v.slots[t]
        BY <2>3, <3>2
      <3>4. a \in Address
        <4>1. t \in 1..v.allocated_count
          BY <1>2, <2>5
        <4> QED BY <3>3, <4>1, Fields
      <3> HIDE DEF e, p, i, a, j
      <3>5. e \in Descriptors
        BY <1>1, <2>1, <2>3, <3>1, <3>3, <3>4 DEF Descriptors
      <3>6. Indexed(e) /\ Sized(e) /\ Cap(e) = C
        BY <1>1, <2>2 DEF Indexed, Sized, Cap
      <3>7. Counted(e)
        <4>1. e.tail_index < e.allocated_count
          BY <1>2, <2>2, <3>1, <3>3
        <4>2. e.tail = e.slots[e.tail_index + 1]
          BY <2>2, <3>1, <3>3
        <4>3. e.tail_used \in 1..Cap(e)
          BY <1>1, <2>2, <3>6
        <4>4. e.size = e.tail_index * Cap(e) + e.tail_used /\ e.size # 0
          BY <2>2, <3>2, <3>3, <3>6
        <4> QED BY <4>1, <4>2, <4>3, <4>4 DEF Counted
      <3>8. Shape(e)
        BY <3>5, <3>6, <3>7 DEF Shape
      <3> QED BY <2>2, <3>8 DEF e, p
    <2> QED BY <2>4, <2>5
  <1> QED BY <1>2, <1>4, <1>5

\* arnm_bvec_pop.
LEMMA PopStep ==
  ASSUME IInv, arnm_bvec_pop
  PROVE  Outcome
  <1>1. CASE Refuse(OUT_OF_BOUNDS)
    BY <1>1, RefuseStep
  <1>2. CASE ~Refuse(OUT_OF_BOUNDS)
    <2>1. /\ v.size # 0 /\ v' = popped /\ result' = SUCCESS
          /\ UNCHANGED <<memory, held, others, cells, out>>
      BY <1>2 DEF arnm_bvec_pop
    <2>2. Good(v, memory, held, others, cells) /\ Shape(v) /\ Sized(v) /\ out \in Seq(Values)
      BY <2>1, Initialised, StateTyped DEF IInv
    <2> DEFINE e == popped
    <2>3. /\ Shape(e) /\ e.size = v.size - 1 /\ e.index = v.index /\ e.slots = v.slots
          /\ e.bucket_capacity = v.bucket_capacity /\ e.allocated_count = v.allocated_count
          /\ e.log2 = v.log2 /\ e.element_size = v.element_size
      BY <2>1, <2>2, Popped
    <2>4. v' = e
      BY <2>1
    <2> HIDE DEF e
    <2>5. Good(e, memory, held, others, cells)
      BY <2>2, <2>3, GoodKept
    <2>6. IInv'
      BY <2>1, <2>2, <2>4, <2>5, ResultsDiffer DEF IInv
    <2>7. Agrees(v, cells, v', cells', {})
      BY <2>1, <2>3, <2>4 DEF Agrees
    <2>8. v'.size = v.size - 1
      BY <2>3, <2>4
    <2> QED BY <2>1, <2>2, <2>6, <2>7, <2>8, StepOfPop
  <1> QED BY <1>1, <1>2

\* arnm_bvec_clear, of a vector that was initialised and of one that was not.
LEMMA ClearStep ==
  ASSUME IInv, arnm_bvec_clear
  PROVE  Outcome
  <1> DEFINE e == [v EXCEPT !.tail = NULL, !.tail_index = 0, !.tail_used = Cap(v), !.size = 0]
  <1>1. v' = e /\ UNCHANGED <<memory, held, others, cells, out, result>>
    BY Reads DEF arnm_bvec_clear
  <1>2. /\ Good(v, memory, held, others, cells) /\ Shape(v) /\ v \in Descriptors /\ Indexed(v)
        /\ v.size \in Nat
    BY StateTyped DEF IInv, Shape
  <1>3. /\ e.size = 0 /\ e.tail_used = Cap(v) /\ e.tail_index = 0 /\ e.tail = NULL
        /\ e.index = v.index /\ e.slots = v.slots
        /\ e.bucket_capacity = v.bucket_capacity /\ e.allocated_count = v.allocated_count
        /\ e.log2 = v.log2 /\ e.element_size = v.element_size /\ e.step = v.step
    BY <1>2 DEF Descriptors
  <1>4. Cap(v) \in Nat /\ (Blank(v) => Cap(v) = 1)
    <2>1. CASE Blank(v)
      BY <2>1, PowerStep DEF Blank, Cap
    <2>2. CASE Sized(v)
      BY <1>2, <2>2, Sizes, PowerStep DEF Blank, Sized
    <2> QED BY <1>2, <2>1, <2>2 DEF Shape
  <1> DEFINE C == Cap(v)
  <1>5. e = [v EXCEPT !.tail = NULL, !.tail_index = 0, !.tail_used = C, !.size = 0]
    OBVIOUS
  <1> HIDE DEF e
  <1>6. e \in Descriptors
    <2>1. C \in Nat
      BY <1>4
    <2> HIDE DEF C
    <2> QED BY <1>2, <1>5, <2>1 DEF Descriptors
  <1>7. Indexed(e) /\ Cap(e) = C
    BY <1>2, <1>3 DEF Indexed, Cap
  <1>8. Shape(e)
    <2>1. CASE Blank(v)
      <3>1. Blank(e)
        BY <1>3, <1>4, <2>1 DEF Blank
      <3> QED BY <1>6, <1>7, <3>1 DEF Shape
    <2>2. CASE Sized(v)
      <3>1. Sized(e) /\ Counted(e)
        BY <1>3, <1>7, <2>2 DEF Sized, Counted
      <3> QED BY <1>6, <1>7, <3>1 DEF Shape
    <2> QED BY <1>2, <2>1, <2>2 DEF Shape
  <1>9. Good(e, memory, held, others, cells)
    BY <1>2, <1>3, <1>8, GoodKept
  <1>10. IInv'
    BY <1>1, <1>9 DEF IInv
  <1>11. v'.size = 0 /\ out' = out
    BY <1>1, <1>3
  <1> QED BY <1>2, <1>10, <1>11, StepOfEmpty

-----------------------------------------------------------------------------
(* The neighbour.                                                          *)

\* A step that leaves the vector and its cells alone.
LEMMA StepAside ==
  ASSUME IInv', UNCHANGED <<v, cells, out>>
  PROVE  Outcome
  <1>1. Placed
    BY DEF Placed
  <1>2. contents' = contents
    BY ContentsBefore
  <1> QED BY <1>1, <1>2 DEF Outcome, Simulates

\* Its blocks are taken from the end of the arena, and given back there.
LEMMA NeighbourTakes ==
  ASSUME NEW top \in Nat, NEW ix, NEW w \in Nat, NEW s, NEW k \in Nat, NEW n \in Nat, NEW O,
         ArenaOwns(top, ix, w, s, k, n, O)
  PROVE  ArenaOwns(top + 8, ix, w, s, k, n, O \cup {top})
  <1>1. \A i \in 1..k : s[i] \in Nat /\ s[i] + n <= top + 8 /\ Apart(top, 8, s[i], n)
    BY DEF ArenaOwns, Apart
  <1>2. ix # NULL => ix \in Nat /\ ix + w <= top + 8 /\ Apart(top, 8, ix, w)
    BY DEF ArenaOwns, Apart
  <1>3. \A a \in O : /\ a \in Nat /\ a + 8 <= top + 8
                     /\ Apart(a, 8, top, 8) /\ Apart(top, 8, a, 8)
    BY DEF ArenaOwns, Apart
  <1>4. /\ \A i, j \in 1..k : i # j => Apart(s[i], n, s[j], n)
        /\ ix # NULL => \A i \in 1..k : Apart(ix, w, s[i], n)
        /\ \A a \in O : /\ \A i \in 1..k : Apart(a, 8, s[i], n)
                        /\ ix # NULL => Apart(a, 8, ix, w)
        /\ \A a, b \in O : a # b => Apart(a, 8, b, 8)
    BY DEF ArenaOwns
  <1> QED BY <1>1, <1>2, <1>3, <1>4 DEF ArenaOwns

\* The caller's own block on top of the arena goes back without touching the vector's.
LEMMA NeighbourReturns ==
  ASSUME NEW top \in Nat, NEW at \in Nat, top - 8 = at,
         NEW ix, NEW w \in Nat \ {0}, NEW s, NEW k \in Nat, NEW n \in Nat, NEW O, at \in O,
         k # 0 => n # 0, ArenaOwns(top, ix, w, s, k, n, O)
  PROVE  ArenaOwns(at, ix, w, s, k, n, O \ {at})
  <1>1. \A i \in 1..k : s[i] \in Nat /\ s[i] + n <= at
    <2> SUFFICES ASSUME NEW i \in 1..k PROVE s[i] \in Nat /\ s[i] + n <= at
      OBVIOUS
    <2>1. /\ s[i] \in Nat /\ s[i] + n <= top /\ Apart(at, 8, s[i], n) /\ n # 0
      BY DEF ArenaOwns
    <2> QED BY <2>1 DEF Apart
  <1>2. ix # NULL => ix \in Nat /\ ix + w <= at
    BY DEF ArenaOwns, Apart
  <1>3. \A a \in O \ {at} : a \in Nat /\ a + 8 <= at
    <2> SUFFICES ASSUME NEW a \in O \ {at} PROVE a \in Nat /\ a + 8 <= at
      OBVIOUS
    <2>1. /\ a \in Nat /\ a + 8 <= top /\ Apart(at, 8, a, 8)
      BY DEF ArenaOwns
    <2> QED BY <2>1 DEF Apart
  <1>4. /\ \A i, j \in 1..k : i # j => Apart(s[i], n, s[j], n)
        /\ ix # NULL => \A i \in 1..k : Apart(ix, w, s[i], n)
        /\ \A a \in O \ {at} : /\ \A i \in 1..k : Apart(a, 8, s[i], n)
                               /\ ix # NULL => Apart(a, 8, ix, w)
        /\ \A a, b \in O \ {at} : a # b => Apart(a, 8, b, 8)
    BY DEF ArenaOwns
  <1> QED BY <1>1, <1>2, <1>3, <1>4 DEF ArenaOwns

\* How wide an index array is, and the buckets where there are some.
LEMMA WidthsHeld ==
  ASSUME NEW d, Shape(d)
  PROVE  /\ index_bytes(d.bucket_capacity) \in Nat
         /\ d.index # NULL => index_bytes(d.bucket_capacity) \in Nat \ {0}
         /\ Charge(d) \in Nat
         /\ d.allocated_count # 0 => Sized(d) /\ Charge(d) # 0
  <1>1. /\ d \in Descriptors /\ d.bucket_capacity \in Nat /\ d.allocated_count \in Nat
        /\ d.index = NULL <=> d.bucket_capacity = 0
        /\ d.allocated_count <= d.bucket_capacity
    BY Fields DEF Shape, Indexed
  <1>2. index_bytes(d.bucket_capacity) = 8 * d.bucket_capacity
    BY <1>1 DEF index_bytes
  <1>3. CASE Sized(d)
    BY <1>1, <1>2, <1>3, Sizes
  <1>4. CASE Blank(d)
    <2>1. d.allocated_count = 0
      BY <1>1, <1>4 DEF Blank
    <2>2. Bytes(d) = 0
      BY <1>4, PowerStep DEF Blank, Bytes, Cap
    <2>3. Charge(d) = 0
      BY <2>2, Widths DEF Charge, arnm_align8_u32
    <2> QED BY <1>1, <1>2, <2>1, <2>3
  <1> QED BY <1>3, <1>4 DEF Shape

\* The caller's own allocations and releases leave the vector's blocks alone.
LEMMA NeighbourStep ==
  ASSUME IInv, neighbour
  PROVE  Outcome
  <1> DEFINE ix == v.index
             w == index_bytes(v.bucket_capacity)
             s == v.slots
             k == v.allocated_count
             n == Charge(v)
             top == memory.last_index
  <1>1. /\ Shape(v) /\ MemoryOK(memory) /\ CellsOK(v, cells) /\ out \in Seq(Values)
        /\ Owns(memory, held, v.index, v.bucket_capacity, s, k, n, others)
    BY DEF IInv, Good
  <1>2. memory.type # HOST /\ UNCHANGED <<held, v, cells, out, result>>
    BY DEF neighbour, behind_arena
  <1>3. ArenaOwns(top, ix, w, s, k, n, others)
    BY <1>1, <1>2 DEF Owns
  <1>4. w \in Nat /\ (ix # NULL => w \in Nat \ {0}) /\ n \in Nat /\ (k # 0 => n # 0) /\ k \in Nat
    BY <1>1, WidthsHeld, Fields
  <1>5. memory \in Memories /\ top \in Nat /\ memory.capacity \in Nat /\ top <= memory.capacity
    BY <1>1 DEF MemoryOK, Memories
  <1> HIDE DEF w, s, k, n, top
  <1>6. ASSUME NEW x \in Int, NEW y \in Nat, y = top + x, y <= memory.capacity,
               memory' = bump(memory, x),
               ArenaOwns(y, ix, w, s, k, n, others')
        PROVE  Outcome
    <2>0. memory.last_index + x \in Nat
      BY <1>6 DEF top
    <2>1. /\ memory' \in Memories /\ memory'.last_index = y
          /\ memory'.capacity = memory.capacity /\ memory'.type = memory.type
          /\ memory'.data = memory.data
      BY <1>5, <1>6, <2>0, Bumped DEF top
    <2>2. MemoryOK(memory')
      BY <1>1, <1>6, <2>1 DEF MemoryOK
    <2>3. ArenaOwns(memory'.last_index, v.index, index_bytes(v.bucket_capacity), v.slots,
                    v.allocated_count, Charge(v), others')
      BY <1>6, <2>1, Zenon DEF w, s, k, n
    <2>4. Owns(memory', held, v.index, v.bucket_capacity, v.slots, v.allocated_count,
               Charge(v), others')
      BY <1>2, <2>1, <2>3, Zenon DEF Owns
    <2>5. Good(v, memory', held, others', cells)
      BY <1>1, <2>2, <2>4, Zenon DEF Good
    <2>6. IInv'
      BY <1>2, <2>5 DEF IInv
    <2> QED BY <1>2, <2>6, StepAside
  <1>7. CASE /\ remaining_bytes(memory) >= 8
             /\ others' = others \cup {memory.last_index} /\ memory' = bump(memory, 8)
    <2>1. top + 8 \in Nat /\ top + 8 <= memory.capacity
      BY <1>5, <1>7 DEF remaining_bytes, top
    <2>2. ArenaOwns(top + 8, ix, w, s, k, n, others \cup {top})
      BY <1>3, <1>4, <1>5, NeighbourTakes
    <2>3. others' = others \cup {top} /\ memory' = bump(memory, 8)
      BY <1>7 DEF top
    <2> DEFINE y == top + 8
    <2>4. ArenaOwns(y, ix, w, s, k, n, others')
      BY <2>2, <2>3, Zenon
    <2>5. y \in Nat /\ y = top + 8 /\ y <= memory.capacity
      BY <2>1
    <2> HIDE DEF y
    <2> QED BY <1>6, <2>3, <2>4, <2>5
  <1>8. ASSUME NEW at \in others, at_tail(memory, at, 8),
               others' = others \ {at}, memory' = bump(memory, -8)
        PROVE  Outcome
    <2>1. arnm_align8_u32(8) = 8
      BY WidthAssumption DEF arnm_align8_u32, ARNM_MAX_ALLOC_SIZE
    <2>2. top - 8 = at
      BY <1>1, <1>2, <1>8, <2>1, TailIs DEF top
    <2>3. at \in Nat
      BY <1>3, <1>8 DEF ArenaOwns
    <2>4. top + (-8) = at /\ at <= memory.capacity
      BY <1>5, <2>2, <2>3
    <2>5. ArenaOwns(at, ix, w, s, k, n, others \ {at})
      <3>1. CASE ix # NULL
        BY <1>3, <1>4, <1>5, <1>8, <2>2, <2>3, <3>1, NeighbourReturns
      <3>2. CASE ix = NULL
        <4>1. ArenaOwns(top, ix, 8, s, k, n, others)
          BY <1>3, <3>2 DEF ArenaOwns
        <4>2. ArenaOwns(at, ix, 8, s, k, n, others \ {at})
          BY <1>4, <1>5, <1>8, <2>2, <2>3, <4>1, NeighbourReturns
        <4> QED BY <3>2, <4>2 DEF ArenaOwns
      <3> QED BY <3>1, <3>2
    <2>6. ArenaOwns(at, ix, w, s, k, n, others') /\ memory' = bump(memory, -8)
      BY <1>8, <2>5, Zenon
    <2>7. at = top + (-8) /\ -8 \in Int
      BY <2>4
    <2> DEFINE x == -8
    <2>8. x \in Int /\ at = top + x /\ memory' = bump(memory, x)
      BY <2>6, <2>7
    <2> HIDE DEF x
    <2> QED BY <1>6, <2>3, <2>4, <2>6, <2>8
  <1>9. CASE \E at \in others : /\ at_tail(memory, at, 8)
                                /\ others' = others \ {at} /\ memory' = bump(memory, -8)
    <2>1. PICK at \in others : /\ at_tail(memory, at, 8)
                               /\ others' = others \ {at} /\ memory' = bump(memory, -8)
      BY <1>9
    <2> QED BY <1>8, <2>1
  <1> QED BY <1>7, <1>9 DEF neighbour

-----------------------------------------------------------------------------
(* Copying the elements out.                                               *)

\* The buckets in use, each as far as it is filled, make up the elements.
LEMMA Copied ==
  ASSUME IInv, v.size # 0
  PROVE  flattened = Elements(v, cells)
  <1> DEFINE C == Cap(v)
             K == Count(v)
             t == v.tail_index
             z(k) == IF k = K THEN v.tail_used ELSE C
             y(k) == IF k = K THEN v.size ELSE k * C
             B(k) == [i \in 1..z(k) |-> cells[v.slots[k]][i - 1]]
             G(k) == [p \in 1..y(k) |-> Elem(v, cells, p - 1)]
             S == [k \in 1..K |-> B(k)]
             g == [k \in 1..K |-> G(k)]
  <1>1. /\ Good(v, memory, held, others, cells) /\ Shape(v) /\ Sized(v) /\ v.size \in Nat
        /\ NULL \notin Address /\ arnm_bvec_bucket_count = K /\ bucket_capacity = C
        /\ \A p \in 0..(v.size - 1) : Elem(v, cells, p) \in Values
    BY StateTyped, Initialised, BvecAssumption, Reads DEF IInv, Address
  <1>2. /\ C \in Nat \ {0} /\ t \in Nat /\ K = t + 1 /\ v.tail_used \in 1..C
        /\ v.size = t * C + v.tail_used
        /\ v.allocated_count \in Nat /\ K <= v.allocated_count
    BY <1>1, TailOpen, Fields, InUse DEF Counted
  <1>3. flattened = FlattenSeq(S)
    <2>1. \A k \in 1..K : arnm_bvec_bucket_size(k - 1) = z(k)
      BY <1>1, <1>2 DEF arnm_bvec_bucket_size
    <2>2. [k \in 1..K |-> [i \in 1..arnm_bvec_bucket_size(k - 1) |-> cells[v.slots[k]][i - 1]]] = S
      BY <2>1
    <2> HIDE DEF S
    <2> QED BY <1>1, <2>2, Zenon DEF flattened
  <1>4. ASSUME NEW k \in 1..K
        PROVE  /\ z(k) \in 1..C /\ y(k) \in Nat /\ (k - 1) * C \in Nat
               /\ y(k) = (k - 1) * C + z(k) /\ y(k) <= v.size
    <2>1. /\ k \in Nat /\ k - 1 \in Nat /\ k - 1 <= t /\ ((k - 1) + 1 = k)
      BY <1>2
    <2>2. /\ (k - 1) * C \in Nat /\ t * C \in Nat
          /\ ((k - 1) + 1) * C = (k - 1) * C + C
      BY <1>2, <2>1, Times
    <2>3. CASE k = K
      <3>1. z(k) = v.tail_used /\ y(k) = v.size /\ k - 1 = t
        BY <1>2, <2>3
      <3> QED BY <1>1, <1>2, <2>2, <3>1
    <2>4. CASE k # K
      <3>1. z(k) = C /\ y(k) = k * C /\ k <= t
        BY <1>2, <2>1, <2>4
      <3>2. k * C \in Nat /\ k * C <= t * C
        BY <1>2, <2>1, <3>1, Times
      <3>3. k * C = (k - 1) * C + C
        BY <2>1, <2>2, Zenon
      <3> DEFINE a == k * C
                 b == t * C
                 c == (k - 1) * C
      <3>4. /\ a \in Nat /\ b \in Nat /\ c \in Nat /\ a <= b /\ a = c + C /\ v.size = b + v.tail_used
            /\ y(k) = a
        BY <1>2, <2>2, <3>1, <3>2, <3>3
      <3> HIDE DEF a, b, c, y, z
      <3>5. z(k) \in 1..C /\ y(k) \in Nat /\ c \in Nat /\ y(k) = c + z(k) /\ y(k) <= v.size
        BY <1>1, <1>2, <3>1, <3>4
      <3> QED BY <3>5 DEF c
    <2> QED BY <2>3, <2>4
  <1>5. ASSUME NEW k \in 1..K, NEW i \in 1..z(k)
        PROVE  /\ (k - 1) * C + i \in 1..y(k)
               /\ G(k)[(k - 1) * C + i] = B(k)[i]
    <2> DEFINE q == k - 1
               r == i - 1
               b == q * C
               p == b + i
    <2>1. q \in Nat /\ r \in 0..(C - 1) /\ b \in Nat /\ q + 1 = k
      BY <1>2, <1>4
    <2>2. (b + r) \div C = q /\ (b + r) % C = r
      BY <1>2, <2>1, DividesOnce
    <2>3. y(k) = b + z(k) /\ y(k) \in Nat /\ z(k) \in Nat
      BY <1>4
    <2> HIDE DEF b
    <2>4. p \in 1..y(k) /\ p - 1 = b + r
      BY <2>1, <2>3
    <2>5. Elem(v, cells, b + r) = cells[v.slots[k]][r]
      BY <2>1, <2>2 DEF Elem
    <2>6. G(k)[p] = cells[v.slots[k]][r]
      BY <2>4, <2>5
    <2> QED BY <2>4, <2>6 DEF b
  <1>6. ASSUME NEW k \in 1..K
        PROVE  /\ B(k) \in Seq(Values) /\ Len(B(k)) = z(k)
               /\ G(k) \in Seq(Values) /\ Len(G(k)) = y(k)
    <2>1. \A i \in 1..z(k) : cells[v.slots[k]][i - 1] \in Values
      <3>1. k \in 1..v.allocated_count
        BY <1>2
      <3>2. cells[v.slots[k]] \in [0..(C - 1) -> Values]
        BY <1>1, <3>1, CellsTyped
      <3>3. \A i \in 1..z(k) : i - 1 \in 0..(C - 1)
        BY <1>2, <1>4
      <3> QED BY <3>2, <3>3
    <2>2. \A p \in 1..y(k) : Elem(v, cells, p - 1) \in Values
      <3>1. \A p \in 1..y(k) : p - 1 \in 0..(v.size - 1)
        BY <1>1, <1>4
      <3> QED BY <1>1, <3>1
    <2>3. z(k) \in Nat /\ y(k) \in Nat
      BY <1>2, <1>4
    <2> HIDE DEF z, y
    <2>4. B(k) \in [1..z(k) -> Values] /\ G(k) \in [1..y(k) -> Values]
      BY <2>1, <2>2
    <2> HIDE DEF B, G
    <2>5. B(k) \in Seq(Values) /\ Len(B(k)) = z(k)
      BY <2>3, <2>4
    <2>6. G(k) \in Seq(Values) /\ Len(G(k)) = y(k)
      BY <2>3, <2>4
    <2> QED BY <2>5, <2>6
  <1>7. IsJoin(g, S, K)
    <2> SUFFICES ASSUME NEW k \in 1..K
                 PROVE  g[k] = IF k = 1 THEN S[1] ELSE g[k - 1] \o S[k]
      BY DEF IsJoin
    <2>0. g[k] = G(k) /\ S[k] = B(k)
      OBVIOUS
    <2>1. CASE k = 1
      <3>0. k - 1 = 0 /\ 0 * C = 0
        BY <1>2, <2>1
      <3>1. (k - 1) * C = 0
        BY <3>0, Zenon
      <3>2. y(k) = z(k) /\ z(k) \in Nat
        BY <1>2, <1>4, <3>1
      <3>3. \A i \in 1..z(k) : 0 + i = i /\ G(k)[0 + i] = B(k)[i]
        <4>1. \A i \in 1..z(k) : G(k)[(k - 1) * C + i] = B(k)[i]
          BY <1>5
        <4> HIDE DEF G, B, z
        <4>2. \A i \in 1..z(k) : G(k)[0 + i] = B(k)[i]
          BY <3>1, <4>1, Zenon
        <4> QED BY <3>2, <4>2
      <3>4. G(k) \in Seq(Values) /\ B(k) \in Seq(Values) /\ Len(G(k)) = z(k) /\ Len(B(k)) = z(k)
        BY <1>6, <3>2
      <3> HIDE DEF G, B, z
      <3>5. \A i \in 1..z(k) : G(k)[i] = B(k)[i]
        BY <3>3, Zenon
      <3>6. G(k) = B(k)
        BY <3>2, <3>4, <3>5
      <3>7. S[1] = B(k)
        BY <2>0, <2>1, Zenon
      <3> QED BY <2>0, <2>1, <3>6, <3>7, Zenon
    <2>2. CASE k # 1
      <3> DEFINE l == k - 1
                 b == (k - 1) * C
      <3>0. l \in 1..K /\ l # K
        BY <1>2, <2>2
      <3>1. l \in 1..K /\ l # K /\ g[l] = G(l)
        <4> HIDE DEF l, G
        <4> QED BY <3>0
      <3>2. y(l) = b /\ b \in Nat
        BY <1>4, <3>1
      <3>3. \A i \in 1..z(k) : G(k)[b + i] = B(k)[i]
        BY <1>5
      <3>4. y(k) = b + z(k) /\ z(k) \in Nat /\ y(k) \in Nat
        BY <1>2, <1>4
      <3>5. \A i \in 1..b : G(k)[i] = G(l)[i]
        <4>1. \A i \in 1..b : i \in 1..y(k) /\ i \in 1..y(l)
          BY <3>2, <3>4
        <4> QED BY <4>1
      <3>6. /\ G(k) \in Seq(Values) /\ G(l) \in Seq(Values) /\ B(k) \in Seq(Values)
            /\ Len(G(k)) = b + z(k) /\ Len(G(l)) = b /\ Len(B(k)) = z(k)
        BY <1>6, <3>1, <3>2, <3>4
      <3> DEFINE gk == G(k)
                 gl == G(l)
                 bk == B(k)
                 zk == z(k)
      <3>7. /\ gk \in Seq(Values) /\ gl \in Seq(Values) /\ bk \in Seq(Values)
            /\ Len(gk) = Len(gl) + Len(bk)
            /\ \A i \in 1..Len(gl) : gk[i] = gl[i]
            /\ \A i \in 1..Len(bk) : gk[Len(gl) + i] = bk[i]
        <4>1. Len(gk) = b + zk /\ Len(gl) = b /\ Len(bk) = zk
          BY <3>6
        <4> HIDE DEF gk, gl, bk, zk
        <4>2. Len(gk) = Len(gl) + Len(bk)
          BY <4>1, Zenon
        <4>3. /\ \A i \in 1..Len(gl) : gk[i] = gl[i]
              /\ \A i \in 1..Len(bk) : gk[Len(gl) + i] = bk[i]
          BY <3>3, <3>5, <4>1, Zenon DEF gk, gl, bk, zk
        <4> QED BY <3>6, <4>2, <4>3 DEF gk, gl, bk
      <3>8. gk = gl \o bk
        <4> HIDE DEF gk, gl, bk
        <4> QED BY <3>7, Joined
      <3>9. g[k] = gk /\ S[k] = bk /\ g[k - 1] = gl
        BY <2>0, <3>1
      <3> HIDE DEF gk, gl, bk, g, S
      <3> QED BY <2>2, <3>8, <3>9, Zenon
    <2> QED BY <2>1, <2>2
  <1>8. FlattenSeq(S) = g[K]
    <2>1. Len(S) = K /\ K \in Nat \ {0}
      BY <1>2
    <2> HIDE DEF S, g, K
    <2> QED BY <1>7, <2>1, Flattened
  <1>9. g[K] = Elements(v, cells)
    <2>1. K \in 1..K
      BY <1>2
    <2> QED BY <2>1 DEF Elements
  <1> QED BY <1>3, <1>8, <1>9

\* arnm_bvec_copy_to: the buckets one after the other are the elements in order.
LEMMA CopyStep ==
  ASSUME IInv, NEW n, arnm_bvec_copy_to(n)
  PROVE  Outcome
  <1>1. CASE Refuse(TOO_SMALL)
    BY <1>1, RefuseStep
  <1>2. CASE ~Refuse(TOO_SMALL)
    <2>1. /\ out' = IF v.size = 0 THEN out ELSE flattened
          /\ result' = SUCCESS /\ UNCHANGED <<memory, held, others, v, cells>>
      BY <1>2 DEF arnm_bvec_copy_to
    <2>2. CASE v.size = 0
      BY <2>1, <2>2, StepOfNothing, ResultsDiffer
    <2>3. CASE v.size # 0
      <3>1. out' = Elements(v, cells) /\ Elements(v, cells) \in Seq(Values)
        BY <2>1, <2>3, Copied, StateTyped
      <3>2. IInv'
        BY <2>1, <3>1, ResultsDiffer DEF IInv
      <3>3. Placed
        BY <2>1 DEF Placed
      <3>4. contents' = contents /\ out' = contents
        BY <2>1, <3>1, ContentsBefore
      <3>5. Sequence!Next
        BY <3>4 DEF Sequence!Next, Sequence!CopyAll
      <3> QED BY <3>2, <3>3, <3>5 DEF Outcome, Simulates
    <2> QED BY <2>2, <2>3
  <1> QED BY <1>1, <1>2

-----------------------------------------------------------------------------
(* Making room.                                                            *)

\* The vector behind a larger index array, wherever the allocator put it.
LEMMA IndexReplaced ==
  ASSUME IInv, Sized(v), NEW e \in Nat, v.bucket_capacity < e,
         e <= ARNM_BVEC_MAX_INDEX_CAPACITY,
         NEW o \in resized(memory, held, v.index, index_bytes(v.bucket_capacity), index_bytes(e)),
         o.result # OUT_OF_MEMORY
  PROVE  /\ Good(with_index(o.at, e), o.memory, o.held, others, cells)
         /\ Sized(with_index(o.at, e)) /\ Extends(with_index(o.at, e), v)
         /\ with_index(o.at, e).bucket_capacity = e
         /\ with_index(o.at, e).allocated_count = v.allocated_count
  <1> DEFINE c == v.bucket_capacity
             ix == v.index
             s == v.slots
             k == v.allocated_count
             n == Charge(v)
             d == with_index(o.at, e)
  <1>1. /\ Shape(v) /\ MemoryOK(memory) /\ CellsOK(v, cells)
        /\ Owns(memory, held, ix, c, s, k, n, others)
    BY DEF IInv, Good
  <1>2. /\ c \in Nat /\ e \in Nat \ {0} /\ c # e /\ c <= ARNM_BVEC_MAX_INDEX_CAPACITY
        /\ ix \in Address \cup {NULL} /\ k \in Nat /\ n \in Nat \ {0} /\ c < e
        /\ ix = NULL <=> c = 0
    BY <1>1, Fields, Sizes DEF Shape, Indexed
  <1>3. o \in resized(memory, held, ix, index_bytes(c), index_bytes(e))
    OBVIOUS
  <1> HIDE DEF c, ix, s, k, n
  <1>4. /\ o.result \in {SUCCESS, NOT_RECLAIMED, OUT_OF_MEMORY}
        /\ MemoryOK(o.memory)
        /\ o.result = SUCCESS \/ (o.result = NOT_RECLAIMED /\ c < e) =>
              o.at \in Address /\ Owns(o.memory, o.held, o.at, e, s, k, n, others)
    BY <1>1, <1>2, <1>3, Resized
  <1>5. o.at \in Address /\ Owns(o.memory, o.held, o.at, e, s, k, n, others)
    BY <1>2, <1>4
  <1>6. /\ Shape(d) /\ Sized(d) /\ Extends(d, v)
        /\ d.index = o.at /\ d.bucket_capacity = e /\ d.allocated_count = k
    BY <1>1, <1>2, <1>5, IndexMoved DEF c, k
  <1> HIDE DEF d
  <1>7. \A i \in 1..k : d.slots[i] = s[i]
    BY <1>6 DEF Extends, k, s
  <1>8. Charge(d) = n /\ Cap(d) = Cap(v)
    BY <1>6, SameSizes DEF Extends, n
  <1>9. Owns(o.memory, o.held, o.at, e, d.slots, k, n, others)
    <2> DEFINE t == d.slots
    <2>1. \A i \in 1..k : t[i] = s[i]
      BY <1>7
    <2> HIDE DEF t
    <2>2. Owns(o.memory, o.held, o.at, e, t, k, n, others)
      BY <1>2, <1>5, <2>1, OwnsPrefix
    <2> QED BY <2>2 DEF t
  <1>10. Owns(o.memory, o.held, d.index, d.bucket_capacity, d.slots, d.allocated_count,
              Charge(d), others)
    BY <1>6, <1>8, <1>9, Zenon
  <1>11. Buckets(d) = Buckets(v)
    BY <1>6, <1>7 DEF Buckets, k, s
  <1>12. CellsOK(d, cells)
    BY <1>1, <1>8, <1>11 DEF CellsOK
  <1>13. Good(d, o.memory, o.held, others, cells)
    BY <1>4, <1>6, <1>10, <1>12 DEF Good
  <1> QED BY <1>6, <1>13 DEF d, k

\* Of buckets taken behind those in use the elements know nothing.
LEMMA Unchanged ==
  ASSUME NEW d, NEW e, NEW c, NEW f, Shape(v), Extends(d, v), Extends(e, d),
         d.allocated_count \in Nat,
         \A i \in 1..d.allocated_count : f[d.slots[i]] = c[d.slots[i]]
  PROVE  Agrees(v, c, e, f, {}) /\ e.size = v.size
  <1>1. Count(v) \in 0..v.allocated_count /\ v.allocated_count \in Nat
    BY InUse, Fields
  <1>2. v.allocated_count <= d.allocated_count
    BY DEF Extends
  <1>3. ASSUME NEW i \in 1..Count(v)
        PROVE  e.slots[i] = v.slots[i] /\ f[v.slots[i]] = c[v.slots[i]]
    <2>1. i \in 1..v.allocated_count /\ i \in 1..d.allocated_count
      BY <1>1, <1>2
    <2>2. d.slots[i] = v.slots[i] /\ e.slots[i] = d.slots[i]
      BY <2>1 DEF Extends
    <2>3. f[d.slots[i]] = c[d.slots[i]]
      BY <2>1
    <2> QED BY <2>2, <2>3
  <1>4. e.log2 = v.log2 /\ e.size = v.size
    BY DEF Extends
  <1> QED BY <1>3, <1>4 DEF Agrees

\* A descriptor extends itself.
LEMMA ExtendsItself == ASSUME NEW d, Shape(d) PROVE Extends(d, d)
  <1>1. d.allocated_count \in Nat
    BY Fields
  <1> QED BY <1>1 DEF Extends

\* The buckets taken one by one, all of them or as many as the allocator had.
LEMMA RoomReserved ==
  ASSUME IInv, Sized(v), NEW d, NEW m, NEW h, Good(d, m, h, others, cells), Sized(d),
         Extends(d, v), NEW needed \in Nat, d.allocated_count <= needed,
         needed <= d.bucket_capacity, reserve_buckets(d, m, h, needed)
  PROVE  Outcome
  <1>0. Shape(d) /\ d.allocated_count \in Nat /\ d.bucket_capacity \in Nat /\ Shape(v)
    BY Fields, StateTyped DEF Good
  <1>k. PICK k \in 0..(needed - d.allocated_count) :
          \E o \in taken(m, h, bucket_bytes, k), junk \in Values :
            /\ result' \in {SUCCESS, OUT_OF_MEMORY}
            /\ memory' = o.memory /\ held' = o.held
            /\ v' = with_buckets(d, o.at) /\ cells' = fresh_cells(cells, o.at, junk)
            /\ UNCHANGED <<others, out>>
    BY DEF reserve_buckets
  <1>1. PICK o \in taken(m, h, bucket_bytes, k), junk \in Values :
          /\ result' \in {SUCCESS, OUT_OF_MEMORY}
          /\ memory' = o.memory /\ held' = o.held
          /\ v' = with_buckets(d, o.at) /\ cells' = fresh_cells(cells, o.at, junk)
          /\ UNCHANGED <<others, out>>
    BY <1>k
  <1>2. k \in Nat /\ d.allocated_count + k <= d.bucket_capacity
    BY <1>0, <1>1
  <1>3. d.log2 = v.log2 /\ d.element_size = v.element_size
    BY DEF Extends
  <1> DEFINE e == with_buckets(d, o.at)
             f == fresh_cells(cells, o.at, junk)
  <1>4. /\ Good(e, o.memory, o.held, others, f) /\ Extends(e, d)
        /\ \A i \in 1..d.allocated_count : f[d.slots[i]] = cells[d.slots[i]]
    BY <1>2, <1>3, BucketsTaken
  <1>5. v' = e /\ cells' = f
    BY <1>1
  <1> HIDE DEF e, f
  <1>6. Good(v', memory', held', others', cells')
    BY <1>1, <1>4, <1>5
  <1>7. IInv'
    BY <1>1, <1>6, ResultsDiffer DEF IInv
  <1>8. Agrees(v, cells, e, f, {}) /\ e.size = v.size
    BY <1>0, <1>4, Unchanged
  <1> QED BY <1>1, <1>5, <1>7, <1>8, StepOfRoom

\* arnm_bvec_reserve: room is added, and no element moves.
LEMMA ReserveStep ==
  ASSUME IInv, NEW n \in Counts, arnm_bvec_reserve(n)
  PROVE  Outcome
  <1> DEFINE mask   == bucket_capacity - 1
             needed == (n + mask) \div bucket_capacity
  <1>1. CASE \E r \in Results : Refuse(r)
    BY <1>1, RefuseStep
  <1>2. CASE ~\E r \in Results : Refuse(r)
    <2>0. \A r \in {SUCCESS, INVALID_PARAM, INVALID_STATE, OVERFLOW, OUT_OF_MEMORY} : ~Refuse(r)
      BY <1>2, ResultsDiffer
    <2>1. /\ is_state_valid /\ needed <= ARNM_BVEC_MAX_INDEX_CAPACITY
          /\ \/ /\ needed > bucket_count_allocated /\ needed <= v.bucket_capacity
                /\ reserve_buckets(v, memory, held, needed)
             \/ /\ needed > v.bucket_capacity
                /\ \E o \in resized(memory, held, v.index, index_bytes(v.bucket_capacity),
                                    index_bytes(needed)) :
                     /\ o.result # OUT_OF_MEMORY
                     /\ reserve_buckets(with_index(o.at, needed), o.memory, o.held, needed)
      <3> HIDE DEF needed, mask
      <3> QED BY <2>0 DEF arnm_bvec_reserve, needed, mask
    <2>2. /\ Sized(v) /\ Good(v, memory, held, others, cells) /\ Shape(v)
          /\ bucket_count_allocated = v.allocated_count
      BY <2>1, Initialised, StateTyped DEF IInv
    <2>3. needed \in Nat
      <3> DEFINE C == bucket_capacity
                 a == n + mask
      <3>1. C \in Nat \ {0}
        BY <2>2, Reads, Sizes DEF Shape, Blank
      <3>2. a \in Nat
        <4>1. n \in Nat
          BY BvecAssumption, Widths
        <4> HIDE DEF C
        <4>2. mask \in Nat
          BY <3>1 DEF C
        <4> HIDE DEF mask
        <4> QED BY <4>1, <4>2
      <3> HIDE DEF C, a
      <3>3. a \div C \in Nat
        BY <3>1, <3>2, Divides
      <3> QED BY <3>3 DEF C, a
    <2> HIDE DEF needed
    <2>4. CASE /\ needed > bucket_count_allocated /\ needed <= v.bucket_capacity
               /\ reserve_buckets(v, memory, held, needed)
      <3>1. v.allocated_count <= needed
        BY <2>2, <2>3, <2>4, Fields
      <3>2. Extends(v, v)
        BY <2>2, ExtendsItself
      <3> QED BY <2>2, <2>3, <2>4, <3>1, <3>2, RoomReserved
    <2>5. CASE /\ needed > v.bucket_capacity
               /\ \E o \in resized(memory, held, v.index, index_bytes(v.bucket_capacity),
                                   index_bytes(needed)) :
                    /\ o.result # OUT_OF_MEMORY
                    /\ reserve_buckets(with_index(o.at, needed), o.memory, o.held, needed)
      <3>1. PICK o \in resized(memory, held, v.index, index_bytes(v.bucket_capacity),
                               index_bytes(needed)) :
              /\ o.result # OUT_OF_MEMORY
              /\ reserve_buckets(with_index(o.at, needed), o.memory, o.held, needed)
        BY <2>5
      <3>2. v.bucket_capacity \in Nat /\ v.allocated_count \in Nat
            /\ v.allocated_count <= v.bucket_capacity
        BY <2>2, Fields
      <3>3. v.bucket_capacity < needed /\ v.allocated_count <= needed
        BY <2>3, <2>5, <3>2
      <3> DEFINE d == with_index(o.at, needed)
      <3>4. /\ Good(d, o.memory, o.held, others, cells) /\ Sized(d) /\ Extends(d, v)
            /\ d.bucket_capacity = needed /\ d.allocated_count = v.allocated_count
        BY <2>1, <2>2, <2>3, <3>1, <3>3, IndexReplaced
      <3>5. reserve_buckets(d, o.memory, o.held, needed)
        BY <3>1
      <3> HIDE DEF d
      <3>6. d.allocated_count <= needed /\ needed <= d.bucket_capacity
        BY <2>3, <3>3, <3>4
      <3> QED BY <2>2, <2>3, <3>4, <3>5, <3>6, RoomReserved
    <2> QED BY <2>1, <2>4, <2>5
  <1> QED BY <1>1, <1>2

-----------------------------------------------------------------------------
(* Adding an element.                                                      *)

\* f is c but perhaps for place j of bucket a.
Touched(d, c, f, a, j) ==
  /\ CellsOK(d, f)
  /\ \A b \in Buckets(d), l \in 0..(Cap(d) - 1) :
       <<b, l>> # <<a, j>> => f[b][l] = c[b][l]

\* A push stores its value in the place it was given; an emplace stores nothing.
LEMMA StoredOrNot ==
  ASSUME NEW d, NEW c, CellsOK(d, c), NEW a \in Buckets(d), NEW j \in 0..(Cap(d) - 1),
         NEW x \in Values \cup {NULL}, NEW f, f = stored(c, a, j, x)
  PROVE  Touched(d, c, f, a, j)
  <1>1. CASE x = NULL
    <2>1. f = c
      BY <1>1 DEF stored
    <2> QED BY <2>1 DEF Touched
  <1>2. CASE x # NULL
    <2>1. f = [c EXCEPT ![a][j] = x] /\ x \in Values
      BY <1>2 DEF stored
    <2>2. Written(d, c, f, a, j, x)
      BY <2>1, Stored
    <2> QED BY <2>2 DEF Written, Touched
  <1> QED BY <1>1, <1>2

\* The vector one element longer, the new place written or not.
LEMMA Appended ==
  ASSUME IInv, Sized(v), NEW d, NEW c, Good(d, memory', held', others', c), Sized(d),
         d.size = v.size + 1, Agrees(v, cells, d, c, {}),
         v.allocated_count <= d.allocated_count,
         NEW a \in Buckets(d), NEW j \in 0..(Cap(d) - 1), Loc(d, v.size) = <<a, j>>,
         NEW x \in Values \cup {NULL},
         v' = d, cells' = stored(c, a, j, x), out' = out, result' = SUCCESS
  PROVE  Outcome
  <1> DEFINE f == stored(c, a, j, x)
             W == {<<a, j>>}
  <1>1. /\ Shape(v) /\ v.size \in Nat /\ Shape(d) /\ CellsOK(d, c) /\ out \in Seq(Values)
    BY StateTyped DEF Good, IInv
  <1>2. cells' = f /\ f = stored(c, a, j, x)
    OBVIOUS
  <1> HIDE DEF f
  <1>3. Touched(d, c, f, a, j)
    BY <1>1, <1>2, StoredOrNot
  <1>4. Good(d, memory', held', others', f)
    BY <1>3 DEF Good, Touched
  <1>5. Good(v', memory', held', others', cells')
    BY <1>2, <1>4
  <1>6. IInv'
    BY <1>1, <1>5, ResultsDiffer DEF IInv
  <1>7. Count(v) \in 0..v.allocated_count /\ v.allocated_count \in Nat /\ Cap(d) = Cap(v)
    BY <1>1, InUse, Fields DEF Agrees, Cap
  <1>8. Agrees(v, cells, d, f, W)
    <2>1. ASSUME NEW i \in 1..Count(v), NEW l \in 0..(Cap(v) - 1), <<v.slots[i], l>> \notin W
          PROVE  f[v.slots[i]][l] = cells[v.slots[i]][l]
      <3>1. <<v.slots[i], l>> \notin {} => c[v.slots[i]][l] = cells[v.slots[i]][l]
        BY <2>1 DEF Agrees
      <3>2. c[v.slots[i]][l] = cells[v.slots[i]][l]
        BY <3>1
      <3> DEFINE b == v.slots[i]
      <3>3. b \in Buckets(d)
        <4>0. d.allocated_count \in Nat
          BY <1>1, Fields
        <4>1. i \in 1..v.allocated_count /\ i \in 1..d.allocated_count
          BY <1>7, <4>0
        <4>2. d.slots[i] = v.slots[i]
          BY DEF Agrees
        <4> QED BY <4>1, <4>2 DEF Buckets
      <3>4. <<b, l>> # <<a, j>> /\ l \in 0..(Cap(d) - 1)
        BY <1>7, <2>1
      <3>5. f[b][l] = c[b][l]
        <4> HIDE DEF b
        <4> QED BY <1>3, <3>3, <3>4 DEF Touched
      <3> QED BY <3>2, <3>5
    <2> QED BY <2>1 DEF Agrees
  <1>9. ASSUME NEW i \in 0..(v.size - 1) PROVE Loc(v, i) \notin W
    <2>1. Loc(d, i) = Loc(v, i)
      BY <1>1, Kept
    <2>2. i \in 0..(d.size - 1) /\ v.size \in 0..(d.size - 1) /\ i # v.size
      BY <1>1
    <2>3. Loc(d, i) # Loc(d, v.size)
      BY <2>2, Places
    <2> QED BY <2>1, <2>3
  <1>10. Agrees(v, cells, v', cells', W) /\ v'.size = v.size + 1
    BY <1>2, <1>8
  <1> HIDE DEF W
  <1> QED BY <1>6, <1>9, <1>10, StepOfGrowth

\* The tail on the next bucket held, its first slot claimed.
LEMMA TailMoved ==
  ASSUME NEW d, Shape(d), Sized(d), NEW next \in Nat, next < d.allocated_count,
         d.size = next * Cap(d)
  PROVE  LET e == open_bucket(d, next) IN
         /\ Shape(e) /\ Sized(e) /\ e.size = d.size + 1 /\ Loc(e, d.size) = <<e.tail, 0>>
         /\ e.tail = d.slots[next + 1] /\ e.tail \in Buckets(e)
         /\ e.index = d.index /\ e.slots = d.slots /\ e.bucket_capacity = d.bucket_capacity
         /\ e.allocated_count = d.allocated_count /\ e.log2 = d.log2
         /\ e.element_size = d.element_size
  <1> DEFINE e == open_bucket(d, next)
             a == d.slots[next + 1]
             p == d.size + 1
             C == Cap(d)
  <1>1. d \in Descriptors /\ Indexed(d) /\ d.allocated_count \in Nat /\ d.size \in Nat
    BY Fields DEF Shape
  <1>2. C \in Nat \ {0, 1}
    BY <1>1, Sizes
  <1>3. next + 1 \in 1..d.allocated_count /\ a \in Address
    <2>1. next + 1 \in 1..d.allocated_count
      BY <1>1
    <2> QED BY <2>1, Fields
  <1>4. e = [d EXCEPT !.tail = a, !.tail_index = next, !.tail_used = 1, !.size = p]
    BY DEF open_bucket
  <1>5. /\ e.size = p /\ e.tail_used = 1 /\ e.tail_index = next
        /\ e.tail = a /\ e.index = d.index /\ e.slots = d.slots
        /\ e.bucket_capacity = d.bucket_capacity /\ e.allocated_count = d.allocated_count
        /\ e.log2 = d.log2 /\ e.element_size = d.element_size /\ e.step = d.step
    BY <1>1, <1>4 DEF Descriptors
  <1>6. p \in Nat \ {0} /\ p = next * C + 1
    BY <1>1
  <1> HIDE DEF e, a, p, C
  <1>7. e \in Descriptors
    BY <1>1, <1>3, <1>4, <1>6 DEF Descriptors
  <1>8. Indexed(e) /\ Sized(e) /\ Cap(e) = C
    BY <1>1, <1>5 DEF Indexed, Sized, Cap, C
  <1>9. Counted(e)
    <2>1. e.tail_used \in 1..Cap(e) /\ e.size # 0 /\ e.tail_index < e.allocated_count
      BY <1>2, <1>5, <1>6, <1>8
    <2>2. e.size = e.tail_index * Cap(e) + e.tail_used
      BY <1>5, <1>6, <1>8, Zenon
    <2>3. e.tail = e.slots[e.tail_index + 1]
      BY <1>5, Zenon DEF a
    <2> QED BY <2>1, <2>2, <2>3 DEF Counted
  <1>10. Shape(e)
    BY <1>7, <1>8, <1>9 DEF Shape
  <1>11. a \in Buckets(e)
    BY <1>3, <1>5 DEF Buckets, a
  <1>12. Loc(e, d.size) = <<a, 0>>
    <2>1. 0 \in 0..(C - 1)
      BY <1>2
    <2>2. (next * C + 0) \div C = next /\ (next * C + 0) % C = 0
      BY <1>2, <2>1, DividesOnce
    <2>3. next * C + 0 = d.size
      BY <1>1 DEF C
    <2>4. d.size \div C = next /\ d.size % C = 0
      BY <2>2, <2>3, Zenon
    <2> QED BY <1>5, <1>8, <2>4 DEF Loc, a
  <1>13. p = d.size + 1
    BY DEF p
  <1> QED BY <1>5, <1>8, <1>10, <1>11, <1>12, <1>13 DEF e, a

\* The next bucket is opened and its first place filled.
LEMMA Opened ==
  ASSUME IInv, Sized(v), ~tail_has_room, NEW d, NEW c, Good(d, memory', held', others', c),
         Sized(d), Extends(d, v), Agrees(v, cells, d, c, {}),
         Count(v) < d.allocated_count, NEW x \in Values \cup {NULL},
         v' = open_bucket(d, Count(v)), cells' = stored(c, v'.tail, 0, x),
         out' = out, result' = SUCCESS
  PROVE  Outcome
  <1> DEFINE next == Count(v)
             e == open_bucket(d, next)
  <1>1. Shape(v) /\ Shape(d) /\ NULL \notin Address /\ bucket_capacity = Cap(v)
    BY StateTyped, BvecAssumption, Reads DEF Good, Address
  <1>2. next \in Nat /\ d.allocated_count \in Nat /\ v.allocated_count \in Nat
    BY <1>1, InUse, Fields
  <1>3. /\ Counted(v) /\ v.tail_used \in 1..Cap(v) /\ Cap(v) \in Nat \ {0, 1}
        /\ v.size = 0 <=> v.tail = NULL
        /\ v.tail_used = Cap(v) => v.size = next * Cap(v)
    BY <1>1, TailOpen
  <1>4. v.tail_used = Cap(v)
    <2>1. CASE v.tail = NULL
      BY <1>3, <2>1 DEF Counted
    <2>2. CASE v.tail # NULL
      BY <1>1, <1>3, <2>2 DEF tail_has_room
    <2> QED BY <2>1, <2>2
  <1>5. Cap(d) = Cap(v) /\ d.size = v.size /\ v.allocated_count <= d.allocated_count
    BY SameSizes DEF Extends
  <1>6. d.size = next * Cap(d)
    BY <1>3, <1>4, <1>5, Zenon
  <1> HIDE DEF next
  <1>7. /\ Shape(e) /\ Sized(e) /\ e.size = d.size + 1 /\ Loc(e, d.size) = <<e.tail, 0>>
        /\ e.tail \in Buckets(e)
        /\ e.index = d.index /\ e.slots = d.slots /\ e.bucket_capacity = d.bucket_capacity
        /\ e.allocated_count = d.allocated_count /\ e.log2 = d.log2
        /\ e.element_size = d.element_size
    <2>1. next < d.allocated_count
      BY DEF next
    <2> QED BY <1>1, <1>2, <1>6, <2>1, TailMoved
  <1>8. v' = e
    BY DEF next
  <1> HIDE DEF e
  <1>9. Good(e, memory', held', others', c)
    BY <1>7, GoodKept
  <1>10. Agrees(v, cells, e, c, {})
    BY <1>7 DEF Agrees
  <1>11. 0 \in 0..(Cap(e) - 1)
    BY <1>3, <1>5, <1>7, SameSizes
  <1>12. /\ e.size = v.size + 1 /\ v.allocated_count <= e.allocated_count
         /\ Loc(e, v.size) = <<e.tail, 0>> /\ cells' = stored(c, e.tail, 0, x)
    BY <1>5, <1>7, <1>8
  <1> DEFINE a == e.tail
             j == 0
  <1>13. /\ a \in Buckets(e) /\ j \in 0..(Cap(e) - 1) /\ Loc(e, v.size) = <<a, j>>
         /\ cells' = stored(c, a, j, x)
    BY <1>7, <1>11, <1>12
  <1> HIDE DEF a, j
  <1> QED BY <1>7, <1>8, <1>9, <1>10, <1>12, <1>13, Appended

\* grow_bucket: one more bucket is allocated and opened, or nothing changes.
LEMMA GrowBucketStep ==
  ASSUME IInv, Sized(v), ~tail_has_room, NEW d, NEW m, NEW h,
         Good(d, m, h, others, cells), Sized(d), Extends(d, v),
         d.allocated_count = v.allocated_count, d.allocated_count < d.bucket_capacity,
         v.allocated_count <= Count(v), NEW x \in Values \cup {NULL},
         grow_bucket(d, m, h, Count(v), x)
  PROVE  Outcome
  <1>0. /\ Shape(d) /\ d.allocated_count \in Nat /\ d.bucket_capacity \in Nat /\ Shape(v)
        /\ Count(v) = v.allocated_count /\ Extends(d, d) /\ out \in Seq(Values)
    <2>1. Shape(d) /\ Shape(v) /\ out \in Seq(Values)
      BY StateTyped DEF Good, IInv
    <2>2. Count(v) \in 0..v.allocated_count /\ v.allocated_count \in Nat
      BY <2>1, InUse, Fields
    <2> QED BY <2>1, <2>2, Fields, ExtendsItself
  <1>1. CASE /\ v' = d /\ memory' = m /\ held' = h
             /\ result' = OUT_OF_MEMORY
             /\ UNCHANGED <<others, cells, out>>
    <2>1. Agrees(v, cells, d, cells, {}) /\ d.size = v.size
      BY <1>0, Unchanged
    <2>2. IInv'
      BY <1>0, <1>1, ResultsDiffer DEF IInv
    <2> QED BY <1>1, <2>1, <2>2, StepOfRoom
  <1>2. CASE \E o \in taken(m, h, bucket_bytes, 1), junk \in Values :
               /\ memory' = o.memory /\ held' = o.held
               /\ v' = open_bucket(with_buckets(d, o.at), Count(v))
               /\ cells' = stored(fresh_cells(cells, o.at, junk), v'.tail, 0, x)
               /\ result' = SUCCESS
               /\ UNCHANGED <<others, out>>
    <2>1. PICK o \in taken(m, h, bucket_bytes, 1), junk \in Values :
               /\ memory' = o.memory /\ held' = o.held
               /\ v' = open_bucket(with_buckets(d, o.at), Count(v))
               /\ cells' = stored(fresh_cells(cells, o.at, junk), v'.tail, 0, x)
               /\ result' = SUCCESS
               /\ UNCHANGED <<others, out>>
      BY <1>2
    <2> DEFINE e == with_buckets(d, o.at)
               f == fresh_cells(cells, o.at, junk)
               j == 1
    <2>2. d.allocated_count + 1 <= d.bucket_capacity /\ 1 \in Nat
      BY <1>0
    <2>3. d.log2 = v.log2 /\ d.element_size = v.element_size
      BY DEF Extends
    <2>4. /\ Good(e, o.memory, o.held, others, f) /\ Sized(e) /\ Extends(e, d)
          /\ e.allocated_count = d.allocated_count + 1
          /\ \A i \in 1..d.allocated_count : f[d.slots[i]] = cells[d.slots[i]]
      BY <2>2, <2>3, BucketsTaken
    <2>5. v' = open_bucket(e, Count(v)) /\ cells' = stored(f, v'.tail, 0, x)
      BY <2>1
    <2> HIDE DEF e, f
    <2>6. Good(e, memory', held', others', f)
      BY <2>1, <2>4
    <2>7. Agrees(v, cells, e, f, {})
      BY <1>0, <2>4, Unchanged
    <2>8. Extends(e, v)
      <3>1. \A i \in 1..v.allocated_count : e.slots[i] = v.slots[i]
        BY <1>0, <2>4 DEF Extends
      <3> QED BY <1>0, <2>4, <3>1 DEF Extends
    <2>9. Count(v) < e.allocated_count
      BY <1>0, <2>4
    <2> QED BY <2>1, <2>4, <2>5, <2>6, <2>7, <2>8, <2>9, Opened
  <1> QED BY <1>1, <1>2 DEF grow_bucket

\* An element added where the tail has room for it.
LEMMA InTail ==
  ASSUME Shape(v), tail_has_room
  PROVE  LET e == [v EXCEPT !.tail_used = @ + 1, !.size = @ + 1] IN
         /\ Shape(e) /\ Sized(e) /\ e.size = v.size + 1
         /\ Loc(e, v.size) = <<v.tail, v.tail_used>> /\ v.tail_used \in 0..(Cap(e) - 1)
         /\ v.tail \in Buckets(e)
         /\ e.index = v.index /\ e.slots = v.slots /\ e.bucket_capacity = v.bucket_capacity
         /\ e.allocated_count = v.allocated_count /\ e.log2 = v.log2
         /\ e.element_size = v.element_size
  <1> DEFINE e == [v EXCEPT !.tail_used = @ + 1, !.size = @ + 1]
             C == Cap(v)
             t == v.tail_index
             u == v.tail_used
             p == v.size + 1
             q == u + 1
  <1>1. /\ v \in Descriptors /\ Indexed(v) /\ NULL \notin Address /\ v.tail # NULL /\ u < C
    BY BvecAssumption, Reads DEF Shape, Address, tail_has_room
  <1>2. Sized(v) /\ Counted(v) /\ v.size # 0
    BY <1>1 DEF Shape, Blank, Counted
  <1>3. /\ C \in Nat \ {0, 1} /\ t \in Nat /\ u \in 1..C /\ v.size = t * C + u
        /\ t < v.allocated_count /\ v.tail = v.slots[t + 1]
        /\ v.allocated_count \in Nat /\ v.size \in Nat
    BY <1>1, <1>2, Sizes, Fields DEF Counted
  <1>4. e = [v EXCEPT !.tail_used = q, !.size = p]
    BY <1>1 DEF Descriptors
  <1>5. /\ e.size = p /\ e.tail_used = q /\ e.tail_index = t
        /\ e.tail = v.tail /\ e.index = v.index /\ e.slots = v.slots
        /\ e.bucket_capacity = v.bucket_capacity /\ e.allocated_count = v.allocated_count
        /\ e.log2 = v.log2 /\ e.element_size = v.element_size /\ e.step = v.step
    BY <1>1, <1>4 DEF Descriptors
  <1>6. p \in Nat \ {0} /\ q \in 1..C /\ q \in Nat /\ p = t * C + q
    <2> DEFINE y == t * C
    <2>1. y \in Nat
      BY <1>3, Times
    <2>2. v.size = y + u
      BY <1>3
    <2> HIDE DEF y
    <2>3. p \in Nat \ {0} /\ q \in 1..C /\ q \in Nat /\ p = y + q
      BY <1>1, <1>3, <2>1, <2>2
    <2> QED BY <2>3 DEF y
  <1>7. p = v.size + 1
    OBVIOUS
  <1> HIDE DEF e, p, q
  <1>8. e \in Descriptors
    BY <1>1, <1>4, <1>6 DEF Descriptors
  <1>9. Indexed(e) /\ Sized(e) /\ Cap(e) = C
    BY <1>1, <1>2, <1>5 DEF Indexed, Sized, Cap
  <1>10. Counted(e)
    BY <1>3, <1>5, <1>6, <1>9 DEF Counted
  <1>11. Shape(e)
    BY <1>8, <1>9, <1>10 DEF Shape
  <1>12. u \in 0..(C - 1)
    BY <1>1, <1>3
  <1>13. Loc(e, v.size) = <<v.tail, u>>
    <2>1. (t * C + u) \div C = t /\ (t * C + u) % C = u
      BY <1>3, <1>12, DividesOnce
    <2>2. v.size \div C = t /\ v.size % C = u
      BY <1>3, <2>1, Zenon
    <2> QED BY <1>3, <1>5, <1>9, <2>2 DEF Loc
  <1>14. v.tail \in Buckets(e)
    <2>1. t + 1 \in 1..v.allocated_count
      BY <1>3
    <2> QED BY <1>3, <1>5, <2>1 DEF Buckets
  <1> QED BY <1>5, <1>7, <1>9, <1>11, <1>12, <1>13, <1>14 DEF e

\* arnm_bvec_grow: an allocated spare bucket, a wider index or a new bucket; elements stay.
LEMMA GrowStep ==
  ASSUME IInv, ~tail_has_room, NEW x \in Values \cup {NULL}, arnm_bvec_grow(x)
  PROVE  Outcome
  <1>1. CASE \E r \in Results : Refuse(r)
    BY <1>1, RefuseStep
  <1>2. CASE ~\E r \in Results : Refuse(r)
    <2> DEFINE next == Count(v)
               wider == v.bucket_capacity + v.step
    <2>0. \A r \in {INVALID_STATE, OVERFLOW, OUT_OF_MEMORY} : ~Refuse(r)
      BY <1>2, ResultsDiffer
    <2>1. /\ bucket_count_allocated = v.allocated_count /\ arnm_bvec_bucket_count = next
          /\ is_state_valid => Sized(v)
      BY Initialised
    <2>2. Good(v, memory, held, others, cells) /\ Shape(v) /\ Indexed(v)
      BY StateTyped DEF IInv, Shape
    <2>3. /\ next \in 0..v.allocated_count /\ v.allocated_count \in Nat
          /\ v.bucket_capacity \in Nat /\ v.allocated_count <= v.bucket_capacity
      BY <2>2, InUse, Fields
    <2> HIDE DEF next, wider
    <2>4. /\ is_state_valid
          /\ \/ /\ next < v.allocated_count
                /\ v' = open_bucket(v, next)
                /\ cells' = stored(cells, v'.tail, 0, x)
                /\ result' = SUCCESS
                /\ UNCHANGED <<memory, held, others, out>>
             \/ /\ next >= v.allocated_count /\ v.allocated_count # v.bucket_capacity
                /\ grow_bucket(v, memory, held, next, x)
             \/ /\ next >= v.allocated_count /\ v.allocated_count = v.bucket_capacity
                /\ ~index_at_limit
                /\ \E o \in resized(memory, held, v.index, index_bytes(v.bucket_capacity),
                                    index_bytes(wider)) :
                     /\ o.result # OUT_OF_MEMORY
                     /\ grow_bucket(with_index(o.at, wider), o.memory, o.held, next, x)
      BY <2>0, <2>1, Zenon DEF arnm_bvec_grow, wider
    <2>5. Sized(v) /\ Extends(v, v)
      BY <2>1, <2>2, <2>4, ExtendsItself
    <2>6. CASE /\ next < v.allocated_count
               /\ v' = open_bucket(v, next)
               /\ cells' = stored(cells, v'.tail, 0, x)
               /\ result' = SUCCESS
               /\ UNCHANGED <<memory, held, others, out>>
      <3>1. Good(v, memory', held', others', cells)
        BY <2>2, <2>6
      <3>2. Agrees(v, cells, v, cells, {})
        BY DEF Agrees
      <3>3. Count(v) < v.allocated_count /\ v' = open_bucket(v, Count(v))
        BY <2>6 DEF next
      <3> QED BY <2>5, <2>6, <3>1, <3>2, <3>3, Opened
    <2>7. CASE /\ next >= v.allocated_count /\ v.allocated_count # v.bucket_capacity
               /\ grow_bucket(v, memory, held, next, x)
      <3>1. v.allocated_count < v.bucket_capacity
        BY <2>3, <2>7
      <3>2. v.allocated_count <= Count(v) /\ grow_bucket(v, memory, held, Count(v), x)
        BY <2>3, <2>7 DEF next
      <3> QED BY <2>2, <2>5, <3>1, <3>2, GrowBucketStep
    <2>8. CASE /\ next >= v.allocated_count /\ v.allocated_count = v.bucket_capacity
               /\ ~index_at_limit
               /\ \E o \in resized(memory, held, v.index, index_bytes(v.bucket_capacity),
                                   index_bytes(wider)) :
                    /\ o.result # OUT_OF_MEMORY
                    /\ grow_bucket(with_index(o.at, wider), o.memory, o.held, next, x)
      <3>1. PICK o \in resized(memory, held, v.index, index_bytes(v.bucket_capacity),
                               index_bytes(wider)) :
              /\ o.result # OUT_OF_MEMORY
              /\ grow_bucket(with_index(o.at, wider), o.memory, o.held, next, x)
        BY <2>8
      <3>2. /\ wider \in Nat /\ v.bucket_capacity < wider
            /\ wider <= ARNM_BVEC_MAX_INDEX_CAPACITY
        <4>1. v.step \in Nat /\ v.step >= 1
          BY <2>5, Widths DEF Sized
        <4>2. ~(wider > ARNM_BVEC_MAX_INDEX_CAPACITY)
          BY <2>8 DEF index_at_limit, wider
        <4> QED BY <2>3, <4>1, <4>2, Widths DEF wider
      <3> DEFINE d == with_index(o.at, wider)
      <3>3. /\ Good(d, o.memory, o.held, others, cells)
            /\ Sized(d) /\ Extends(d, v)
            /\ d.bucket_capacity = wider /\ d.allocated_count = v.allocated_count
        BY <2>5, <3>1, <3>2, IndexReplaced
      <3>4. grow_bucket(d, o.memory, o.held, Count(v), x)
        BY <3>1 DEF next
      <3> HIDE DEF d
      <3>5. d.allocated_count < d.bucket_capacity /\ v.allocated_count <= Count(v)
        BY <2>3, <2>8, <3>2, <3>3 DEF next
      <3> QED BY <2>5, <3>3, <3>4, <3>5, GrowBucketStep
    <2> QED BY <2>4, <2>6, <2>7, <2>8
  <1> QED BY <1>1, <1>2

\* arnm_bvec_push_ptr and arnm_bvec_emplace.
LEMMA AppendStep ==
  ASSUME IInv, NEW x \in Values \cup {NULL}, append(x)
  PROVE  Outcome
  <1>1. CASE ~tail_has_room /\ arnm_bvec_grow(x)
    BY <1>1, GrowStep
  <1>2. CASE /\ tail_has_room
             /\ v' = [v EXCEPT !.tail_used = @ + 1, !.size = @ + 1]
             /\ cells' = stored(cells, v.tail, v.tail_used, x)
             /\ result' = SUCCESS
             /\ UNCHANGED <<memory, held, others, out>>
    <2> DEFINE e == [v EXCEPT !.tail_used = @ + 1, !.size = @ + 1]
               a == v.tail
               j == v.tail_used
    <2>1. Good(v, memory, held, others, cells) /\ Shape(v)
      BY StateTyped DEF IInv
    <2>2. /\ Shape(e) /\ Sized(e) /\ e.size = v.size + 1
          /\ Loc(e, v.size) = <<a, j>> /\ j \in 0..(Cap(e) - 1)
          /\ a \in Buckets(e)
          /\ e.index = v.index /\ e.slots = v.slots /\ e.bucket_capacity = v.bucket_capacity
          /\ e.allocated_count = v.allocated_count /\ e.log2 = v.log2
          /\ e.element_size = v.element_size
      BY <1>2, <2>1, InTail
    <2>3. v' = e /\ cells' = stored(cells, a, j, x) /\ result' = SUCCESS /\ out' = out
      BY <1>2
    <2>4. Sized(v)
      BY <1>2, Initialised DEF tail_has_room
    <2> HIDE DEF e, a, j
    <2>5. Good(e, memory, held, others, cells)
      BY <2>1, <2>2, GoodKept
    <2>6. Good(e, memory', held', others', cells)
      BY <1>2, <2>5
    <2>7. Agrees(v, cells, e, cells, {}) /\ v.allocated_count <= e.allocated_count
      BY <2>1, <2>2, Fields DEF Agrees
    <2> QED BY <2>2, <2>3, <2>4, <2>6, <2>7, Appended
  <1> QED BY <1>1, <1>2 DEF append

-----------------------------------------------------------------------------
(* Giving back the buckets that hold nothing.                              *)

\* What is left of a descriptor and of the cells when the buckets from keep on go.
WithoutSpares(d, keep) ==
  [d EXCEPT !.allocated_count = keep,
            !.slots = [i \in DOMAIN @ |-> IF i > keep THEN NULL ELSE @[i]]]

Without(c, gone) == [a \in DOMAIN c \ gone |-> c[a]]

SameSlots(e, d, keep) == \A i \in 1..keep : e.slots[i] = d.slots[i]

\* The slots from keep on emptied.
LEMMA SlotsCut ==
  ASSUME NEW d, Shape(d), Sized(d), NEW keep \in Count(d)..d.allocated_count, NEW e,
         e = WithoutSpares(d, keep)
  PROVE  /\ Shape(e) /\ Sized(e) /\ e.size = d.size /\ e.index = d.index
         /\ e.bucket_capacity = d.bucket_capacity /\ e.allocated_count = keep
         /\ e.log2 = d.log2 /\ e.element_size = d.element_size
         /\ SameSlots(e, d, keep)
  <1> DEFINE z == [i \in DOMAIN d.slots |-> IF i > keep THEN NULL ELSE d.slots[i]]
  <1>1. /\ d \in Descriptors /\ Indexed(d) /\ Counted(d) /\ NULL \notin Address
        /\ Count(d) \in 0..d.allocated_count /\ d.allocated_count \in Nat
        /\ d.bucket_capacity \in Nat /\ DOMAIN d.slots = 1..d.bucket_capacity
        /\ \A i \in 1..d.bucket_capacity : d.slots[i] \in Address \cup {NULL}
        /\ d.allocated_count <= d.bucket_capacity
    <2>1. d.slots \in Seq(Address \cup {NULL}) /\ Len(d.slots) = d.bucket_capacity
      BY Fields
    <2>2. NULL \notin Address
      BY BvecAssumption DEF Address
    <2> QED BY <2>1, <2>2, Fields, InUse, TailOpen DEF Shape
  <1>2. keep \in Nat /\ keep <= d.allocated_count /\ Count(d) <= keep
    BY <1>1
  <1>3. z \in Seq(Address \cup {NULL}) /\ Len(z) = d.bucket_capacity
    <2>1. \A i \in 1..d.bucket_capacity :
            (IF i > keep THEN NULL ELSE d.slots[i]) \in Address \cup {NULL}
      BY <1>1
    <2>2. z \in [1..d.bucket_capacity -> Address \cup {NULL}]
      BY <1>1, <2>1
    <2> HIDE DEF z
    <2> QED BY <1>1, <2>2
  <1>4. \A i \in 1..d.bucket_capacity : z[i] # NULL <=> i <= keep
    <2>1. \A i \in 1..d.bucket_capacity : d.slots[i] # NULL <=> i <= d.allocated_count
      BY <1>1 DEF Indexed
    <2> QED BY <1>1, <1>2, <2>1
  <1>5. \A i \in 1..keep : z[i] = d.slots[i]
    BY <1>1, <1>2
  <1>6. e = [d EXCEPT !.allocated_count = keep, !.slots = z]
    BY DEF WithoutSpares
  <1> HIDE DEF z
  <1>7. /\ e.index = d.index /\ e.bucket_capacity = d.bucket_capacity /\ e.slots = z
        /\ e.element_size = d.element_size /\ e.tail_index = d.tail_index
        /\ e.tail_used = d.tail_used /\ e.tail = d.tail /\ e.size = d.size
        /\ e.log2 = d.log2 /\ e.step = d.step /\ e.allocated_count = keep
    BY <1>1, <1>6 DEF Descriptors
  <1>8. e \in Descriptors
    BY <1>1, <1>2, <1>3, <1>6 DEF Descriptors
  <1>9. Indexed(e)
    BY <1>1, <1>2, <1>3, <1>4, <1>7 DEF Indexed
  <1>10. Sized(e) /\ Cap(e) = Cap(d)
    BY <1>7 DEF Sized, Cap
  <1>11. Counted(e)
    <2>1. CASE d.size = 0
      BY <1>1, <1>7, <1>10, <2>1 DEF Counted
    <2>2. CASE d.size # 0
      <3>1. Count(d) = d.tail_index + 1 /\ d.tail_index \in Nat
        BY <1>1, <2>2, TailOpen, Fields
      <3>2. d.tail_index + 1 \in 1..keep /\ d.tail_index < keep
        BY <1>2, <3>1
      <3>3. z[d.tail_index + 1] = d.slots[d.tail_index + 1]
        BY <1>5, <3>2
      <3> QED BY <1>1, <1>7, <1>10, <2>2, <3>2, <3>3 DEF Counted
    <2> QED BY <2>1, <2>2
  <1> QED BY <1>5, <1>7, <1>8, <1>9, <1>10, <1>11 DEF Shape, SameSlots

\* The cells that are left.
LEMMA CellsCut ==
  ASSUME NEW d, NEW m, NEW h, NEW O, NEW c, Good(d, m, h, O, c), Sized(d),
         NEW keep \in 0..d.allocated_count, NEW e, Cap(e) = Cap(d), e.allocated_count = keep,
         SameSlots(e, d, keep),
         NEW f, f = Without(c, Spares(d.slots, keep, d.allocated_count))
  PROVE  /\ CellsOK(e, f)
         /\ \A i \in 1..keep : f[d.slots[i]] = c[d.slots[i]]
  <1> DEFINE gone == {d.slots[i] : i \in (keep + 1)..d.allocated_count}
             R == 0..(Cap(d) - 1)
  <1>1. /\ Shape(d) /\ d.allocated_count \in Nat /\ keep \in Nat
        /\ c \in [Buckets(d) -> [R -> Values]]
    BY Fields DEF Good, CellsOK
  <1>2. \A i, j \in 1..d.allocated_count : i # j => d.slots[i] # d.slots[j]
    BY Distinct
  <1>3. Buckets(e) = {d.slots[i] : i \in 1..keep}
    BY DEF Buckets, SameSlots
  <1>4. /\ \A i \in 1..d.allocated_count : i \in 1..keep \/ i \in (keep + 1)..d.allocated_count
        /\ \A i \in 1..keep, j \in (keep + 1)..d.allocated_count :
             i \in 1..d.allocated_count /\ j \in 1..d.allocated_count /\ i # j
    BY <1>1
  <1>5. Buckets(e) = Buckets(d) \ gone
    <2> HIDE DEF R
    <2>1. ASSUME NEW i \in 1..keep PROVE d.slots[i] \in Buckets(d) /\ d.slots[i] \notin gone
      <3>1. i \in 1..d.allocated_count
        BY <1>1
      <3>2. ASSUME NEW j \in (keep + 1)..d.allocated_count PROVE d.slots[i] # d.slots[j]
        BY <1>2, <1>4, Zenon
      <3> QED BY <3>1, <3>2 DEF Buckets
    <2>2. \A i \in 1..d.allocated_count : d.slots[i] \notin gone => i \in 1..keep
      BY <1>4
    <2> HIDE DEF gone
    <2>3. Buckets(d) = {d.slots[i] : i \in 1..d.allocated_count}
      BY DEF Buckets
    <2> QED BY <1>3, <2>1, <2>2, <2>3
  <1>6. f = [a \in Buckets(e) |-> c[a]]
    <2>1. DOMAIN c = Buckets(d)
      BY <1>1
    <2> QED BY <1>5, <2>1 DEF Without, Spares
  <1> HIDE DEF gone, R
  <1>7. \A a \in Buckets(e) : a \in Buckets(d)
    BY <1>5
  <1>8. f \in [Buckets(e) -> [R -> Values]]
    BY <1>1, <1>6, <1>7
  <1>9. \A i \in 1..keep : f[d.slots[i]] = c[d.slots[i]]
    BY <1>3, <1>6
  <1> QED BY <1>8, <1>9 DEF CellsOK, R

\* A descriptor behind an index array of keep slots at the given address.
CutTo(d, at, keep) ==
  [d EXCEPT !.index = at, !.bucket_capacity = keep, !.slots = SubSeq(@, 1, keep)]

\* The index array tightened to the slots in use.
LEMMA IndexCut ==
  ASSUME NEW d, Shape(d), Sized(d), NEW keep \in Nat \ {0}, d.allocated_count = keep,
         NEW at \in Address, NEW e, e = CutTo(d, at, keep)
  PROVE  /\ Shape(e) /\ Sized(e) /\ e.size = d.size /\ e.index = at
         /\ e.bucket_capacity = keep /\ e.allocated_count = keep
         /\ e.log2 = d.log2 /\ e.element_size = d.element_size
         /\ \A i \in 1..keep : e.slots[i] = d.slots[i]
  <1> DEFINE z == SubSeq(d.slots, 1, keep)
  <1>1. /\ d \in Descriptors /\ Indexed(d) /\ Counted(d) /\ NULL \notin Address
        /\ d.slots \in Seq(Address \cup {NULL}) /\ Len(d.slots) = d.bucket_capacity
        /\ d.bucket_capacity \in Nat /\ keep <= d.bucket_capacity
        /\ d.bucket_capacity <= ARNM_BVEC_MAX_INDEX_CAPACITY
        /\ \A i \in 1..keep : d.slots[i] \in Address
    <2>1. NULL \notin Address
      BY BvecAssumption DEF Address
    <2> QED BY <2>1, Fields, TailOpen DEF Shape
  <1>2. /\ z \in Seq(Address \cup {NULL}) /\ Len(z) = keep
        /\ \A i \in 1..keep : z[i] = d.slots[i]
    BY <1>1
  <1>3. e = [d EXCEPT !.index = at, !.bucket_capacity = keep, !.slots = z]
    BY DEF CutTo
  <1> HIDE DEF z
  <1>4. /\ e.index = at /\ e.bucket_capacity = keep /\ e.slots = z
        /\ e.element_size = d.element_size /\ e.tail_index = d.tail_index
        /\ e.tail_used = d.tail_used /\ e.tail = d.tail /\ e.size = d.size
        /\ e.log2 = d.log2 /\ e.step = d.step /\ e.allocated_count = keep
    BY <1>1, <1>3 DEF Descriptors
  <1>5. e \in Descriptors
    BY <1>1, <1>2, <1>3 DEF Descriptors
  <1>6. Indexed(e)
    <2>1. \A i \in 1..keep : z[i] # NULL <=> i <= keep
      BY <1>1, <1>2
    <2>2. keep <= ARNM_BVEC_MAX_INDEX_CAPACITY
      BY <1>1, Widths
    <2> QED BY <1>1, <1>2, <1>4, <2>1, <2>2 DEF Indexed
  <1>7. Sized(e) /\ Cap(e) = Cap(d)
    BY <1>4 DEF Sized, Cap
  <1>8. Counted(e)
    <2>1. CASE d.size = 0
      BY <1>1, <1>4, <1>7, <2>1 DEF Counted
    <2>2. CASE d.size # 0
      <3>1. d.tail_index \in Nat /\ d.tail_index < keep
        BY <1>1, <2>2, Fields DEF Counted
      <3>2. z[d.tail_index + 1] = d.slots[d.tail_index + 1]
        BY <1>2, <3>1
      <3> QED BY <1>1, <1>4, <1>7, <2>2, <3>1, <3>2 DEF Counted
    <2> QED BY <2>1, <2>2
  <1> QED BY <1>2, <1>4, <1>5, <1>6, <1>7, <1>8 DEF Shape

\* The spare buckets that shrink takes back are the newest blocks of the arena.
LEMMA SpareOnTop ==
  ASSUME IInv, Sized(v), behind_arena,
         NEW keep \in arnm_bvec_bucket_count..bucket_count_allocated, shrink_stops_at(keep)
  PROVE  Topmost(v.slots, v.allocated_count, v.allocated_count - keep, memory.last_index,
                 Charge(v))
  <1> DEFINE k == v.allocated_count
             n == Charge(v)
             top == memory.last_index
             s == v.slots
  <1>1. /\ Shape(v) /\ memory \in Memories /\ bucket_count_allocated = k
        /\ arnm_bvec_bucket_count = Count(v) /\ bucket_bytes = Bytes(v)
    BY Reads, Initialised, StateTyped DEF IInv, Good, MemoryOK
  <1>2. k \in Nat /\ Count(v) \in 0..k /\ n \in Nat \ {0} /\ top \in Nat
    BY <1>1, InUse, Fields, Sizes DEF Memories, Shape
  <1>3. keep \in Nat /\ keep <= k
    BY <1>1, <1>2
  <1>4. arnm_align8_u32(bucket_bytes) = n
    BY <1>1 DEF Charge
  <1>5. \A i \in (keep + 1)..k :
          at_tail(bump(memory, -((k - i) * n)), v.slots[i], bucket_bytes)
    <2> HIDE DEF k, n
    <2> QED BY <1>1, <1>4 DEF shrink_stops_at
  <1>6. ASSUME NEW i \in (keep + 1)..k PROVE s[i] = top - (k - i) * n - n
    <2> DEFINE y == (k - i) * n
    <2>1. y \in Nat
      <3>1. k - i \in Nat
        BY <1>2, <1>3
      <3> QED BY <1>2, <3>1, Times
    <2>2. at_tail(bump(memory, -y), s[i], bucket_bytes)
      BY <1>5
    <2> HIDE DEF y, n
    <2>3. bump(memory, -y).last_index = top - y
      BY <1>1, <1>2, <2>1 DEF bump, Memories
    <2>4. bump(memory, -y).last_index - n = s[i]
      BY <1>4, <2>2 DEF at_tail, is_single_arena_reclaimable, Block
    <2>5. s[i] = top - y - n
      BY <2>3, <2>4
    <2> QED BY <2>5 DEF y, n
  <1> DEFINE j == k - keep
  <1>7. ASSUME NEW i \in 1..j PROVE s[k - j + i] = top - (j - i + 1) * n
    <2> DEFINE l == keep + i
    <2>1. l \in (keep + 1)..k /\ k - j + i = l /\ k - l = j - i /\ j - i \in Nat
      BY <1>2, <1>3
    <2>2. s[l] = top - (k - l) * n - n
      BY <1>6, <2>1
    <2>3. (j - i + 1) * n = (j - i) * n + n /\ (j - i) * n \in Nat
      BY <1>2, <2>1, Times
    <2> DEFINE y == (j - i) * n
    <2>4. s[l] = top - y - n
      BY <2>1, <2>2, Zenon
    <2>5. (j - i + 1) * n = y + n /\ y \in Nat
      BY <2>3
    <2> HIDE DEF y, l, n
    <2>6. s[l] = top - (y + n)
      BY <1>2, <2>4, <2>5
    <2>7. s[l] = top - (j - i + 1) * n
      BY <2>5, <2>6, Zenon
    <2> QED BY <2>1, <2>7, Zenon
  <1> QED BY <1>7 DEF Topmost

\* Shrinking gives back the spare buckets behind keep and keeps every other as it was.
LEMMA Released ==
  ASSUME IInv, Sized(v), NEW keep \in arnm_bvec_bucket_count..bucket_count_allocated,
         shrink_stops_at(keep), NEW s, s = after_release(keep)
  PROVE  /\ Good(s.v, s.memory, s.held, others, s.cells) /\ Sized(s.v)
         /\ s.v.size = v.size /\ s.v.index = v.index
         /\ s.v.bucket_capacity = v.bucket_capacity /\ s.v.allocated_count = keep
         /\ s.v.log2 = v.log2 /\ s.v.element_size = v.element_size
         /\ s.memory.type = memory.type
         /\ \A i \in 1..keep : /\ s.v.slots[i] = v.slots[i]
                               /\ s.cells[v.slots[i]] = cells[v.slots[i]]
  <1> DEFINE k == v.allocated_count
             n == Charge(v)
             top == memory.last_index
             ix == v.index
             c == v.bucket_capacity
             gone == Spares(v.slots, keep, k)
             d == s.v
             f == s.cells
             j == k - keep
  <1>1. /\ Good(v, memory, held, others, cells) /\ Shape(v) /\ MemoryOK(memory)
        /\ Owns(memory, held, ix, c, v.slots, k, n, others)
        /\ bucket_count_allocated = k
        /\ arnm_bvec_bucket_count = Count(v) /\ bucket_bytes = Bytes(v)
    BY Reads, Initialised, StateTyped DEF IInv, Good
  <1>2. k \in Nat /\ Count(v) \in 0..k /\ n \in Nat \ {0} /\ arnm_align8_u32(bucket_bytes) = n
    BY <1>1, InUse, Fields, Sizes DEF Shape, Charge
  <1>3. keep \in Nat /\ keep <= k /\ keep \in Count(v)..k /\ keep \in 0..k
    BY <1>1, <1>2
  <1>4. /\ d = WithoutSpares(v, keep)
        /\ f = Without(cells, gone)
        /\ s.held = held \ gone
        /\ s.memory = IF behind_arena THEN bump(memory, -(j * n)) ELSE memory
    <2> HIDE DEF k, n
    <2> QED BY <1>1, <1>2 DEF after_release, k, WithoutSpares, Without, Spares
  <1> HIDE DEF d, f
  <1>5. /\ Shape(d) /\ Sized(d) /\ d.size = v.size /\ d.index = v.index
        /\ d.bucket_capacity = v.bucket_capacity /\ d.allocated_count = keep
        /\ d.log2 = v.log2 /\ d.element_size = v.element_size
        /\ SameSlots(d, v, keep)
    BY <1>1, <1>3, <1>4, SlotsCut
  <1>6. Cap(d) = Cap(v) /\ Charge(d) = n
    BY <1>5, SameSizes
  <1>7. CellsOK(d, f) /\ \A i \in 1..keep : f[v.slots[i]] = cells[v.slots[i]]
    BY <1>1, <1>3, <1>4, <1>5, <1>6, CellsCut
  <1>8. /\ MemoryOK(s.memory) /\ s.memory.type = memory.type
        /\ Owns(s.memory, s.held, ix, c, v.slots, keep, n, others)
    <2>1. CASE memory.type = HOST
      <3>1. s.memory = memory
        BY <1>4, <2>1 DEF behind_arena
      <3>2. HostOwns(held, ix, v.slots, k, others)
        BY <1>1, <2>1 DEF Owns
      <3>3. HostOwns(held \ gone, ix, v.slots, keep, others)
        <4> DEFINE t == v.slots
        <4>1. HostOwns(held, ix, t, k, others) /\ gone = Spares(t, keep, k)
          BY <3>2
        <4> HIDE DEF t, k, gone, ix
        <4>2. HostOwns(held \ Spares(t, keep, k), ix, t, keep, others)
          BY <1>2, <1>3, <4>1, HostReturns
        <4>3. HostOwns(held \ gone, ix, t, keep, others)
          BY <4>1, <4>2, Zenon
        <4> QED BY <4>3 DEF t
      <3> QED BY <1>1, <1>4, <2>1, <3>1, <3>3 DEF Owns
    <2>2. CASE memory.type # HOST
      <3>1. behind_arena
        BY <2>2 DEF behind_arena
      <3>2. Topmost(v.slots, k, j, top, n)
        BY <3>1, SpareOnTop
      <3>3. /\ ArenaOwns(top, ix, index_bytes(c), v.slots, k, n, others)
            /\ memory \in Memories /\ top \in Nat /\ memory.capacity \in Nat
            /\ top <= memory.capacity
        BY <1>1, <2>2 DEF Owns, MemoryOK, Memories
      <3>4. index_bytes(c) \in Nat /\ (ix # NULL => index_bytes(c) # 0)
        BY <1>1, WidthsHeld
      <3> DEFINE w == IF ix = NULL THEN 8 ELSE index_bytes(c)
                 t == v.slots
      <3>5. ArenaOwns(top, ix, w, t, k, n, others) /\ w \in Nat \ {0}
        BY <3>3, <3>4 DEF ArenaOwns
      <3>6. j \in 0..k /\ k - j = keep
        BY <1>2, <1>3
      <3>7. Topmost(t, k, j, top, n)
        BY <3>2
      <3> HIDE DEF w, t, j, k, n, ix, top
      <3>8. /\ top - j * n \in Nat
            /\ ArenaOwns(top - j * n, ix, w, t, k - j, n, others)
        BY <1>2, <3>3, <3>5, <3>6, <3>7, Unwound
      <3> DEFINE y == j * n
      <3>9. y \in Nat
        <4>1. j \in Nat
          BY <3>6, <1>2
        <4> QED BY <1>2, <4>1, Times
      <3> HIDE DEF y
      <3>10. top - y \in Nat /\ ArenaOwns(top - y, ix, w, t, keep, n, others)
        BY <3>6, <3>8, Zenon DEF y
      <3>11. s.memory = bump(memory, -y)
        BY <1>4, <3>1 DEF y
      <3>12. memory.last_index + (-y) \in Nat /\ -y \in Int
        BY <3>3, <3>9, <3>10 DEF top
      <3> DEFINE x == -y
      <3>13. x \in Int /\ memory.last_index + x \in Nat /\ s.memory = bump(memory, x)
             /\ memory.last_index + x = top - y
        BY <3>3, <3>9, <3>11, <3>12 DEF top
      <3> HIDE DEF x
      <3>14. /\ s.memory \in Memories /\ s.memory.last_index = top - y
             /\ s.memory.capacity = memory.capacity /\ s.memory.type = memory.type
             /\ s.memory.data = memory.data
        BY <3>3, <3>13, Bumped
      <3>15. MemoryOK(s.memory)
        BY <1>1, <3>3, <3>9, <3>10, <3>14 DEF MemoryOK
      <3>16. ArenaOwns(s.memory.last_index, ix, index_bytes(c), t, keep, n, others)
        <4>1. ArenaOwns(s.memory.last_index, ix, w, t, keep, n, others)
          BY <3>10, <3>14, Zenon
        <4> QED BY <4>1 DEF ArenaOwns, w
      <3> QED BY <2>2, <3>14, <3>15, <3>16 DEF Owns, t
    <2> QED BY <2>1, <2>2
  <1>9. Owns(s.memory, s.held, ix, c, d.slots, keep, n, others)
    <2> DEFINE t == d.slots
               u == v.slots
    <2>1. \A i \in 1..keep : t[i] = u[i]
      BY <1>5 DEF SameSlots
    <2>2. Owns(s.memory, s.held, ix, c, u, keep, n, others)
      BY <1>8
    <2> HIDE DEF t, u
    <2>3. Owns(s.memory, s.held, ix, c, t, keep, n, others)
      BY <1>3, <2>1, <2>2, OwnsPrefix
    <2> QED BY <2>3 DEF t
  <1>10. Owns(s.memory, s.held, d.index, d.bucket_capacity, d.slots, d.allocated_count,
              Charge(d), others)
    BY <1>5, <1>6, <1>9, Zenon
  <1>11. Good(d, s.memory, s.held, others, f)
    BY <1>5, <1>7, <1>8, <1>10 DEF Good
  <1> QED BY <1>5, <1>7, <1>8, <1>11 DEF d, f, SameSlots

\* An index array given back when no bucket is left.
LEMMA IndexReturned ==
  ASSUME NEW m, NEW h, NEW ix, NEW c \in Nat \ {0}, NEW s, NEW n \in Nat \ {0}, NEW O,
         MemoryOK(m), Owns(m, h, ix, c, s, 0, n, O), ix # NULL,
         c <= ARNM_BVEC_MAX_INDEX_CAPACITY,
         NEW g, g = given_back(m, h, ix, index_bytes(c))
  PROVE  /\ ~g.ok => g.memory = m /\ g.held = h
         /\ g.ok => /\ MemoryOK(g.memory) /\ Owns(g.memory, g.held, NULL, 0, << >>, 0, n, O)
                    /\ m.type # HOST => g.memory.last_index = ix
  <1> DEFINE w == index_bytes(c)
  <1>1. w \in Nat \ {0} /\ arnm_align8_u32(w) = w
    BY IndexCharged
  <1>2. g = given_back(m, h, ix, w)
    OBVIOUS
  <1>3. Owns(m, h, ix, c, s, 0, n, O) /\ index_bytes(0) = 0 /\ index_bytes(c) = w
    BY DEF index_bytes
  <1> HIDE DEF w
  <1>4. CASE m.type = HOST
    <2>1. g.ok /\ g.memory = m /\ g.held = h \ {ix}
      BY <1>2, <1>4 DEF given_back
    <2>2. O = {} /\ h = {s[i] : i \in 1..0} \cup ({ix} \ {NULL})
      BY <1>3, <1>4 DEF Owns, HostOwns
    <2>3. h \ {ix} = {}
      BY <2>2
    <2>4. HostOwns({}, NULL, << >>, 0, O)
      BY <2>2 DEF HostOwns
    <2>5. Owns(g.memory, g.held, NULL, 0, << >>, 0, n, O)
      BY <1>4, <2>1, <2>3, <2>4, Zenon DEF Owns
    <2> QED BY <1>4, <2>1, <2>5
  <1>5. CASE m.type # HOST /\ ~at_tail(m, ix, w)
    BY <1>2, <1>5 DEF given_back
  <1>6. CASE m.type # HOST /\ at_tail(m, ix, w)
    <2> DEFINE top == m.last_index
               x == -w
    <2>1. g.ok /\ g.memory = bump(m, x) /\ g.held = h
      BY <1>1, <1>2, <1>6 DEF given_back
    <2>2. top - w = ix
      BY <1>1, <1>6, TailIs
    <2>3. /\ m \in Memories /\ top \in Nat /\ m.capacity \in Nat /\ top <= m.capacity
      BY DEF MemoryOK, Memories
    <2>4. ArenaOwns(top, ix, w, s, 0, n, O)
      BY <1>3, <1>6, Zenon DEF Owns
    <2>5. ix \in Nat
      BY <2>4 DEF ArenaOwns
    <2>6. x \in Int /\ m.last_index + x = ix /\ ix <= m.capacity /\ ix = ix + 0
      BY <1>1, <2>2, <2>3, <2>5
    <2> HIDE DEF x
    <2>7. /\ g.memory \in Memories /\ g.memory.last_index = ix
          /\ g.memory.capacity = m.capacity /\ g.memory.type = m.type
          /\ g.memory.data = m.data
      <3>1. m \in Memories /\ x \in Int /\ m.last_index + x \in Nat
        BY <2>3, <2>5, <2>6
      <3>2. /\ bump(m, x) \in Memories /\ bump(m, x).last_index = m.last_index + x
            /\ bump(m, x).capacity = m.capacity
            /\ bump(m, x).type = m.type /\ bump(m, x).data = m.data
        BY <3>1, Bumped
      <3> QED BY <2>1, <2>6, <3>2, Zenon
    <2>8. MemoryOK(g.memory)
      BY <2>6, <2>7 DEF MemoryOK
    <2>9. ArenaOwns(ix, NULL, 0, s, 0, n, O)
      <3>1. 0 \in Nat /\ ix = top - w
        BY <2>2
      <3> HIDE DEF top
      <3> QED BY <1>1, <2>3, <2>4, <2>5, <2>6, <3>1, IndexAtTail
    <2>10. ArenaOwns(ix, NULL, 0, << >>, 0, n, O)
      <3>1. \A i \in 1..0 : FALSE
        OBVIOUS
      <3> QED BY <2>9, <3>1 DEF ArenaOwns
    <2>11. Owns(g.memory, g.held, NULL, 0, << >>, 0, n, O)
      BY <1>3, <1>6, <2>7, <2>10, Zenon DEF Owns
    <2> QED BY <2>1, <2>7, <2>8, <2>11
  <1> QED BY <1>4, <1>5, <1>6

\* A descriptor without one.
NoIndex(d) == [d EXCEPT !.index = NULL, !.bucket_capacity = 0, !.slots = << >>]

\* It names no block any more.
LEMMA IndexGone ==
  ASSUME NEW d, Shape(d), Sized(d), d.allocated_count = 0, NEW e, e = NoIndex(d)
  PROVE  /\ Shape(e) /\ Sized(e) /\ e.size = 0 /\ d.size = 0 /\ e.index = NULL
         /\ e.bucket_capacity = 0 /\ e.allocated_count = 0 /\ e.slots = << >>
         /\ e.log2 = d.log2 /\ e.element_size = d.element_size
  <1>1. d \in Descriptors /\ Counted(d) /\ NULL \notin Address
    <2>1. NULL \notin Address
      BY BvecAssumption DEF Address
    <2> QED BY <2>1, TailOpen DEF Shape
  <1>2. d.size = 0
    <2>1. Count(d) \in 0..0
      BY InUse
    <2>2. d.size # 0 => Count(d) = d.tail_index + 1 /\ d.tail_index \in Nat
      BY <1>1, TailOpen, Fields
    <2> QED BY <2>1, <2>2
  <1>3. /\ e.index = NULL /\ e.bucket_capacity = 0 /\ e.slots = << >>
        /\ e.element_size = d.element_size /\ e.tail_index = d.tail_index
        /\ e.tail_used = d.tail_used /\ e.tail = d.tail /\ e.size = d.size
        /\ e.log2 = d.log2 /\ e.step = d.step /\ e.allocated_count = 0
    BY <1>1 DEF Descriptors, NoIndex
  <1>4. e \in Descriptors
    <2>1. << >> \in Seq(Address \cup {NULL})
      OBVIOUS
    <2> QED BY <1>1, <2>1 DEF Descriptors, NoIndex
  <1>5. Indexed(e)
    BY <1>3, Widths DEF Indexed
  <1>6. Sized(e) /\ Cap(e) = Cap(d)
    BY <1>3 DEF Sized, Cap
  <1>7. Counted(e)
    BY <1>1, <1>2, <1>3, <1>6 DEF Counted
  <1> QED BY <1>2, <1>3, <1>4, <1>5, <1>6, <1>7 DEF Shape

\* What shrink leaves is what it keeps.
LEMMA Tightened ==
  ASSUME IInv, Sized(v), NEW keep \in Nat, Count(v) <= keep,
         NEW d, NEW c, d.size = v.size, d.log2 = v.log2, SameSlots(d, v, keep),
         \A i \in 1..keep : c[v.slots[i]] = cells[v.slots[i]],
         v' = d, cells' = c, out' = out, result' \in Results,
         Good(d, memory', held', others', c)
  PROVE  Outcome
  <1>1. IInv'
    BY DEF IInv
  <1>2. Count(v) \in Nat
    BY StateTyped, InUse, Fields
  <1>3. \A i \in 1..Count(v) : i \in 1..keep
    BY <1>2
  <1>4. Agrees(v, cells, v', cells', {})
    BY <1>3 DEF Agrees, SameSlots
  <1> QED BY <1>1, <1>4, StepOfRoom

\* The index array gone with the last bucket.
LEMMA IndexDropped ==
  ASSUME NEW d, NEW m, NEW h, NEW O, NEW c, Good(d, m, h, O, c), Sized(d),
         d.allocated_count = 0, d.index # NULL,
         NEW g, g = given_back(m, h, d.index, index_bytes(d.bucket_capacity)),
         NEW e, e = NoIndex(d)
  PROVE  /\ ~g.ok => g.memory = m /\ g.held = h
         /\ g.ok => /\ Good(e, g.memory, g.held, O, c) /\ e.size = 0
                    /\ m.type # HOST => g.memory.last_index = d.index
  <1> DEFINE b == d.bucket_capacity
             ix == d.index
             s == d.slots
             n == Charge(d)
  <1>1. Shape(d) /\ MemoryOK(m) /\ CellsOK(d, c) /\ Owns(m, h, ix, b, s, 0, n, O)
    BY DEF Good
  <1>2. b \in Nat \ {0} /\ b <= ARNM_BVEC_MAX_INDEX_CAPACITY /\ n \in Nat \ {0}
    BY <1>1, Fields, Sizes DEF Shape, Indexed
  <1>3. g = given_back(m, h, ix, index_bytes(b)) /\ ix # NULL
    OBVIOUS
  <1>4. /\ Shape(e) /\ e.size = 0 /\ e.index = NULL
        /\ e.bucket_capacity = 0 /\ e.allocated_count = 0 /\ e.slots = << >>
        /\ e.log2 = d.log2 /\ e.element_size = d.element_size
    BY <1>1, IndexGone
  <1> HIDE DEF b, s, n
  <1>5. /\ ~g.ok => g.memory = m /\ g.held = h
        /\ g.ok => /\ MemoryOK(g.memory) /\ Owns(g.memory, g.held, NULL, 0, << >>, 0, n, O)
                   /\ m.type # HOST => g.memory.last_index = ix
    <2> HIDE DEF ix
    <2> QED BY <1>1, <1>2, <1>3, IndexReturned
  <1>6. Charge(e) = n /\ Cap(e) = Cap(d)
    BY <1>4, SameSizes DEF n
  <1>7. CellsOK(e, c)
    <2>1. Buckets(e) = Buckets(d)
      BY <1>4 DEF Buckets
    <2> QED BY <1>1, <1>6, <2>1 DEF CellsOK
  <1>8. ASSUME g.ok PROVE Good(e, g.memory, g.held, O, c)
    <2>1. Owns(g.memory, g.held, e.index, e.bucket_capacity, e.slots, e.allocated_count,
               Charge(e), O)
      BY <1>4, <1>5, <1>6, <1>8, Zenon
    <2> QED BY <1>4, <1>5, <1>7, <1>8, <2>1 DEF Good
  <1> QED BY <1>4, <1>5, <1>8

\* The index array cut down to the buckets that are left, where the allocator can.
LEMMA IndexTightened ==
  ASSUME NEW d, NEW m, NEW h, NEW O, NEW c, Good(d, m, h, O, c), Sized(d),
         NEW keep \in Nat \ {0}, d.allocated_count = keep, keep # d.bucket_capacity,
         NEW o \in resized(m, h, d.index, index_bytes(d.bucket_capacity), index_bytes(keep)),
         NEW e, e = IF o.result = SUCCESS THEN CutTo(d, o.at, keep) ELSE d
  PROVE  /\ Good(e, o.memory, o.held, O, c) /\ e.size = d.size /\ e.log2 = d.log2
         /\ SameSlots(e, d, keep) /\ e.index # NULL
  <1> DEFINE b == d.bucket_capacity
             ix == d.index
             s == d.slots
             n == Charge(d)
  <1>1. Shape(d) /\ MemoryOK(m) /\ CellsOK(d, c) /\ Owns(m, h, ix, b, s, keep, n, O)
    BY DEF Good
  <1>2. /\ b \in Nat \ {0} /\ b <= ARNM_BVEC_MAX_INDEX_CAPACITY /\ n \in Nat \ {0}
        /\ ix \in Address \cup {NULL} /\ ix # NULL /\ (ix = NULL <=> b = 0)
        /\ keep < b /\ keep <= ARNM_BVEC_MAX_INDEX_CAPACITY /\ b # keep
    BY <1>1, Fields, Sizes, Widths DEF Shape, Indexed
  <1>3. o \in resized(m, h, ix, index_bytes(b), index_bytes(keep))
    OBVIOUS
  <1> DEFINE r == o.result
  <1>4. /\ r \in {SUCCESS, NOT_RECLAIMED, OUT_OF_MEMORY}
        /\ MemoryOK(o.memory) /\ o.memory.type = m.type
        /\ r = OUT_OF_MEMORY => o.memory = m /\ o.held = h
        /\ r = NOT_RECLAIMED /\ keep < b => o.memory = m /\ o.held = h
        /\ r = SUCCESS \/ (r = NOT_RECLAIMED /\ b < keep) =>
              o.at \in Address /\ Owns(o.memory, o.held, o.at, keep, s, keep, n, O)
    <2> HIDE DEF b, ix, s, n, r
    <2> QED BY <1>1, <1>2, <1>3, Resized DEF r
  <1>5. CASE r # SUCCESS
    <2>1. e = d
      BY <1>5
    <2>2. o.memory = m /\ o.held = h
      BY <1>2, <1>4, <1>5
    <2>3. SameSlots(e, d, keep)
      BY <2>1 DEF SameSlots
    <2> QED BY <1>2, <2>1, <2>2, <2>3
  <1>6. CASE r = SUCCESS
    <2> DEFINE at == o.at
    <2>1. at \in Address /\ Owns(o.memory, o.held, at, keep, s, keep, n, O)
      BY <1>4, <1>6
    <2>2. e = CutTo(d, at, keep)
      BY <1>6
    <2> HIDE DEF at
    <2>3. /\ Shape(e) /\ Sized(e) /\ e.size = d.size /\ e.index = at
          /\ e.bucket_capacity = keep /\ e.allocated_count = keep
          /\ e.log2 = d.log2 /\ e.element_size = d.element_size
          /\ \A i \in 1..keep : e.slots[i] = d.slots[i]
      BY <1>1, <2>1, <2>2, IndexCut
    <2>4. Charge(e) = n /\ Cap(e) = Cap(d)
      BY <2>3, SameSizes
    <2> DEFINE t == e.slots
    <2>5. \A i \in 1..keep : t[i] = s[i]
      BY <2>3
    <2> HIDE DEF t, s, n
    <2>6. Owns(o.memory, o.held, at, keep, t, keep, n, O)
      BY <2>1, <2>5, OwnsPrefix
    <2>7. Owns(o.memory, o.held, e.index, e.bucket_capacity, e.slots, e.allocated_count,
               Charge(e), O)
      BY <2>3, <2>4, <2>6, Zenon DEF t
    <2>8. CellsOK(e, c)
      <3>1. Buckets(e) = Buckets(d)
        BY <2>3, <2>5 DEF Buckets, t, s
      <3> QED BY <1>1, <2>4, <3>1 DEF CellsOK
    <2>9. e.index # NULL
      BY <2>1, <2>3, BvecAssumption DEF Address
    <2> QED BY <1>4, <2>3, <2>7, <2>8, <2>9 DEF Good, SameSlots
  <1> QED BY <1>5, <1>6

\* What the last part of shrink does with the index array, once keep buckets are left.
IndexTrimmed(s, keep) ==
  \/ /\ keep = 0
     /\ LET f == given_back(s.memory, s.held, v.index, index_bytes(v.bucket_capacity)) IN
        /\ memory' = f.memory /\ held' = f.held
        /\ v' = IF f.ok THEN NoIndex(s.v) ELSE s.v
  \/ /\ keep # 0 /\ keep = v.bucket_capacity
     /\ memory' = s.memory /\ held' = s.held /\ v' = s.v
  \/ /\ keep # 0 /\ keep # v.bucket_capacity
     /\ \E o \in resized(s.memory, s.held, v.index, index_bytes(v.bucket_capacity),
                         index_bytes(keep)) :
          /\ memory' = o.memory /\ held' = o.held
          /\ v' = IF o.result = SUCCESS THEN CutTo(s.v, o.at, keep) ELSE s.v

\* The action of the module, in these words.
LEMMA ShrinkIs ==
  ASSUME arnm_bvec_shrink, ~(v.index = NULL \/ ~is_state_valid)
  PROVE  \E keep \in arnm_bvec_bucket_count..bucket_count_allocated :
           /\ shrink_stops_at(keep) /\ cells' = after_release(keep).cells
           /\ IndexTrimmed(after_release(keep), keep)
           /\ result' \in Results /\ UNCHANGED <<others, out>>
  <1>1. PICK keep \in arnm_bvec_bucket_count..bucket_count_allocated :
          LET s == after_release(keep)
              f == given_back(s.memory, s.held, v.index, index_bytes(v.bucket_capacity)) IN
          /\ shrink_stops_at(keep)
          /\ cells' = s.cells
          /\ \/ /\ keep = 0 /\ memory' = f.memory /\ held' = f.held
                /\ v' = IF f.ok THEN [s.v EXCEPT !.index = NULL, !.bucket_capacity = 0,
                                                 !.slots = << >>] ELSE s.v
                /\ result' = SUCCESS
             \/ /\ keep # 0 /\ keep = v.bucket_capacity
                /\ memory' = s.memory /\ held' = s.held /\ v' = s.v
                /\ result' = SUCCESS
             \/ /\ keep # 0 /\ keep # v.bucket_capacity
                /\ \E o \in resized(s.memory, s.held, v.index, index_bytes(v.bucket_capacity),
                                    index_bytes(keep)) :
                     /\ memory' = o.memory /\ held' = o.held
                     /\ v' = IF o.result = SUCCESS
                             THEN [s.v EXCEPT !.index = o.at, !.bucket_capacity = keep,
                                              !.slots = SubSeq(@, 1, keep)]
                             ELSE s.v
                     /\ result' = IF o.result = OUT_OF_MEMORY THEN OUT_OF_MEMORY ELSE SUCCESS
    BY DEF arnm_bvec_shrink
  <1>2. UNCHANGED <<others, out>>
    BY DEF arnm_bvec_shrink
  <1> DEFINE s == after_release(keep)
             f == given_back(s.memory, s.held, v.index, index_bytes(v.bucket_capacity))
  <1>3. shrink_stops_at(keep) /\ cells' = s.cells
    BY <1>1
  <1>4. SUCCESS \in Results /\ OUT_OF_MEMORY \in Results
    BY ResultsDiffer
  <1>5. IndexTrimmed(s, keep) /\ result' \in Results
    <2>1. CASE /\ keep = 0 /\ memory' = f.memory /\ held' = f.held
               /\ v' = IF f.ok THEN [s.v EXCEPT !.index = NULL, !.bucket_capacity = 0,
                                                !.slots = << >>] ELSE s.v
               /\ result' = SUCCESS
      <3>1. v' = IF f.ok THEN NoIndex(s.v) ELSE s.v
        BY <2>1, Zenon DEF NoIndex
      <3> QED BY <1>4, <2>1, <3>1, Zenon DEF IndexTrimmed
    <2>2. CASE /\ keep # 0 /\ keep = v.bucket_capacity
               /\ memory' = s.memory /\ held' = s.held /\ v' = s.v
               /\ result' = SUCCESS
      BY <1>4, <2>2, Zenon DEF IndexTrimmed
    <2>3. CASE /\ keep # 0 /\ keep # v.bucket_capacity
               /\ \E o \in resized(s.memory, s.held, v.index, index_bytes(v.bucket_capacity),
                                   index_bytes(keep)) :
                     /\ memory' = o.memory /\ held' = o.held
                     /\ v' = IF o.result = SUCCESS
                             THEN [s.v EXCEPT !.index = o.at, !.bucket_capacity = keep,
                                              !.slots = SubSeq(@, 1, keep)]
                             ELSE s.v
                     /\ result' = IF o.result = OUT_OF_MEMORY THEN OUT_OF_MEMORY ELSE SUCCESS
      <3>1. PICK o \in resized(s.memory, s.held, v.index, index_bytes(v.bucket_capacity),
                               index_bytes(keep)) :
                     /\ memory' = o.memory /\ held' = o.held
                     /\ v' = IF o.result = SUCCESS
                             THEN [s.v EXCEPT !.index = o.at, !.bucket_capacity = keep,
                                              !.slots = SubSeq(@, 1, keep)]
                             ELSE s.v
                     /\ result' = IF o.result = OUT_OF_MEMORY THEN OUT_OF_MEMORY ELSE SUCCESS
        BY <2>3
      <3>2. v' = IF o.result = SUCCESS THEN CutTo(s.v, o.at, keep) ELSE s.v
        BY <3>1, Zenon DEF CutTo
      <3>3. result' \in Results
        BY <1>4, <3>1, Zenon
      <3>4. /\ keep # 0 /\ keep # v.bucket_capacity
            /\ memory' = o.memory /\ held' = o.held
        BY <2>3, <3>1
      <3> QED BY <3>2, <3>3, <3>4, Zenon DEF IndexTrimmed
    <2> HIDE DEF s, f
    <2> QED BY <1>1, <2>1, <2>2, <2>3, Zenon DEF s, f
  <1> QED BY <1>2, <1>3, <1>5, Zenon DEF s

\* arnm_bvec_shrink; and an index array it gives back leaves the arena's end there.
LEMMA ShrinkStep ==
  ASSUME IInv, arnm_bvec_shrink
  PROVE  /\ Outcome
         /\ behind_arena /\ v.index # NULL /\ v'.index = NULL => memory'.last_index = v.index
  <1>1. CASE v.index = NULL \/ ~is_state_valid
    <2> DEFINE r == IF v.index = NULL THEN SUCCESS ELSE INVALID_STATE
    <2>1. Refuse(r) /\ r \in Results
      BY <1>1, ResultsDiffer DEF arnm_bvec_shrink
    <2> HIDE DEF r
    <2>2. Outcome
      BY <2>1, RefuseStep
    <2>3. v' = v
      BY <2>1 DEF Refuse
    <2> QED BY <2>2, <2>3
  <1>2. CASE ~(v.index = NULL \/ ~is_state_valid)
    <2>1. PICK keep \in arnm_bvec_bucket_count..bucket_count_allocated :
           /\ shrink_stops_at(keep) /\ cells' = after_release(keep).cells
           /\ IndexTrimmed(after_release(keep), keep)
           /\ result' \in Results /\ UNCHANGED <<others, out>>
      BY <1>2, ShrinkIs
    <2> DEFINE s == after_release(keep)
               k == bucket_count_allocated
               d == s.v
               m == s.memory
               h == s.held
               c == s.cells
    <2>2. Sized(v) /\ v.index # NULL /\ Shape(v) /\ v.size \in Nat
      BY <1>2, Initialised, StateTyped
    <2>3. /\ cells' = c /\ IndexTrimmed(s, keep) /\ result' \in Results
          /\ others' = others /\ out' = out
      BY <2>1
    <2>4. Good(d, m, h, others, c) /\ Sized(d)
      BY <2>1, <2>2, Released
    <2>5. /\ d.size = v.size /\ d.index = v.index
          /\ d.bucket_capacity = v.bucket_capacity /\ d.allocated_count = keep
          /\ d.log2 = v.log2
      BY <2>1, <2>2, Released
    <2>6. m.type = memory.type
      BY <2>1, <2>2, Released
    <2>7. \A i \in 1..keep : d.slots[i] = v.slots[i] /\ c[v.slots[i]] = cells[v.slots[i]]
      BY <2>1, <2>2, Released
    <2>8. keep \in Nat /\ Count(v) <= keep
      <3>1. /\ Count(v) \in 0..v.allocated_count /\ v.allocated_count \in Nat
            /\ keep \in Count(v)..v.allocated_count
        BY <1>2, <2>2, Initialised, InUse, Fields
      <3> QED BY <3>1
    <2> HIDE DEF s, d, m, h, c
    <2>9. SameSlots(d, v, keep) /\ \A i \in 1..keep : c[v.slots[i]] = cells[v.slots[i]]
      BY <2>7 DEF SameSlots
    <2>10. out \in Seq(Values)
      BY DEF IInv
    <2>11. ASSUME v' = d, memory' = m, held' = h
           PROVE  Outcome /\ v'.index = v.index
      <3>1. Good(d, memory', held', others', c)
        BY <2>3, <2>4, <2>11
      <3>2. Outcome
        BY <2>2, <2>3, <2>5, <2>8, <2>9, <2>11, <3>1, Tightened
      <3> QED BY <2>5, <2>11, <3>2
    <2>12. CASE keep = 0
      <3> DEFINE g == given_back(m, h, d.index, index_bytes(d.bucket_capacity))
                 e == NoIndex(d)
      <3>1. memory' = g.memory /\ held' = g.held /\ v' = IF g.ok THEN e ELSE d
        BY <2>3, <2>5, <2>12, Zenon DEF IndexTrimmed, d, m, h
      <3>2. d.index # NULL /\ d.allocated_count = 0
        BY <2>2, <2>5, <2>12
      <3>3. /\ ~g.ok => g.memory = m /\ g.held = h
            /\ g.ok => /\ Good(e, g.memory, g.held, others, c) /\ e.size = 0
                       /\ m.type # HOST => g.memory.last_index = d.index
        <4>1. g = given_back(m, h, d.index, index_bytes(d.bucket_capacity)) /\ e = NoIndex(d)
          OBVIOUS
        <4> HIDE DEF g, e
        <4> QED BY <2>4, <3>2, <4>1, IndexDropped
      <3> HIDE DEF g, e
      <3>4. CASE ~g.ok
        BY <2>2, <2>11, <3>1, <3>3, <3>4
      <3>5. CASE g.ok
        <4>1. v' = e /\ memory' = g.memory /\ held' = g.held
          BY <3>1, <3>5
        <4>2. Good(v', memory', held', others', cells') /\ v'.size = 0
          BY <2>3, <3>3, <3>5, <4>1
        <4>3. IInv'
          BY <2>3, <2>10, <4>2 DEF IInv
        <4>4. Outcome
          BY <2>2, <2>3, <4>2, <4>3, StepOfEmpty
        <4>5. behind_arena => memory'.last_index = v.index
          BY <2>5, <2>6, <3>3, <3>5, <4>1 DEF behind_arena
        <4> QED BY <4>4, <4>5
      <3> QED BY <3>4, <3>5
    <2>13. CASE keep # 0 /\ keep = v.bucket_capacity
      <3>1. memory' = m /\ held' = h /\ v' = d
        BY <2>3, <2>13 DEF IndexTrimmed, d, m, h
      <3> QED BY <2>2, <2>11, <3>1
    <2>14. CASE keep # 0 /\ keep # v.bucket_capacity
      <3>1. PICK o \in resized(m, h, d.index, index_bytes(d.bucket_capacity),
                               index_bytes(keep)) :
              /\ memory' = o.memory /\ held' = o.held
              /\ v' = IF o.result = SUCCESS THEN CutTo(d, o.at, keep) ELSE d
        <4>1. \E o \in resized(m, h, v.index, index_bytes(v.bucket_capacity),
                               index_bytes(keep)) :
              /\ memory' = o.memory /\ held' = o.held
              /\ v' = IF o.result = SUCCESS THEN CutTo(d, o.at, keep) ELSE d
          BY <2>3, <2>14 DEF IndexTrimmed, d, m, h
        <4> QED BY <2>5, <4>1, Zenon
      <3> DEFINE e == IF o.result = SUCCESS THEN CutTo(d, o.at, keep) ELSE d
      <3>2. keep \in Nat \ {0} /\ d.allocated_count = keep /\ keep # d.bucket_capacity
        BY <2>5, <2>8, <2>14
      <3>3. v' = e /\ memory' = o.memory /\ held' = o.held
        BY <3>1
      <3>4. e = IF o.result = SUCCESS THEN CutTo(d, o.at, keep) ELSE d
        OBVIOUS
      <3> HIDE DEF e
      <3>5. /\ Good(e, o.memory, o.held, others, c) /\ e.size = d.size /\ e.log2 = d.log2
            /\ SameSlots(e, d, keep) /\ e.index # NULL
        BY <2>4, <3>1, <3>2, <3>4, IndexTightened
      <3>6. SameSlots(e, v, keep)
        BY <2>9, <3>5 DEF SameSlots
      <3>7. Good(e, memory', held', others', c)
        BY <2>3, <3>3, <3>5, Zenon
      <3>8. e.size = v.size /\ e.log2 = v.log2
        BY <2>5, <3>5
      <3>9. Outcome
        BY <2>2, <2>3, <2>8, <2>9, <3>3, <3>6, <3>7, <3>8, Tightened
      <3> QED BY <3>3, <3>5, <3>9
    <2> QED BY <2>12, <2>13, <2>14
  <1> QED BY <1>1, <1>2

-----------------------------------------------------------------------------
(* Giving everything back.                                                 *)

Start == [ok |-> TRUE, memory |-> memory, held |-> held]

\* A block offered to the allocator as the ones before it left it.
Back(g, b) == given_back(g.memory, g.held, b.at, b.bytes)

\* The library's fold is a recursive function of the sets of places.
IsFold(F, bs, n) ==
  /\ F = [s \in SUBSET (1..n) |-> F[s]]
  /\ F[{}] = Start
  /\ \A s \in SUBSET (1..n) : s # {} => F[s] = Back(F[s \ {Max(s)}], bs[Max(s)])

\* What offered computes, unfolded.
LEMMA OfferedUnfold ==
  ASSUME NEW bs
  PROVE  offered(bs) =
           (CHOOSE f : f = [s \in SUBSET (DOMAIN bs) |->
              IF s = {} THEN Start ELSE Back(f[s \ {Max(s)}], bs[Max(s)])])[DOMAIN bs]
  BY Zenon DEF offered, FoldLeft, MapThenFoldSet, Start, Back

\* The last place of a set of places that holds it.
LEMMA LastPlace ==
  ASSUME NEW n \in Nat, NEW s \in SUBSET (1..n), n \in s
  PROVE  Max(s) = n
  <1>1. n \in s /\ \A y \in s : n >= y
    OBVIOUS
  <1>2. Max(s) \in s /\ \A y \in s : Max(s) >= y
    BY <1>1 DEF Max
  <1> DEFINE x == Max(s)
  <1>3. x \in s /\ x >= n /\ n >= x
    BY <1>1, <1>2
  <1> HIDE DEF x
  <1>4. x \in Nat
    BY <1>3
  <1>5. x = n
    BY <1>3, <1>4
  <1> QED BY <1>5 DEF x

\* Such a function exists, for as many places as there are.
LEMMA FoldExists ==
  ASSUME NEW bs, NEW N \in Nat
  PROVE  \E F : IsFold(F, bs, N)
  <1> DEFINE P == {n \in Nat : \E F : IsFold(F, bs, n)}
  <1>1. 0 \in P
    <2> DEFINE F == [s \in SUBSET (1..0) |-> Start]
    <2>1. \A s \in SUBSET (1..0) : s = {}
      OBVIOUS
    <2>2. F[{}] = Start /\ F = [s \in SUBSET (1..0) |-> F[s]]
      OBVIOUS
    <2> HIDE DEF F
    <2>3. IsFold(F, bs, 0)
      BY <2>1, <2>2 DEF IsFold
    <2> QED BY <2>3
  <1>2. ASSUME NEW n \in P PROVE n + 1 \in P
    <2>1. n \in Nat /\ n + 1 \in Nat
      BY <1>2
    <2>2. PICK F : IsFold(F, bs, n)
      BY <1>2
    <2> DEFINE t == n + 1
               G == [s \in SUBSET (1..t) |->
                       IF t \in s THEN Back(F[s \ {t}], bs[t]) ELSE F[s]]
    <2>3. \A s \in SUBSET (1..t) : t \notin s => s \in SUBSET (1..n)
      BY <2>1
    <2>4. G = [s \in SUBSET (1..t) |-> G[s]] /\ t \notin {} /\ {} \in SUBSET (1..t)
      OBVIOUS
    <2>5. G[{}] = Start
      BY <2>2, <2>4 DEF IsFold
    <2>6. ASSUME NEW s \in SUBSET (1..t), s # {}
          PROVE  G[s] = Back(G[s \ {Max(s)}], bs[Max(s)])
      <3>1. CASE t \in s
        <4>1. Max(s) = t
          BY <2>1, <3>1, LastPlace
        <4>2. s \ {t} \in SUBSET (1..t) /\ t \notin s \ {t}
          OBVIOUS
        <4>3. G[s \ {t}] = F[s \ {t}] /\ G[s] = Back(F[s \ {t}], bs[t])
          BY <3>1, <4>2
        <4> HIDE DEF G, t
        <4> QED BY <4>1, <4>3, Zenon
      <3>2. CASE t \notin s
        <4> DEFINE x == Max(s)
        <4>1. /\ s \in SUBSET (1..n) /\ s \ {x} \in SUBSET (1..n) /\ t \notin s \ {x}
              /\ s \ {x} \in SUBSET (1..t)
          BY <2>3, <3>2
        <4>2. F[s] = Back(F[s \ {x}], bs[x])
          BY <2>2, <2>6, <4>1 DEF IsFold
        <4>3. G[s] = F[s] /\ G[s \ {x}] = F[s \ {x}]
          <5> HIDE DEF x
          <5> QED BY <3>2, <4>1
        <4> HIDE DEF G, t
        <4> QED BY <4>2, <4>3, Zenon
      <3> QED BY <3>1, <3>2
    <2>7. IsFold(G, bs, t)
      <3> HIDE DEF G, t
      <3> QED BY <2>4, <2>5, <2>6 DEF IsFold
    <2> HIDE DEF G
    <2> QED BY <2>1, <2>7
  <1>3. P = Nat
    <2> HIDE DEF P
    <2> QED BY <1>1, <1>2, NatSetInduction, P \in SUBSET Nat DEF P
  <1> QED BY <1>3

\* H[i] is what the first i offers leave.
Offers(H, bs, N) ==
  /\ H[0] = Start
  /\ \A i \in 1..N : H[i] = Back(H[i - 1], bs[i])
  /\ offered(bs) = H[N]

\* The fold offers the blocks one after the other.
LEMMA OfferedInTurn ==
  ASSUME NEW bs, NEW N \in Nat, DOMAIN bs = 1..N
  PROVE  \E H : Offers(H, bs, N)
  <1> DEFINE Step(f) == [s \in SUBSET (1..N) |->
                           IF s = {} THEN Start ELSE Back(f[s \ {Max(s)}], bs[Max(s)])]
             f == CHOOSE q : q = Step(q)
  <1>1. PICK F : IsFold(F, bs, N)
    BY FoldExists
  <1>2. F = Step(F)
    <2>1. \A s \in SUBSET (1..N) : F[s] = Step(F)[s]
      BY <1>1 DEF IsFold
    <2>2. F = [s \in SUBSET (1..N) |-> F[s]]
      BY <1>1, Zenon DEF IsFold
    <2>3. Step(F) = [s \in SUBSET (1..N) |-> Step(F)[s]]
      OBVIOUS
    <2> HIDE DEF Step
    <2> QED BY <2>1, <2>2, <2>3
  <1>3. f = Step(f)
    <2> HIDE DEF Step
    <2> QED BY <1>2
  <1>4. offered(bs) = f[1..N]
    BY OfferedUnfold
  <1> HIDE DEF f
  <1> DEFINE H == [i \in 0..N |-> f[1..i]]
  <1>5. H[0] = Start
    <2>1. 1..0 = {} /\ 0 \in 0..N
      OBVIOUS
    <2>2. f[{}] = Start
      BY <1>3
    <2> QED BY <2>1, <2>2
  <1>6. ASSUME NEW i \in 1..N PROVE H[i] = Back(H[i - 1], bs[i])
    <2> DEFINE s == 1..i
    <2>1. i \in Nat /\ s \in SUBSET (1..N) /\ s # {} /\ i \in s /\ s \in SUBSET (1..i)
      OBVIOUS
    <2>2. Max(s) = i
      <3> HIDE DEF s
      <3> QED BY <2>1, LastPlace
    <2>3. s \ {i} = 1..(i - 1)
      OBVIOUS
    <2>4. i \in 0..N /\ i - 1 \in 0..N
      OBVIOUS
    <2>5. H[i] = f[s] /\ H[i - 1] = f[1..(i - 1)]
      BY <2>4
    <2> HIDE DEF s, H
    <2>6. f[s] = Back(f[s \ {Max(s)}], bs[Max(s)])
      <3>1. f[s] = Step(f)[s]
        <4> HIDE DEF Step
        <4> QED BY <1>3
      <3> QED BY <2>1, <3>1
    <2> QED BY <2>2, <2>3, <2>5, <2>6, Zenon
  <1>7. H[N] = f[1..N]
    OBVIOUS
  <1>8. Offers(H, bs, N)
    <2> HIDE DEF H
    <2> QED BY <1>4, <1>5, <1>6, <1>7 DEF Offers
  <1> QED BY <1>8

\* The blocks that free offers, in its order: bs has a place for each.
Listed(bs, k) ==
  /\ DOMAIN bs = 1..(k + 1)
  /\ bs[k + 1] = [at |-> v.index, bytes |-> index_bytes(v.bucket_capacity)]
  /\ \A i \in 1..k : bs[i] = [at |-> v.slots[IF behind_arena THEN k - i + 1 ELSE i],
                              bytes |-> bucket_bytes]

\* arnm_bvec_free offers the buckets newest first to an arena, oldest first to the host; the index last.
LEMMA FreeOrder ==
  ASSUME IInv, v.index # NULL, NEW bs,
         bs = Append(release_order, [at |-> v.index, bytes |-> index_bytes(v.bucket_capacity)])
  PROVE  Listed(bs, v.allocated_count)
  <1> DEFINE k == v.allocated_count
             q == [at |-> v.index, bytes |-> index_bytes(v.bucket_capacity)]
             item(i) == [at |-> v.slots[i], bytes |-> bucket_bytes]
             r == [i \in 1..k |-> item(IF behind_arena THEN k - i + 1 ELSE i)]
  <1>1. bucket_count_allocated = k /\ k \in Nat
    BY Initialised, StateTyped, Fields
  <1>2. held_buckets = [i \in 1..k |-> item(i)]
    BY <1>1 DEF held_buckets
  <1> HIDE DEF k, item
  <1>3. release_order = r
    <2>1. CASE behind_arena
      <3> DEFINE hb == [i \in 1..k |-> item(i)]
      <3>1. Len(hb) = k
        BY <1>1
      <3>2. release_order = [i \in 1..k |-> hb[(k - i) + 1]]
        <4>1. release_order = Reverse(hb)
          BY <1>2, <2>1, Zenon DEF release_order
        <4> HIDE DEF hb
        <4>2. Reverse(hb) = [i \in 1..Len(hb) |-> hb[(Len(hb) - i) + 1]]
          BY Zenon DEF Reverse
        <4> QED BY <3>1, <4>1, <4>2, Zenon
      <3>3. ASSUME NEW i \in 1..k PROVE hb[(k - i) + 1] = item(k - i + 1)
        <4>1. (k - i) + 1 \in 1..k
          BY <1>1
        <4> QED BY <4>1
      <3> HIDE DEF hb
      <3>4. release_order = [i \in 1..k |-> item(k - i + 1)]
        BY <3>2, <3>3
      <3> QED BY <2>1, <3>4
    <2>2. CASE ~behind_arena
      BY <1>2, <2>2 DEF release_order
    <2> QED BY <2>1, <2>2
  <1>4. bs = Append(r, q)
    BY <1>3
  <1>5. ASSUME NEW i \in 1..k PROVE (IF behind_arena THEN k - i + 1 ELSE i) \in 1..k
    BY <1>1
  <1> DEFINE S == {item(i) : i \in 1..k} \cup {q}
  <1>6. r \in Seq(S) /\ Len(r) = k /\ q \in S
    <2>1. r \in [1..k -> S]
      BY <1>5
    <2> HIDE DEF r, q, S
    <2>2. r \in Seq(S) /\ Len(r) = k
      BY <1>1, <2>1
    <2> QED BY <2>2 DEF S
  <1>7. ASSUME NEW i \in 1..k PROVE r[i] = item(IF behind_arena THEN k - i + 1 ELSE i)
    OBVIOUS
  <1> HIDE DEF r, S
  <1>8. DOMAIN bs = 1..(k + 1) /\ bs[k + 1] = q /\ \A i \in 1..k : bs[i] = r[i]
    <2> HIDE DEF q
    <2> QED BY <1>1, <1>4, <1>6
  <1>9. \A i \in 1..k : bs[i] = item(IF behind_arena THEN k - i + 1 ELSE i)
    BY <1>7, <1>8
  <1>10. Listed(bs, k)
    BY <1>8, <1>9, Zenon DEF Listed, item
  <1> QED BY <1>10 DEF k

\* An arena whose neighbour's blocks O lie below its end.
Below(g, O) ==
  /\ MemoryOK(g.memory) /\ g.memory.type # HOST
  /\ \A a \in O : a \in Nat /\ a + 8 <= g.memory.last_index

\* A block that shares nothing with them.
Clear(b, O) ==
  /\ b.at \in Nat /\ arnm_align8_u32(b.bytes) \in Nat \ {0}
  /\ \A a \in O : Apart(a, 8, b.at, arnm_align8_u32(b.bytes))

\* A block offered to the arena uncovers none of the neighbour's.
LEMMA OfferedToArena ==
  ASSUME NEW g, NEW O, Below(g, O), NEW b, Clear(b, O), NEW r, r = Back(g, b)
  PROVE  /\ Below(r, O)
         /\ g.memory.last_index = b.at + arnm_align8_u32(b.bytes) => r.memory.last_index = b.at
  <1> DEFINE m == g.memory
             n == arnm_align8_u32(b.bytes)
             at == b.at
             x == -n
  <1>1. /\ m \in Memories /\ m.last_index \in Nat /\ m.capacity \in Nat /\ MemoryOK(m)
        /\ m.last_index <= m.capacity /\ m.type # HOST
        /\ at \in Nat /\ n \in Nat \ {0}
    BY DEF Below, Clear, MemoryOK, Memories
  <1>2. at_tail(m, at, b.bytes) <=> m.last_index - n = at
    <2>1. at_tail(m, at, b.bytes) <=> n # 0 /\ m.last_index - n = at
      <3> DEFINE y == b.bytes
      <3> HIDE DEF m, at, y
      <3>1. at_tail(m, at, y) <=> arnm_align8_u32(y) # 0 /\ m.last_index - arnm_align8_u32(y) = at
        BY <1>1, TailIs
      <3> QED BY <3>1 DEF y
    <2> QED BY <1>1, <2>1
  <1>3. r = given_back(m, g.held, at, b.bytes)
    BY DEF Back
  <1>4. CASE ~at_tail(m, at, b.bytes)
    <2>1. r.memory = m
      BY <1>1, <1>3, <1>4 DEF given_back
    <2>2. m.last_index # at + n
      BY <1>1, <1>2, <1>4
    <2> QED BY <2>1, <2>2 DEF Below
  <1>5. CASE at_tail(m, at, b.bytes)
    <2>1. r.memory = bump(m, x)
      BY <1>1, <1>3, <1>5 DEF given_back
    <2>2. x \in Int /\ m.last_index + x = at /\ m.last_index - n = at
      BY <1>1, <1>2, <1>5
    <2>3. \A a \in O : a \in Nat /\ a + 8 <= m.last_index /\ Apart(a, 8, at, n)
      BY DEF Below, Clear
    <2> HIDE DEF x, m, n, at
    <2>4. /\ bump(m, x) \in Memories /\ bump(m, x).last_index = m.last_index + x
          /\ bump(m, x).capacity = m.capacity
          /\ bump(m, x).type = m.type /\ bump(m, x).data = m.data
      BY <1>1, <2>2, Bumped
    <2>5. /\ r.memory \in Memories /\ r.memory.last_index = at /\ r.memory.capacity = m.capacity
          /\ r.memory.type = m.type /\ r.memory.data = m.data
      BY <2>1, <2>2, <2>4, Zenon
    <2>6. at <= m.capacity
      BY <1>1, <2>2
    <2>7. MemoryOK(r.memory)
      BY <1>1, <2>5, <2>6 DEF MemoryOK
    <2>8. \A a \in O : a \in Nat /\ a + 8 <= at
      BY <1>1, <2>2, <2>3 DEF Apart
    <2>9. Below(r, O)
      BY <1>1, <2>5, <2>7, <2>8 DEF Below
    <2> QED BY <2>5, <2>9 DEF at
  <1> QED BY <1>4, <1>5

\* What an arena is when every block was offered.
LEMMA ArenaEmptied ==
  ASSUME NEW H, NEW bs, NEW N \in Nat, Offers(H, bs, N), NEW O, Below(Start, O),
         \A i \in 1..N : Clear(bs[i], O)
  PROVE  \A i \in 0..N : Below(H[i], O)
  <1> DEFINE P == {i \in Nat : i <= N => Below(H[i], O)}
  <1>1. 0 \in P
    BY DEF Offers
  <1>2. ASSUME NEW i \in P PROVE i + 1 \in P
    <2>0. i \in Nat /\ i + 1 \in Nat /\ (i + 1) - 1 = i
      BY <1>2
    <2>1. SUFFICES ASSUME i + 1 <= N PROVE Below(H[i + 1], O)
      BY <2>0
    <2>2. Below(H[i], O)
      BY <1>2, <2>0, <2>1
    <2> DEFINE j == i + 1
    <2>3. j \in 1..N /\ j - 1 = i
      BY <2>0, <2>1
    <2> HIDE DEF j
    <2>4. H[j] = Back(H[i], bs[j]) /\ Clear(bs[j], O)
      BY <2>3 DEF Offers
    <2>5. Below(H[j], O)
      BY <2>2, <2>4, OfferedToArena
    <2> QED BY <2>5 DEF j
  <1>3. P = Nat
    <2> HIDE DEF P
    <2> QED BY <1>1, <1>2, NatSetInduction, P \in SUBSET Nat DEF P
  <1>4. ASSUME NEW i \in 0..N PROVE Below(H[i], O)
    <2>1. i \in Nat /\ i <= N
      OBVIOUS
    <2>2. i \in P
      <3> HIDE DEF P
      <3> QED BY <1>3, <2>1
    <2> QED BY <2>1, <2>2
  <1> QED BY <1>4

\* What a host still holds when every block was offered.
LEMMA HostEmptied ==
  ASSUME NEW H, NEW bs, NEW N \in Nat, Offers(H, bs, N), memory.type = HOST
  PROVE  H[N].memory = memory /\ H[N].held = held \ {bs[i].at : i \in 1..N}
  <1> DEFINE Q(i) == H[i].memory = memory /\ H[i].held = held \ {bs[l].at : l \in 1..i}
             P == {i \in Nat : i <= N => Q(i)}
  <1>1. 0 \in P
    <2>1. H[0].memory = memory /\ H[0].held = held
      BY DEF Offers, Start
    <2>2. {bs[l].at : l \in 1..0} = {}
      OBVIOUS
    <2> QED BY <2>1, <2>2
  <1>2. ASSUME NEW i \in P PROVE i + 1 \in P
    <2>0. i \in Nat /\ i + 1 \in Nat /\ (i + 1) - 1 = i
      BY <1>2
    <2>1. SUFFICES ASSUME i + 1 <= N PROVE Q(i + 1)
      BY <2>0
    <2>2. H[i].memory = memory /\ H[i].held = held \ {bs[l].at : l \in 1..i}
      BY <1>2, <2>0, <2>1
    <2> DEFINE j == i + 1
    <2>3. j \in 1..N /\ j - 1 = i /\ 1..j = (1..i) \cup {j}
      BY <2>0, <2>1
    <2> HIDE DEF j
    <2>4. H[j] = Back(H[i], bs[j])
      BY <2>3 DEF Offers
    <2>5. H[j].memory = H[i].memory /\ H[j].held = H[i].held \ {bs[j].at}
      BY <2>2, <2>4 DEF Back, given_back
    <2>6. {bs[l].at : l \in 1..j} = {bs[l].at : l \in 1..i} \cup {bs[j].at}
      BY <2>3
    <2>7. Q(j)
      BY <2>2, <2>5, <2>6
    <2> HIDE DEF Q
    <2> QED BY <2>7 DEF j
  <1>3. P = Nat
    <2> HIDE DEF P
    <2> QED BY <1>1, <1>2, NatSetInduction, P \in SUBSET Nat DEF P
  <1>4. N \in P
    <2> HIDE DEF P
    <2> QED BY <1>3
  <1> QED BY <1>4

\* Each block ends where the one offered before it begins, the first at the end of all.
Nested(E, bs, N) ==
  /\ E[0] = memory.last_index
  /\ \A i \in 1..N : bs[i].at = E[i] /\ E[i - 1] = E[i] + arnm_align8_u32(bs[i].bytes)

\* Blocks in a row are taken back one after the other.
LEMMA Unnested ==
  ASSUME NEW H, NEW bs, NEW N \in Nat, Offers(H, bs, N), NEW O, Below(Start, O),
         \A i \in 1..N : Clear(bs[i], O), NEW E, Nested(E, bs, N)
  PROVE  H[N].memory.last_index = E[N]
  <1>0. \A i \in 0..N : Below(H[i], O)
    BY ArenaEmptied
  <1> DEFINE Q(i) == H[i].memory.last_index = E[i]
             P == {i \in Nat : i <= N => Q(i)}
  <1>1. 0 \in P
    BY DEF Offers, Start, Nested
  <1>2. ASSUME NEW i \in P PROVE i + 1 \in P
    <2>0. i \in Nat /\ i + 1 \in Nat /\ (i + 1) - 1 = i
      BY <1>2
    <2>1. SUFFICES ASSUME i + 1 <= N PROVE Q(i + 1)
      BY <2>0
    <2>2. H[i].memory.last_index = E[i]
      BY <1>2, <2>0, <2>1
    <2> DEFINE j == i + 1
               b == bs[j]
    <2>3. j \in 1..N /\ j - 1 = i /\ i \in 0..N
      BY <2>0, <2>1
    <2> HIDE DEF j
    <2>4. H[j] = Back(H[i], b) /\ Clear(b, O) /\ Below(H[i], O)
      BY <1>0, <2>3 DEF Offers
    <2>5. b.at = E[j] /\ E[i] = E[j] + arnm_align8_u32(b.bytes)
      BY <2>3 DEF Nested
    <2> HIDE DEF b
    <2>6. H[i].memory.last_index = b.at + arnm_align8_u32(b.bytes)
      BY <2>2, <2>5
    <2>7. H[j].memory.last_index = b.at
      BY <2>4, <2>6, OfferedToArena
    <2> QED BY <2>5, <2>7 DEF j
  <1>3. P = Nat
    <2> HIDE DEF P
    <2> QED BY <1>1, <1>2, NatSetInduction, P \in SUBSET Nat DEF P
  <1>4. N \in P
    <2> HIDE DEF P
    <2> QED BY <1>3
  <1> QED BY <1>4

\* The vector's blocks share nothing with the neighbour's.
LEMMA BlocksClear ==
  ASSUME IInv, v.index # NULL, behind_arena, NEW bs, Listed(bs, v.allocated_count)
  PROVE  /\ Below(Start, others)
         /\ \A i \in 1..(v.allocated_count + 1) : Clear(bs[i], others)
  <1> DEFINE k == v.allocated_count
             n == Charge(v)
             w == index_bytes(v.bucket_capacity)
             s == v.slots
             ix == v.index
  <1>1. /\ Shape(v) /\ Sized(v) /\ MemoryOK(memory) /\ memory.type # HOST
        /\ ArenaOwns(memory.last_index, ix, w, s, k, n, others)
        /\ bucket_bytes = Bytes(v)
    BY Reads, Initialised DEF IInv, Good, Owns, behind_arena
  <1>2. k \in Nat /\ n \in Nat \ {0} /\ arnm_align8_u32(bucket_bytes) = n
    BY <1>1, Fields, Sizes DEF Shape, Charge
  <1>3. w \in Nat \ {0} /\ arnm_align8_u32(w) = w
    <2>1. /\ v.bucket_capacity \in Nat \ {0}
          /\ v.bucket_capacity <= ARNM_BVEC_MAX_INDEX_CAPACITY
      BY <1>1, Fields DEF Shape, Indexed
    <2> QED BY <2>1, IndexCharged
  <1>4. Below(Start, others)
    BY <1>1 DEF Below, Start, ArenaOwns
  <1>5. /\ \A i \in 1..k : s[i] \in Nat /\ \A a \in others : Apart(a, 8, s[i], n)
        /\ ix \in Nat /\ \A a \in others : Apart(a, 8, ix, w)
    BY <1>1 DEF ArenaOwns
  <1> DEFINE z == bucket_bytes
  <1>6. /\ bs[k + 1] = [at |-> ix, bytes |-> w]
        /\ \A i \in 1..k : bs[i] = [at |-> s[k - i + 1], bytes |-> z]
    BY Zenon DEF Listed
  <1>7. arnm_align8_u32(z) = n
    BY <1>2
  <1> HIDE DEF k, n, w, s, ix, z
  <1>8. ASSUME NEW i \in 1..k PROVE Clear(bs[i], others)
    <2> DEFINE l == k - i + 1
    <2>1. l \in 1..k
      BY <1>2
    <2>2. bs[i] = [at |-> s[l], bytes |-> z]
      BY <1>6, Zenon
    <2> HIDE DEF l
    <2>3. bs[i].at = s[l] /\ bs[i].bytes = z
      BY <2>2
    <2> QED BY <1>2, <1>5, <1>7, <2>1, <2>3 DEF Clear
  <1>9. Clear(bs[k + 1], others)
    BY <1>3, <1>5, <1>6 DEF Clear
  <1>10. \A i \in 1..(k + 1) : i \in 1..k \/ i = k + 1
    BY <1>2
  <1>11. \A i \in 1..(k + 1) : Clear(bs[i], others)
    BY <1>8, <1>9, <1>10
  <1> QED BY <1>4, <1>11 DEF k

\* What free leaves of the allocator.
LEMMA Freed ==
  ASSUME IInv, v.index # NULL, NEW bs, Listed(bs, v.allocated_count), NEW H,
         Offers(H, bs, v.allocated_count + 1), NEW o, o = offered(bs), NEW s, NEW n
  PROVE  MemoryOK(o.memory) /\ Owns(o.memory, o.held, NULL, 0, s, 0, n, others)
  <1> DEFINE k == v.allocated_count
             N == k + 1
             O == others
  <1>1. /\ Shape(v) /\ Sized(v) /\ MemoryOK(memory)
        /\ Owns(memory, held, v.index, v.bucket_capacity, v.slots, k, Charge(v), O)
    BY Initialised DEF IInv, Good
  <1>2. k \in Nat /\ N \in Nat /\ N \in 0..N
    BY <1>1, Fields
  <1>3. Offers(H, bs, N) /\ o = H[N]
    BY DEF Offers
  <1>4. CASE memory.type = HOST
    <2>1. HostOwns(held, v.index, v.slots, k, O) /\ ~behind_arena
      BY <1>1, <1>4 DEF Owns, behind_arena
    <2>2. o.memory = memory /\ o.held = held \ {bs[i].at : i \in 1..N}
      <3> HIDE DEF N
      <3> QED BY <1>2, <1>3, <1>4, HostEmptied
    <2>3. /\ bs[N].at = v.index
          /\ \A i \in 1..k : bs[i].at = v.slots[i]
      <3> DEFINE z == bucket_bytes
                 w == index_bytes(v.bucket_capacity)
      <3>1. bs[N] = [at |-> v.index, bytes |-> w]
        BY Zenon DEF Listed
      <3>2. \A i \in 1..k : bs[i] = [at |-> v.slots[i], bytes |-> z]
        BY <2>1, Zenon DEF Listed
      <3> HIDE DEF z, w, N, k
      <3>3. bs[N].at = v.index
        BY <3>1
      <3>4. ASSUME NEW i \in 1..k PROVE bs[i].at = v.slots[i]
        <4>1. bs[i] = [at |-> v.slots[i], bytes |-> z]
          BY <3>2
        <4> QED BY <4>1
      <3> QED BY <3>3, <3>4
    <2>4. 1..N = (1..k) \cup {N}
      BY <1>2
    <2>5. O = {} /\ held = {v.slots[i] : i \in 1..k} \cup ({v.index} \ {NULL})
      BY <2>1 DEF HostOwns
    <2> HIDE DEF N, k
    <2>6. o.held = {}
      BY <2>2, <2>3, <2>4, <2>5
    <2>7. {s[i] : i \in 1..0} = {}
      OBVIOUS
    <2>8. HostOwns(o.held, NULL, s, 0, O)
      BY <2>5, <2>6, <2>7 DEF HostOwns
    <2> QED BY <1>1, <1>4, <2>2, <2>8 DEF Owns
  <1>5. CASE memory.type # HOST
    <2>1. ArenaOwns(memory.last_index, v.index, index_bytes(v.bucket_capacity), v.slots, k,
                    Charge(v), O) /\ behind_arena
      BY <1>1, <1>5 DEF Owns, behind_arena
    <2>2. Below(Start, O) /\ \A i \in 1..N : Clear(bs[i], O)
      BY <2>1, BlocksClear
    <2>3. Below(o, O)
      <3> HIDE DEF N, O
      <3>1. \A i \in 0..N : Below(H[i], O)
        BY <1>2, <1>3, <2>2, ArenaEmptied
      <3> QED BY <1>2, <1>3, <3>1
    <2>4. \A a, b \in O : a # b => Apart(a, 8, b, 8)
      BY <2>1 DEF ArenaOwns
    <2>5. \A i \in 1..0 : FALSE
      OBVIOUS
    <2> DEFINE m == o.memory
    <2>6. MemoryOK(m) /\ m.type # HOST /\ \A a \in O : a \in Nat /\ a + 8 <= m.last_index
      BY <2>3 DEF Below
    <2> HIDE DEF m
    <2>7. ArenaOwns(m.last_index, NULL, index_bytes(0), s, 0, n, O)
      BY <2>4, <2>5, <2>6 DEF ArenaOwns
    <2> QED BY <2>6, <2>7 DEF Owns, m
  <1> QED BY <1>4, <1>5

\* arnm_bvec_free of a vector that holds something.
LEMMA FreeIs ==
  ASSUME IInv, arnm_bvec_free, v.index # NULL
  PROVE  \E bs, H :
           /\ Listed(bs, v.allocated_count) /\ Offers(H, bs, v.allocated_count + 1)
           /\ memory' = offered(bs).memory /\ held' = offered(bs).held
  <1> DEFINE bs == Append(release_order,
                          [at |-> v.index, bytes |-> index_bytes(v.bucket_capacity)])
             k == v.allocated_count
  <1>1. memory' = offered(bs).memory /\ held' = offered(bs).held
    BY Zenon DEF arnm_bvec_free
  <1>2. bs = Append(release_order,
                    [at |-> v.index, bytes |-> index_bytes(v.bucket_capacity)])
    OBVIOUS
  <1> HIDE DEF bs
  <1>3. Listed(bs, k)
    BY <1>2, FreeOrder
  <1>4. k + 1 \in Nat /\ DOMAIN bs = 1..(k + 1)
    BY <1>3, StateTyped, Fields DEF Listed
  <1> DEFINE N == k + 1
  <1>5. PICK H : Offers(H, bs, N)
    <2> HIDE DEF N
    <2>1. N \in Nat /\ DOMAIN bs = 1..N
      BY <1>4 DEF N
    <2> QED BY <2>1, OfferedInTurn
  <1> QED BY <1>1, <1>3, <1>5

\* arnm_bvec_free.
LEMMA FreeStep ==
  ASSUME IInv, arnm_bvec_free
  PROVE  Outcome
  <1>0. /\ Shape(v) /\ v.size \in Nat /\ out \in Seq(Values)
        /\ result \in Results \cup {OUT_OF_BOUNDS, TOO_SMALL}
    BY StateTyped DEF IInv
  <1>1. CASE v.index = NULL
    <2>1. UNCHANGED vars
      BY <1>1, Zenon DEF arnm_bvec_free
    <2>2. UNCHANGED <<memory, held, others, v, cells, out>> /\ result' = result
      BY <2>1 DEF vars
    <2> QED BY <1>0, <2>2, StepOfNothing
  <1>2. CASE v.index # NULL
    <2> DEFINE e == [ZeroedDescriptor EXCEPT !.element_size = v.element_size, !.log2 = v.log2,
                                             !.tail_used = Pow(v.log2), !.step = v.step]
    <2>1. Sized(v) /\ bucket_capacity = Pow(v.log2)
      BY <1>2, Initialised, Reads DEF Cap
    <2>2. /\ v' = [ZeroedDescriptor EXCEPT !.element_size = v.element_size, !.log2 = v.log2,
                                           !.step = v.step, !.tail_used = bucket_capacity]
          /\ cells' = NoCells /\ UNCHANGED <<others, out, result>>
      BY <1>2, Zenon DEF arnm_bvec_free
    <2>3. v' = e
      <3> DEFINE t == bucket_capacity
      <3>1. v' = [ZeroedDescriptor EXCEPT !.element_size = v.element_size, !.log2 = v.log2,
                                          !.step = v.step, !.tail_used = t] /\ t = Pow(v.log2)
        BY <2>1, <2>2
      <3> HIDE DEF t
      <3> QED BY <3>1 DEF ZeroedDescriptor
    <2>4. /\ v.element_size \in Nat /\ v.log2 \in Nat /\ v.step \in Nat
          /\ v.element_size \in 1..UINT16_MAX /\ v.log2 \in 1..MAX_BUCKET_LOG2
          /\ v.step \in 1..UINT16_MAX
      BY <1>0, <2>1, Fields DEF Sized
    <2>5. /\ Shape(e) /\ e.size = 0 /\ e.index = NULL /\ e.allocated_count = 0
          /\ e.bucket_capacity = 0
      <3> DEFINE z == v.element_size
                 l == v.log2
                 g == v.step
      <3>1. /\ z \in Nat /\ l \in Nat /\ g \in Nat /\ z \in 1..UINT16_MAX
            /\ l \in 1..MAX_BUCKET_LOG2 /\ g \in 1..UINT16_MAX
            /\ e = [ZeroedDescriptor EXCEPT !.element_size = z, !.log2 = l,
                                            !.tail_used = Pow(l), !.step = g]
        BY <2>4
      <3> HIDE DEF z, l, g, e
      <3> QED BY <3>1, FreshDescriptor
    <2> HIDE DEF e
    <2>6. PICK bs, H :
           /\ Listed(bs, v.allocated_count) /\ Offers(H, bs, v.allocated_count + 1)
           /\ memory' = offered(bs).memory /\ held' = offered(bs).held
      BY <1>2, FreeIs
    <2> DEFINE o == offered(bs)
               s == e.slots
               n == Charge(e)
    <2>7. MemoryOK(o.memory) /\ Owns(o.memory, o.held, NULL, 0, s, 0, n, others)
      <3>1. o = offered(bs)
        OBVIOUS
      <3> HIDE DEF o, s, n
      <3> QED BY <1>2, <2>6, <3>1, Freed
    <2>8. CellsOK(e, NoCells)
      <3>1. Buckets(e) = {}
        BY <2>5 DEF Buckets
      <3>2. NoCells \in [{} -> [0..(Cap(e) - 1) -> Values]]
        BY DEF NoCells
      <3> QED BY <3>1, <3>2, Zenon DEF CellsOK
    <2>9. Good(e, o.memory, o.held, others, NoCells)
      <3>1. Owns(o.memory, o.held, e.index, e.bucket_capacity, e.slots, e.allocated_count,
                 Charge(e), others)
        BY <2>5, <2>7, Zenon
      <3> QED BY <2>5, <2>7, <2>8, <3>1 DEF Good
    <2>10. Good(v', memory', held', others', cells')
      BY <2>2, <2>3, <2>6, <2>9, Zenon
    <2>11. IInv'
      BY <1>0, <2>2, <2>10 DEF IInv
    <2>12. v'.size = 0 /\ out' = out
      BY <2>2, <2>3, <2>5
    <2> QED BY <1>0, <2>11, <2>12, StepOfEmpty
  <1> QED BY <1>1, <1>2

\* Blocks laid out in order, free leaves the arena's end where the first began.
LEMMA FreeUnwinds ==
  ASSUME IInv, arnm_bvec_free, LaidOutInOrder
  PROVE  memory'.last_index = v.index
  <1> DEFINE k == v.allocated_count
             N == k + 1
             n == Charge(v)
             w == index_bytes(v.bucket_capacity)
             ix == v.index
             z == bucket_bytes
  <1>1. PICK bs, H :
          /\ Listed(bs, v.allocated_count) /\ Offers(H, bs, v.allocated_count + 1)
          /\ memory' = offered(bs).memory /\ held' = offered(bs).held
    BY FreeIs DEF LaidOutInOrder
  <1>2. /\ Shape(v) /\ Sized(v) /\ bucket_bytes = Bytes(v) /\ behind_arena /\ ix # NULL
        /\ memory \in Memories /\ Owns(memory, held, ix, v.bucket_capacity, v.slots, k, n, others)
    BY Reads, Initialised DEF IInv, Good, LaidOutInOrder, MemoryOK
  <1>3. k \in Nat /\ n \in Nat \ {0} /\ arnm_align8_u32(z) = n
    BY <1>2, Fields, Sizes DEF Shape, Charge
  <1>4. w \in Nat \ {0} /\ arnm_align8_u32(w) = w
    <2>1. /\ v.bucket_capacity \in Nat \ {0}
          /\ v.bucket_capacity <= ARNM_BVEC_MAX_INDEX_CAPACITY
      BY <1>2, Fields DEF Shape, Indexed
    <2> QED BY <2>1, IndexCharged
  <1>5. ix \in Nat /\ memory.last_index \in Nat
    BY <1>2 DEF Owns, ArenaOwns, behind_arena, Memories
  <1>6. /\ \A i \in 1..k : v.slots[i] = ix + w + (i - 1) * n
        /\ memory.last_index = ix + w + k * n
    BY <1>3 DEF LaidOutInOrder
  <1>7. Below(Start, others) /\ \A i \in 1..N : Clear(bs[i], others)
    BY <1>1, <1>2, BlocksClear
  <1> DEFINE E == [i \in 0..N |-> IF i = N THEN ix ELSE ix + w + (k - i) * n]
  <1>8. E[0] = memory.last_index /\ E[N] = ix
    <2>1. 0 \in 0..N /\ 0 # N /\ N \in 0..N /\ k - 0 = k
      BY <1>3
    <2> QED BY <1>6, <2>1
  <1>9. ASSUME NEW i \in 1..N
        PROVE  bs[i].at = E[i] /\ E[i - 1] = E[i] + arnm_align8_u32(bs[i].bytes)
    <2>1. i \in 0..N /\ i - 1 \in 0..N /\ i - 1 # N /\ i \in Nat
      BY <1>3
    <2>2. CASE i = N
      <3>1. bs[i] = [at |-> ix, bytes |-> w]
        BY <1>1, <2>2, Zenon DEF Listed
      <3>2. bs[i].at = ix /\ bs[i].bytes = w
        BY <3>1
      <3>3. k - (i - 1) = 0 /\ (k - (i - 1)) * n = 0
        BY <1>3, <2>2
      <3>4. E[i] = ix /\ E[i - 1] = ix + w + (k - (i - 1)) * n
        BY <2>1, <2>2
      <3>5. E[i - 1] = ix + w
        BY <1>4, <1>5, <3>3, <3>4
      <3> HIDE DEF E, w, ix
      <3> QED BY <1>4, <3>2, <3>4, <3>5
    <2>3. CASE i # N
      <3> DEFINE l == k - i + 1
                 y == (k - i) * n
      <3>1. i \in 1..k /\ l \in 1..k /\ l - 1 = k - i /\ k - i \in Nat /\ k - (i - 1) = (k - i) + 1
        BY <1>3, <2>1, <2>3
      <3>2. bs[i] = [at |-> v.slots[l], bytes |-> z]
        BY <1>1, <1>2, <3>1, Zenon DEF Listed
      <3>3. bs[i].at = v.slots[l] /\ bs[i].bytes = z
        <4> HIDE DEF l, z
        <4> QED BY <3>2
      <3>4. v.slots[l] = ix + w + y
        <4>1. v.slots[l] = ix + w + (l - 1) * n
          BY <1>6, <3>1
        <4> QED BY <3>1, <4>1, Zenon
      <3>5. y \in Nat /\ ((k - i) + 1) * n = y + n
        BY <1>3, <3>1, Times
      <3>6. E[i] = ix + w + y /\ E[i - 1] = ix + w + (k - (i - 1)) * n
        BY <2>1, <2>3
      <3>7. E[i - 1] = ix + w + (y + n)
        BY <3>1, <3>5, <3>6, Zenon
      <3> HIDE DEF E, w, ix, y, z, n, l
      <3> QED BY <1>3, <1>4, <1>5, <3>3, <3>4, <3>5, <3>6, <3>7
    <2> QED BY <2>2, <2>3
  <1>10. Nested(E, bs, N)
    <2> HIDE DEF E, N
    <2> QED BY <1>8, <1>9 DEF Nested
  <1>11. H[N].memory.last_index = E[N]
    <2>1. N \in Nat /\ Offers(H, bs, N)
      BY <1>1, <1>3
    <2> HIDE DEF E, N
    <2> QED BY <1>7, <1>10, <2>1, Unnested
  <1>12. memory' = H[N].memory
    BY <1>1 DEF Offers
  <1> HIDE DEF E
  <1> QED BY <1>8, <1>11, <1>12

-----------------------------------------------------------------------------
(* The theorems.                                                           *)

\* Before anything was asked of it.
LEMMA Start0 ==
  ASSUME Init
  PROVE  IInv /\ Sequence!Init
  <1>1. /\ memory \in {arnm_intern(HOST, NULL, 0)}
                         \cup {arnm_intern(OWNED, 0, c) : c \in ArenaCapacities}
        /\ held = {} /\ others = {} /\ v = ZeroedDescriptor /\ cells = NoCells
        /\ out = << >> /\ result = SUCCESS
    BY DEF Init
  <1>2. /\ v.index = NULL /\ v.slots = << >> /\ v.element_size = 0 /\ v.bucket_capacity = 0
        /\ v.tail_index = 0 /\ v.tail_used = 0 /\ v.tail = NULL /\ v.size = 0
        /\ v.log2 = 0 /\ v.allocated_count = 0 /\ v \in Descriptors
    <2>1. << >> \in Seq(Address \cup {NULL})
      OBVIOUS
    <2> QED BY <1>1, <2>1 DEF ZeroedDescriptor, Descriptors
  <1>3. Shape(v)
    BY <1>2, Widths DEF Shape, Indexed, Blank
  <1>4. MemoryOK(memory)
    <2>1. CASE memory = arnm_intern(HOST, NULL, 0)
      BY <2>1, Widths DEF arnm_intern, MemoryOK, Memories, HOST, OWNED
    <2>2. CASE memory \in {arnm_intern(OWNED, 0, c) : c \in ArenaCapacities}
      <3>1. PICK c \in ArenaCapacities : memory = arnm_intern(OWNED, 0, c)
        BY <2>2
      <3>2. c \in 0..ARNM_MAX_ALLOC_SIZE
        BY BvecAssumption
      <3> QED BY <3>1, <3>2, Widths DEF arnm_intern, MemoryOK, Memories
    <2> QED BY <1>1, <2>1, <2>2
  <1> DEFINE s == v.slots
             n == Charge(v)
  <1>5. Owns(memory, held, NULL, 0, s, 0, n, others)
    <2> HIDE DEF s, n
    <2>1. \A i \in 1..0 : FALSE
      OBVIOUS
    <2>2. {s[i] : i \in 1..0} = {}
      OBVIOUS
    <2>3. HostOwns(held, NULL, s, 0, others)
      BY <1>1, <2>1, <2>2 DEF HostOwns
    <2>4. ArenaOwns(memory.last_index, NULL, index_bytes(0), s, 0, n, others)
      BY <1>1, <2>1 DEF ArenaOwns
    <2> QED BY <2>3, <2>4 DEF Owns
  <1>6. CellsOK(v, cells)
    <2>1. Buckets(v) = {}
      BY <1>2 DEF Buckets
    <2>2. NoCells \in [{} -> [0..(Cap(v) - 1) -> Values]]
      BY DEF NoCells
    <2> QED BY <1>1, <2>1, <2>2, Zenon DEF CellsOK
  <1>7. Owns(memory, held, v.index, v.bucket_capacity, v.slots, v.allocated_count, Charge(v), others)
    BY <1>2, <1>5, Zenon
  <1>8. IInv
    BY <1>1, <1>3, <1>4, <1>6, <1>7, ResultsDiffer DEF IInv, Good
  <1>9. contents = << >>
    BY <1>2 DEF contents
  <1> QED BY <1>1, <1>8, <1>9 DEF Sequence!Init

\* Every call keeps the invariant and every element's place, and is a step of the sequence.
LEMMA NextStep ==
  ASSUME IInv, [Next]_vars
  PROVE  Outcome
  <1>1. CASE UNCHANGED vars
    <2>1. UNCHANGED <<memory, held, others, v, cells, out>> /\ result' = result
      BY <1>1 DEF vars
    <2> QED BY <2>1, StepOfNothing DEF IInv
  <1>2. CASE Next
    <2>1. CASE \E l \in Log2s, g \in Steps, b \in ElementSizes : arnm_bvec_init(l, g, b)
      BY <2>1, InitStep
    <2>2. CASE \E n \in Counts : arnm_bvec_reserve(n)
      BY <2>2, ReserveStep
    <2>3. CASE arnm_bvec_emplace
      BY <2>3, AppendStep DEF arnm_bvec_emplace
    <2>4. CASE \E x \in Values : arnm_bvec_push_ptr(x)
      BY <2>4, AppendStep DEF arnm_bvec_push_ptr
    <2>5. CASE \E i \in 0..(v.size - 1), x \in Values : write_element(i, x)
      BY <2>5, WriteStep
    <2>6. CASE arnm_bvec_pop
      BY <2>6, PopStep
    <2>7. CASE \E n \in {v.size, v.size - 1} \ {-1} : arnm_bvec_copy_to(n)
      BY <2>7, CopyStep
    <2>8. CASE arnm_bvec_clear
      BY <2>8, ClearStep
    <2>9. CASE arnm_bvec_shrink
      BY <2>9, ShrinkStep
    <2>10. CASE arnm_bvec_free
      BY <2>10, FreeStep
    <2>11. CASE neighbour
      BY <2>11, NeighbourStep
    <2> QED BY <1>2, <2>1, <2>2, <2>3, <2>4, <2>5, <2>6, <2>7, <2>8, <2>9, <2>10, <2>11 DEF Next
  <1> QED BY <1>1, <1>2

\* The invariant every call preserves: a descriptor that describes its buckets,
\* blocks that share no byte, and cells for every bucket.
THEOREM Inductive == Spec => []IInv
  <1>1. Init => IInv
    BY Start0
  <1>2. IInv /\ [Next]_vars => IInv'
    BY NextStep DEF Outcome
  <1> QED BY <1>1, <1>2, PTL DEF Spec

\* The vector refines the sequence its header promises: a call appends, replaces,
\* drops the last, empties or copies out, and one that fails does nothing.
THEOREM VectorIsSequence == Spec => IsSequence
  <1>1. Init => Sequence!Init
    BY Start0
  <1>2. IInv /\ [Next]_vars => [Sequence!Next]_<<contents, out>>
    BY NextStep DEF Outcome, Simulates
  <1> QED BY <1>1, <1>2, Inductive, PTL DEF Spec, IsSequence, Sequence!Spec

\* Good as the module says it: the counters describe the buckets.
LEMMA StateIsValid ==
  ASSUME IInv
  PROVE  StateAlwaysValid
  <1> DEFINE C == Cap(v)
             k == v.allocated_count
             c == v.bucket_capacity
             t == v.tail_index
             u == v.tail_used
  <1>1. /\ Shape(v) /\ Indexed(v) /\ MemoryOK(memory) /\ bucket_capacity = C
        /\ bucket_count_allocated = k
        /\ out \in Seq(Values) /\ result \in Results \cup {OUT_OF_BOUNDS, TOO_SMALL}
    BY Reads, Initialised DEF IInv, Good, Shape
  <1>2. /\ k \in Nat /\ k <= c /\ c \in Nat /\ c <= ARNM_BVEC_MAX_INDEX_CAPACITY
        /\ v.slots \in Seq(Address \cup {NULL}) /\ Len(v.slots) = c
        /\ t \in Nat /\ u \in Nat /\ v.size \in Nat
    BY <1>1, Fields
  <1>3. NULL \notin Address
    BY BvecAssumption DEF Address
  <1>4. Sized(v) => u \in 1..C /\ C <= UINT16_MAX /\ C \in Nat \ {0, 1}
    BY <1>1, <1>3, TailOpen, Sizes DEF Shape
  <1>5. u \in 0..UINT16_MAX
    <2>1. CASE Blank(v)
      BY <1>2, <2>1, Widths DEF Blank
    <2>2. CASE Sized(v)
      BY <1>2, <1>4, <2>2, Widths
    <2> QED BY <1>1, <2>1, <2>2 DEF Shape
  <1>6. TypeOK
    <2>1. /\ memory.type \in {HOST, OWNED} /\ memory.last_index \in 0..memory.capacity
      BY <1>1 DEF MemoryOK, Memories
    <2>2. v.slots \in [1..c -> Nat \cup HostAddresses \cup {NULL}]
      <3> DEFINE s == v.slots
                 S == Address \cup {NULL}
      <3>1. s \in Seq(S) /\ Len(s) = c
        BY <1>2
      <3> HIDE DEF s, S
      <3>2. s \in [1..c -> S]
        BY <3>1
      <3> QED BY <3>2 DEF s, S, Address
    <2>3. c \in 0..ARNM_BVEC_MAX_INDEX_CAPACITY /\ k \in 0..c
      BY <1>2, Widths
    <2> QED BY <1>1, <1>5, <2>1, <2>2, <2>3 DEF TypeOK
  <1>7. ASSUME Initialized
        PROVE  /\ is_state_valid
               /\ \A i \in 1..c : v.slots[i] # NULL <=> i <= k
               /\ IF v.size = 0 THEN v.tail = NULL /\ u = bucket_capacity
                  ELSE <<v.tail, u - 1>> = arnm_bvec_get(v.size - 1)
    <2>1. Sized(v)
      BY <1>7, Initialised DEF Initialized
    <2>2. /\ Counted(v) /\ (v.size = 0 <=> v.tail = NULL) /\ u \in 1..C /\ C \in Nat \ {0, 1}
      BY <1>1, <1>3, <2>1, TailOpen
    <2>3. v.element_size # 0 /\ v.log2 # 0
      BY <2>1, BvecAssumption, Widths DEF Sized
    <2>4. v.index = NULL <=> c = 0
      BY <1>1 DEF Indexed
    <2>5. \A i \in 1..c : v.slots[i] # NULL <=> i <= k
      BY <1>1 DEF Indexed
    <2>6. CASE v.size = 0
      <3>1. v.tail = NULL /\ t = 0 /\ u = C
        BY <2>2, <2>6 DEF Counted
      <3>2. k * C \in Nat
        <4>1. C \in Nat
          BY <2>2
        <4> HIDE DEF C, k
        <4> QED BY <1>2, <4>1, Times
      <3> DEFINE p == k * C
      <3>3. v.size <= p
        BY <2>6, <3>2
      <3>4. v.size <= bucket_count_allocated * bucket_capacity
        BY <1>1, <3>3, Zenon
      <3>5. is_state_valid
        BY <1>1, <1>2, <2>3, <2>4, <2>6, <3>1, <3>4 DEF is_state_valid
      <3> QED BY <1>1, <2>5, <2>6, <3>1, <3>5
    <2>7. CASE v.size # 0
      <3>1. /\ t < k /\ v.tail = v.slots[t + 1] /\ v.size = t * C + u /\ v.tail # NULL
        BY <2>2, <2>7 DEF Counted
      <3>2. t * C \in Nat /\ (t + 1) * C <= k * C /\ (t + 1) * C = t * C + C /\ k * C \in Nat
        <4>1. t + 1 \in Nat /\ t + 1 <= k
          BY <1>2, <3>1
        <4>2. C \in Nat
          BY <2>2
        <4> HIDE DEF C, k, t
        <4> QED BY <1>2, <4>1, <4>2, Times
      <3> DEFINE p == k * C
                 q == t * C
      <3>3. p \in Nat /\ q \in Nat /\ q + C <= p /\ v.size = q + u
        BY <3>1, <3>2
      <3> HIDE DEF p, q
      <3>4. v.size <= p
        <4> HIDE DEF C
        <4> QED BY <2>2, <3>3
      <3>5. v.size <= bucket_count_allocated * bucket_capacity
        BY <1>1, <3>4, Zenon DEF p
      <3>6. v.index # NULL
        BY <1>2, <2>4, <3>1
      <3>7. is_state_valid
        BY <1>1, <1>2, <2>3, <2>4, <3>1, <3>5, <3>6 DEF is_state_valid
      <3> DEFINE r == u - 1
      <3>8. r \in 0..(C - 1) /\ v.size - 1 = q + r
        <4> HIDE DEF C
        <4> QED BY <2>2, <3>3
      <3>9. (q + r) \div C = t /\ (q + r) % C = r
        <4> HIDE DEF C, r, t
        <4>1. (t * C + r) \div C = t /\ (t * C + r) % C = r
          BY <1>2, <2>2, <3>8, DividesOnce
        <4> QED BY <4>1 DEF q
      <3>10. (v.size - 1) \div C = t /\ (v.size - 1) % C = r
        BY <3>8, <3>9, Zenon
      <3>11. arnm_bvec_get(v.size - 1) = <<v.slots[t + 1], r>>
        BY <1>1, <3>10, Zenon DEF arnm_bvec_get, bucket_of
      <3> QED BY <2>5, <2>7, <3>1, <3>7, <3>11
    <2> QED BY <2>6, <2>7
  <1> QED BY <1>6, <1>7 DEF StateAlwaysValid

\* Whatever was regrown, tightened, refused or buried by a neighbour, no two of
\* the vector's blocks share a byte, and a host is owed exactly these.
THEOREM OwnsItsBlocks == Spec => []BlocksAreItsOwn
  <1>1. IInv => BlocksAreItsOwn
    <2> SUFFICES ASSUME IInv PROVE BlocksAreItsOwn
      OBVIOUS
    <2> DEFINE k == v.allocated_count
               n == Charge(v)
               w == index_bytes(v.bucket_capacity)
               s == v.slots
               ix == v.index
               top == memory.last_index
    <2>1. /\ Shape(v) /\ MemoryOK(memory) /\ bucket_bytes = Bytes(v)
          /\ Owns(memory, held, ix, v.bucket_capacity, s, k, n, others)
      BY Reads DEF IInv, Good
    <2>2. arnm_align8_u32(bucket_bytes) = n
      BY <2>1 DEF Charge
    <2>3. Blocks = {[at |-> s[i], bytes |-> n] : i \in 1..k}
                     \cup (IF ix = NULL THEN {} ELSE {[at |-> ix, bytes |-> w]})
                     \cup {[at |-> a, bytes |-> 8] : a \in others}
      <3> HIDE DEF n
      <3> QED BY <2>2 DEF Blocks
    <2>4. StateAlwaysValid
      BY StateIsValid
    <2> HIDE DEF k, n, w, s, ix, top
    <2>5. CASE memory.type = HOST
      <3>1. HostOwns(held, ix, s, k, others) /\ ~behind_arena
        BY <2>1, <2>5 DEF Owns, behind_arena
      <3>2. others = {} /\ held = {s[i] : i \in 1..k} \cup ({ix} \ {NULL})
        BY <3>1 DEF HostOwns
      <3> DEFINE B == {[at |-> s[i], bytes |-> n] : i \in 1..k}
                 I == IF ix = NULL THEN {} ELSE {[at |-> ix, bytes |-> w]}
      <3>3. Blocks = B \cup I
        BY <2>3, <3>2
      <3> DEFINE rec(i) == [at |-> s[i], bytes |-> n]
                 one == [at |-> ix, bytes |-> w]
      <3>4. /\ \A i \in 1..k : rec(i) \in B /\ rec(i).at = s[i]
            /\ \A b \in B : \E i \in 1..k : b = rec(i)
        OBVIOUS
      <3>5. /\ one.at = ix /\ (ix # NULL => one \in I)
            /\ \A b \in I : ix # NULL /\ b = one
        OBVIOUS
      <3> HIDE DEF B, I, rec, one
      <3>6. {b.at : b \in B} = {s[i] : i \in 1..k}
        BY <3>4
      <3>7. {b.at : b \in I} = {ix} \ {NULL}
        BY <3>5
      <3>8. {b.at : b \in Blocks} = {b.at : b \in B} \cup {b.at : b \in I}
        BY <3>3
      <3>9. {b.at : b \in Blocks} = {s[i] : i \in 1..k} \cup ({ix} \ {NULL})
        BY <3>6, <3>7, <3>8
      <3> QED BY <2>4, <3>1, <3>2, <3>9 DEF BlocksAreItsOwn
    <2>6. CASE memory.type # HOST
      <3>1. ArenaOwns(top, ix, w, s, k, n, others) /\ behind_arena
        BY <2>1, <2>6 DEF Owns, behind_arena, top, w
      <3>2. w \in Nat /\ n \in Nat /\ top \in Nat
        BY <2>1, WidthsHeld DEF MemoryOK, Memories, w, n, top
      <3> DEFINE Kind(b) == \/ \E i \in 1..k : b = [at |-> s[i], bytes |-> n]
                            \/ ix # NULL /\ b = [at |-> ix, bytes |-> w]
                            \/ \E a \in others : b = [at |-> a, bytes |-> 8]
      <3>3. \A b \in Blocks : Kind(b)
        BY <2>3
      <3>4. ASSUME NEW b \in Blocks PROVE b.at \in Nat /\ b.bytes \in Nat /\ b.at + b.bytes <= top
        <4>1. CASE \E i \in 1..k : b = [at |-> s[i], bytes |-> n]
          BY <3>1, <3>2, <4>1 DEF ArenaOwns
        <4>2. CASE ix # NULL /\ b = [at |-> ix, bytes |-> w]
          BY <3>1, <3>2, <4>2 DEF ArenaOwns
        <4>3. CASE \E a \in others : b = [at |-> a, bytes |-> 8]
          BY <3>1, <4>3 DEF ArenaOwns
        <4> QED BY <3>3, <4>1, <4>2, <4>3
      <3>5. ASSUME NEW b \in Blocks, NEW c \in Blocks, b # c
            PROVE  Apart(b.at, b.bytes, c.at, c.bytes)
        <4>0. \A x, y, p, q : Apart(x, p, y, q) => Apart(y, q, x, p)
          BY DEF Apart
        <4>1. ASSUME NEW i \in 1..k, b = [at |-> s[i], bytes |-> n],
                     NEW j \in 1..k, c = [at |-> s[j], bytes |-> n]
              PROVE  Apart(b.at, b.bytes, c.at, c.bytes)
          <5>1. i # j
            BY <3>5, <4>1
          <5>2. Apart(s[i], n, s[j], n)
            BY <3>1, <5>1 DEF ArenaOwns
          <5> QED BY <4>1, <5>2
        <4>2. ASSUME NEW i \in 1..k, ix # NULL
              PROVE  Apart(ix, w, s[i], n) /\ Apart(s[i], n, ix, w)
          BY <3>1, <4>0, <4>2 DEF ArenaOwns
        <4>3. ASSUME NEW i \in 1..k, NEW a \in others
              PROVE  Apart(a, 8, s[i], n) /\ Apart(s[i], n, a, 8)
          BY <3>1, <4>0 DEF ArenaOwns
        <4>4. ASSUME NEW a \in others, ix # NULL
              PROVE  Apart(a, 8, ix, w) /\ Apart(ix, w, a, 8)
          BY <3>1, <4>0, <4>4 DEF ArenaOwns
        <4>5. ASSUME NEW a \in others, b = [at |-> a, bytes |-> 8],
                     NEW e \in others, c = [at |-> e, bytes |-> 8]
              PROVE  Apart(b.at, b.bytes, c.at, c.bytes)
          <5>1. a # e
            BY <3>5, <4>5
          <5>2. Apart(a, 8, e, 8)
            BY <3>1, <5>1 DEF ArenaOwns
          <5> QED BY <4>5, <5>2
        <4>6. CASE \E i \in 1..k : b = [at |-> s[i], bytes |-> n]
          <5>1. PICK i \in 1..k : b = [at |-> s[i], bytes |-> n]
            BY <4>6
          <5>2. CASE \E j \in 1..k : c = [at |-> s[j], bytes |-> n]
            BY <4>1, <5>1, <5>2
          <5>3. CASE ix # NULL /\ c = [at |-> ix, bytes |-> w]
            BY <4>2, <5>1, <5>3
          <5>4. CASE \E a \in others : c = [at |-> a, bytes |-> 8]
            BY <4>3, <5>1, <5>4
          <5> QED BY <3>3, <5>2, <5>3, <5>4
        <4>7. CASE ix # NULL /\ b = [at |-> ix, bytes |-> w]
          <5>1. CASE \E j \in 1..k : c = [at |-> s[j], bytes |-> n]
            BY <4>2, <4>7, <5>1
          <5>2. CASE ix # NULL /\ c = [at |-> ix, bytes |-> w]
            BY <3>5, <4>7, <5>2
          <5>3. CASE \E a \in others : c = [at |-> a, bytes |-> 8]
            BY <4>4, <4>7, <5>3
          <5> QED BY <3>3, <5>1, <5>2, <5>3
        <4>8. CASE \E a \in others : b = [at |-> a, bytes |-> 8]
          <5>1. PICK a \in others : b = [at |-> a, bytes |-> 8]
            BY <4>8
          <5>2. CASE \E j \in 1..k : c = [at |-> s[j], bytes |-> n]
            BY <4>3, <5>1, <5>2
          <5>3. CASE ix # NULL /\ c = [at |-> ix, bytes |-> w]
            BY <4>4, <5>1, <5>3
          <5>4. CASE \E e \in others : c = [at |-> e, bytes |-> 8]
            BY <4>5, <5>1, <5>4
          <5> QED BY <3>3, <5>2, <5>3, <5>4
        <4> QED BY <3>3, <4>6, <4>7, <4>8
      <3>6. \A b, c \in Blocks : b # c => b.at + b.bytes <= c.at \/ c.at + c.bytes <= b.at
        BY <3>5 DEF Apart
      <3>7. \A b \in Blocks : b.at + b.bytes <= memory.last_index
        BY <3>4 DEF top
      <3> QED BY <2>4, <3>1, <3>6, <3>7 DEF BlocksAreItsOwn
    <2> QED BY <2>5, <2>6
  <1> QED BY <1>1, Inductive, PTL

\* "Growing the vector never moves it": whatever a call does to the index array,
\* an element that is there before and after it has the same address.
THEOREM ElementsStay == Spec => StableAddresses
  <1>1. IInv /\ [Next]_vars =>
          [ \A i \in 0..(v.size - 1) :
              i < v'.size => <<v'.slots[(i \div 2^v'.log2) + 1], i % 2^v'.log2>> = arnm_bvec_get(i)
          ]_vars
    <2> SUFFICES ASSUME IInv, [Next]_vars, NEW i \in 0..(v.size - 1), i < v'.size
                 PROVE  <<v'.slots[(i \div 2^v'.log2) + 1], i % 2^v'.log2>> = arnm_bvec_get(i)
      OBVIOUS
    <2>1. Loc(v', i) = Loc(v, i)
      BY NextStep DEF Outcome, Placed
    <2>2. arnm_bvec_get(i) = Loc(v, i)
      BY Reads, Zenon DEF arnm_bvec_get, bucket_of, Loc
    <2>3. <<v'.slots[(i \div 2^v'.log2) + 1], i % 2^v'.log2>> = Loc(v', i)
      BY Zenon DEF Loc, Cap, Pow
    <2> QED BY <2>1, <2>2, <2>3, Zenon
  <1> QED BY <1>1, Inductive, PTL DEF Spec, StableAddresses

\* A record with that many slots in its index array.
HasCap(d, c) == "bucket_capacity" \in DOMAIN d /\ d.bucket_capacity = c

\* Buckets and elements that come leave the index array as wide as it is.
LEMMA WidthKept ==
  ASSUME NEW d, NEW c, HasCap(d, c), NEW at, NEW next
  PROVE  HasCap(with_buckets(d, at), c) /\ HasCap(open_bucket(d, next), c)
  <1> DEFINE s == [i \in DOMAIN d.slots |->
                     IF i - d.allocated_count \in DOMAIN at
                     THEN at[i - d.allocated_count] ELSE d.slots[i]]
             k == d.allocated_count + Len(at)
             e == with_buckets(d, at)
  <1>1. e = [d EXCEPT !.slots = s, !.allocated_count = k]
    BY Zenon DEF with_buckets
  <1> HIDE DEF e, s, k
  <1>2. HasCap(e, c)
    BY <1>1 DEF HasCap
  <1> DEFINE a == d.slots[next + 1]
             z == d.size + 1
             f == open_bucket(d, next)
  <1>3. f = [d EXCEPT !.tail = a, !.tail_index = next, !.tail_used = 1, !.size = z]
    BY DEF open_bucket
  <1> HIDE DEF a, z, f
  <1>4. HasCap(f, c)
    BY <1>3 DEF HasCap
  <1> QED BY <1>2, <1>4 DEF e, f

\* The vector's own, and one that was moved.
LEMMA WidthOf ==
  ASSUME IInv
  PROVE  /\ HasCap(v, v.bucket_capacity) /\ v.bucket_capacity \in Nat
         /\ \A at, n : HasCap(with_index(at, n), n)
  <1>1. v \in Descriptors
    BY DEF IInv, Good, Shape
  <1>2. HasCap(v, v.bucket_capacity) /\ v.bucket_capacity \in Nat
    BY <1>1 DEF HasCap, Descriptors
  <1>3. ASSUME NEW at, NEW n PROVE HasCap(with_index(at, n), n)
    <2> DEFINE s == [i \in 1..n |-> IF i <= v.bucket_capacity THEN v.slots[i] ELSE NULL]
    <2>1. with_index(at, n) = [v EXCEPT !.index = at, !.bucket_capacity = n, !.slots = s]
      BY Zenon DEF with_index
    <2> HIDE DEF s
    <2> QED BY <1>2, <2>1 DEF HasCap
  <1> QED BY <1>2, <1>3

\* No call that makes room, or adds, leaves a narrower index array.
LEMMA NeverNarrower ==
  ASSUME IInv, v.index # NULL,
         (\E n \in Counts : arnm_bvec_reserve(n)) \/ (\E x \in Values \cup {NULL} : append(x))
  PROVE  v'.bucket_capacity # 0
  <1> DEFINE c == v.bucket_capacity
  <1>1. c \in Nat \ {0} /\ HasCap(v, c) /\ v.step \in Nat /\ v \in Descriptors
    <2>1. Shape(v)
      BY StateTyped
    <2> QED BY <2>1, WidthOf, Fields DEF Shape, Indexed
  <1>2. \A at, n : HasCap(with_index(at, n), n)
    BY WidthOf
  <1>3. ASSUME NEW d, NEW m, NEW h, NEW needed, NEW b, HasCap(d, b),
               reserve_buckets(d, m, h, needed)
        PROVE  v'.bucket_capacity = b
    <2>1. \E at : v' = with_buckets(d, at)
      BY <1>3, Zenon DEF reserve_buckets
    <2> QED BY <1>3, <2>1, WidthKept DEF HasCap
  <1>4. ASSUME NEW d, NEW m, NEW h, NEW next, NEW x, NEW b, HasCap(d, b),
               grow_bucket(d, m, h, next, x)
        PROVE  v'.bucket_capacity = b
    <2>1. v' = d \/ \E at : v' = open_bucket(with_buckets(d, at), next)
      BY <1>4, Zenon DEF grow_bucket
    <2>2. CASE v' = d
      BY <1>4, <2>2 DEF HasCap
    <2>3. CASE \E at : v' = open_bucket(with_buckets(d, at), next)
      <3>1. PICK at : v' = open_bucket(with_buckets(d, at), next)
        BY <2>3
      <3> DEFINE e == with_buckets(d, at)
      <3>2. HasCap(e, b)
        BY <1>4, WidthKept
      <3> HIDE DEF e
      <3>3. HasCap(open_bucket(e, next), b)
        BY <3>2, WidthKept
      <3> QED BY <3>1, <3>3 DEF HasCap, e
    <2> QED BY <2>1, <2>2, <2>3
  <1>5. ASSUME v' = v PROVE v'.bucket_capacity # 0
    BY <1>1, <1>5
  <1> HIDE DEF c
  <1>6. ASSUME NEW n \in Counts, arnm_bvec_reserve(n) PROVE v'.bucket_capacity # 0
    <2> DEFINE needed == (n + (bucket_capacity - 1)) \div bucket_capacity
    <2>1. \/ v' = v
          \/ needed <= c /\ reserve_buckets(v, memory, held, needed)
          \/ /\ needed > c
             /\ \E o : reserve_buckets(with_index(o.at, needed), o.memory, o.held, needed)
      <3> HIDE DEF needed
      <3> QED BY <1>6, Zenon DEF arnm_bvec_reserve, Refuse, c, needed
    <2> HIDE DEF needed
    <2>2. CASE needed <= c /\ reserve_buckets(v, memory, held, needed)
      BY <1>1, <1>3, <2>2
    <2>3. CASE needed > c /\ \E o : reserve_buckets(with_index(o.at, needed), o.memory, o.held, needed)
      <3>1. v'.bucket_capacity = needed
        BY <1>2, <1>3, <2>3
      <3>2. needed # 0
        BY <1>1, <2>3
      <3> QED BY <3>1, <3>2
    <2> QED BY <1>5, <2>1, <2>2, <2>3
  <1>7. ASSUME NEW x \in Values \cup {NULL}, append(x) PROVE v'.bucket_capacity # 0
    <2> DEFINE next == arnm_bvec_bucket_count
               wider == c + v.step
    <2>1. \/ v' = v
          \/ v' = [v EXCEPT !.tail_used = @ + 1, !.size = @ + 1]
          \/ v' = open_bucket(v, next)
          \/ grow_bucket(v, memory, held, next, x)
          \/ \E o : grow_bucket(with_index(o.at, wider), o.memory, o.held, next, x)
      BY <1>7, Zenon DEF append, arnm_bvec_grow, Refuse, c
    <2> HIDE DEF next
    <2>2. CASE v' = [v EXCEPT !.tail_used = @ + 1, !.size = @ + 1]
      BY <1>1, <2>2 DEF Descriptors, c
    <2>3. CASE v' = open_bucket(v, next)
      BY <1>1, <2>3, WidthKept DEF HasCap
    <2>4. CASE grow_bucket(v, memory, held, next, x)
      BY <1>1, <1>4, <2>4
    <2>5. CASE \E o : grow_bucket(with_index(o.at, wider), o.memory, o.held, next, x)
      <3>1. v'.bucket_capacity = wider
        BY <1>2, <1>4, <2>5
      <3> QED BY <1>1, <3>1
    <2> QED BY <1>5, <2>1, <2>2, <2>3, <2>4, <2>5
  <1> QED BY <1>6, <1>7

\* An arena the vector took its blocks from in order stands, after free or a
\* shrink that empties it, where it stood before.
THEOREM Unwinds == Spec => FreeUnwindsArena
  <1>1. IInv /\ [Next]_vars =>
          [LaidOutInOrder /\ v'.index = NULL => memory'.last_index = v.index]_vars
    <2> SUFFICES ASSUME IInv, Next, LaidOutInOrder, v'.index = NULL
                 PROVE  memory'.last_index = v.index
      OBVIOUS
    <2>0. v.index # NULL /\ behind_arena /\ v \in Descriptors
      BY DEF LaidOutInOrder, IInv, Good, Shape
    <2>1. CASE arnm_bvec_shrink
      BY <2>0, <2>1, ShrinkStep
    <2>2. CASE arnm_bvec_free
      BY <2>2, FreeUnwinds
    <2>3. CASE \/ \E n \in Counts : arnm_bvec_reserve(n)
               \/ \E x \in Values \cup {NULL} : append(x)
      <3>1. v'.bucket_capacity # 0
        BY <2>0, <2>3, NeverNarrower
      <3>2. Shape(v')
        BY NextStep DEF Outcome, IInv, Good
      <3> QED BY <3>1, <3>2 DEF Shape, Indexed
    <2>4. CASE v' = v
      BY <2>0, <2>4
    <2>5. CASE v' = popped
      BY <2>0, <2>5 DEF popped, Descriptors
    <2>6. CASE arnm_bvec_clear
      BY <2>0, <2>6 DEF arnm_bvec_clear, Descriptors
    <2>7. \/ v' = v \/ v' = popped \/ arnm_bvec_clear \/ arnm_bvec_shrink \/ arnm_bvec_free
          \/ \E n \in Counts : arnm_bvec_reserve(n)
          \/ \E x \in Values \cup {NULL} : append(x)
      <3>1. CASE \E l \in Log2s, g \in Steps, b \in ElementSizes : arnm_bvec_init(l, g, b)
        BY <2>0, <3>1 DEF arnm_bvec_init
      <3>2. CASE arnm_bvec_emplace
        BY <3>2 DEF arnm_bvec_emplace
      <3>3. CASE \E x \in Values : arnm_bvec_push_ptr(x)
        BY <3>3 DEF arnm_bvec_push_ptr
      <3>4. CASE \E i \in 0..(v.size - 1), x \in Values : write_element(i, x)
        BY <3>4 DEF write_element
      <3>5. CASE arnm_bvec_pop
        BY <3>5 DEF arnm_bvec_pop, Refuse
      <3>6. CASE \E n \in {v.size, v.size - 1} \ {-1} : arnm_bvec_copy_to(n)
        BY <3>6 DEF arnm_bvec_copy_to, Refuse
      <3>7. CASE neighbour
        BY <3>7 DEF neighbour
      <3> QED BY <3>1, <3>2, <3>3, <3>4, <3>5, <3>6, <3>7 DEF Next
    <2> QED BY <2>1, <2>2, <2>3, <2>4, <2>5, <2>6, <2>7
  <1> QED BY <1>1, Inductive, PTL DEF Spec, FreeUnwindsArena
=============================================================================
