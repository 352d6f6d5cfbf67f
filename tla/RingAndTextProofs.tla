-------------------------- MODULE RingAndTextProofs --------------------------
(***************************************************************************)
(* Small components that share nothing but this module.                    *)
(*                                                                         *)
(* The ring implements a bounded queue, for every capacity up to half the  *)
(* range of a uint32_t.  The bound is what arnm_fixed_ring_get needs: head *)
(* plus an index stays below twice the capacity, so the 32 bit addition is *)
(* the mathematical one.                                                   *)
(*                                                                         *)
(* The UTF-8 scan answers the longest valid prefix of any text.  Three     *)
(* facts carry it: the table of leads admits exactly the shortest          *)
(* encodings of scalar values (ScalarIsShaped); a lead fixes the width, so *)
(* of two whole prefixes the shorter goes on with a whole encoding         *)
(* (GoesOn); and the scan's index always stands behind a whole prefix      *)
(* (ScanInv).                                                              *)
(*                                                                         *)
(* A read of an object or an array is a fold, taken turn by turn           *)
(* (FoldInTurn).  After k members a fill holds what stands before a cut    *)
(* (FillAt), and the mask a walk keeps says of each entry whether as many  *)
(* members of its name have come by as there are entries of that name up   *)
(* to it (Visits): so the first open entry of a name is the one the next   *)
(* member of that name belongs to (EntryFound).                            *)
(***************************************************************************)
EXTENDS MCText, FixedRing, DataLemmas, SequenceTheorems

-----------------------------------------------------------------------------
(* The ring.                                                               *)

NoWrap == \A n \in Capacities : n + n <= UINT32_MAX + 1

IInv == TypeOK /\ capacity + capacity <= UINT32_MAX + 1

slot_of(h, c, place) == IF h + place >= c THEN h + place - c ELSE h + place

\* Below the bound, get is the wrap the comment describes.
LEMMA GetLemma ==
  ASSUME IInv, NEW place \in 0..capacity, initialized
  PROVE  /\ arnm_fixed_ring_get(place) = slot_of(head, capacity, place)
         /\ slot_of(head, capacity, place) \in 0..(capacity - 1)
  <1>1. /\ capacity \in Nat /\ head \in Nat /\ head < capacity /\ place \in Nat
        /\ UINT32_MAX \in Nat
    BY WidthAssumption DEF IInv, TypeOK, initialized
  <1>2. head + place \in 0..UINT32_MAX
    BY <1>1 DEF IInv
  <1>3. uint32(head + place) = head + place
    BY <1>1, <1>2 DEF uint32
  <1> QED BY <1>1, <1>3 DEF arnm_fixed_ring_get, slot_of

\* Two elements never share a slot.
LEMMA SlotsDistinct ==
  ASSUME NEW c \in Nat, NEW h \in 0..(c - 1), NEW i \in 0..(c - 1), NEW j \in 0..(c - 1),
         i # j
  PROVE  slot_of(h, c, i) # slot_of(h, c, j)
  BY DEF slot_of

\* The queue a ring stands for is a sequence, slot by slot.
LEMMA ContentsSeq ==
  ASSUME IInv
  PROVE  /\ contents \in Seq(Values) /\ Len(contents) = size /\ size \in Nat
         /\ \A i \in 1..size : /\ contents[i] = slots[slot_of(head, capacity, i - 1)]
                                /\ contents[i] \in Values
         /\ DOMAIN contents = 1..size
  <1>1. size \in 0..capacity /\ capacity \in Nat /\ slots \in [0..(capacity - 1) -> Values]
    BY DEF IInv, TypeOK
  <1>2. ASSUME NEW i \in 1..size
        PROVE  /\ contents[i] = slots[slot_of(head, capacity, i - 1)]
               /\ contents[i] \in Values
    <2>1. initialized /\ i - 1 \in 0..capacity
      BY <1>1 DEF initialized
    <2>2. /\ arnm_fixed_ring_get(i - 1) = slot_of(head, capacity, i - 1)
          /\ slot_of(head, capacity, i - 1) \in 0..(capacity - 1)
      BY <2>1, GetLemma
    <2> QED BY <1>1, <2>2 DEF contents
  <1>3. contents \in [1..size -> Values]
    BY <1>2 DEF contents
  <1> QED BY <1>1, <1>2, <1>3

-----------------------------------------------------------------------------
(* Type correctness.                                                       *)

\* A value reduced to the width is in the width.
LEMMA UintLemma ==
  ASSUME NEW n \in Nat
  PROVE  uint32(n) \in 0..UINT32_MAX
  BY WidthAssumption DEF uint32

\* The two runs arnm_fixed_ring_copy_to copies are the queue, in order.
LEMMA CopyLemma ==
  ASSUME IInv
  PROVE  two_runs = contents
  <1>1. /\ size \in 0..capacity /\ capacity \in Nat /\ head \in Nat
        /\ capacity # 0 => head < capacity
    BY DEF IInv, TypeOK, initialized
  <1>2. ASSUME NEW i \in 1..size
        PROVE  two_runs[i] = slots[slot_of(head, capacity, i - 1)]
    BY <1>1 DEF two_runs, slot_of
  <1>3. \A i \in 1..size : two_runs[i] = contents[i]
    BY <1>2, ContentsSeq
  <1> QED BY <1>3 DEF two_runs, contents

\* Every operation keeps the types.
LEMMA TypeStep ==
  ASSUME NoWrap, IInv, [Next]_vars
  PROVE  IInv'
  <1>0. /\ capacity \in 0..UINT32_MAX /\ slots \in [0..(capacity - 1) -> Values]
        /\ head \in 0..UINT32_MAX /\ (initialized => head < capacity)
        /\ size \in 0..capacity /\ element_size \in 0..UINT32_MAX /\ taken \in 0..UINT32_MAX
        /\ out \in Seq(Values)
        /\ result \in Results \cup {NOT_INITIALIZED, OUT_OF_BOUNDS, TOO_SMALL}
        /\ capacity + capacity <= UINT32_MAX + 1 /\ UINT32_MAX \in Nat
    BY WidthAssumption DEF IInv, TypeOK
  <1>1. ASSUME NEW r \in Results \cup {NOT_INITIALIZED, OUT_OF_BOUNDS, TOO_SMALL}, Refuse(r)
        PROVE  IInv'
    BY <1>0, <1>1 DEF Refuse, IInv, TypeOK, initialized
  <1>2. ASSUME NEW n \in Capacities, NEW bytes \in ElementSizes, arnm_fixed_ring_init(n, bytes)
        PROVE  IInv'
    <2>1. CASE \E r \in {INVALID_PARAM, OVERFLOW, OUT_OF_MEMORY} : Refuse(r)
      BY <2>1, <1>1 DEF Results
    <2>2. CASE /\ init_fits(n, bytes)
               /\ \E v \in Values : slots' = [i \in 0..(n - 1) |-> v]
               /\ capacity' = n /\ head' = 0 /\ size' = 0 /\ element_size' = bytes
               /\ taken' = uint32(n * bytes) /\ result' = SUCCESS /\ UNCHANGED out
      <3>1. n \in 0..UINT32_MAX /\ bytes \in 0..UINT32_MAX /\ n + n <= UINT32_MAX + 1 /\ n # 0
        BY <2>2, RingAssumption DEF NoWrap, init_fits, sizes_valid
      <3>2. taken' \in 0..UINT32_MAX
        BY <2>2, <3>1, UintLemma
      <3>3. slots' \in [0..(n - 1) -> Values]
        BY <2>2
      <3> QED BY <2>2, <3>1, <3>2, <3>3, <1>0 DEF IInv, TypeOK, initialized, Results
    <2> QED BY <1>2, <2>1, <2>2 DEF arnm_fixed_ring_init
  <1>3. CASE arnm_fixed_ring_free
    BY <1>0, <1>3 DEF arnm_fixed_ring_free, IInv, TypeOK, NoSlots, initialized, Results
  <1>4. CASE arnm_fixed_ring_clear
    BY <1>0, <1>4 DEF arnm_fixed_ring_clear, IInv, TypeOK, initialized
  <1>5. CASE EmplaceRefused
    BY <1>1, <1>5 DEF EmplaceRefused, Results
  <1>6. CASE arnm_fixed_ring_emplace
    BY <1>0, <1>5, <1>6 DEF arnm_fixed_ring_emplace, emplace_has_room, IInv, TypeOK,
                           initialized, Results
  <1>7. ASSUME NEW v \in Values, arnm_fixed_ring_push_ptr(v) PROVE IInv'
    <2>1. CASE /\ emplace_has_room
               /\ slots' = [slots EXCEPT ![arnm_fixed_ring_get(size)] = v]
               /\ size' = size + 1 /\ result' = SUCCESS
               /\ UNCHANGED <<capacity, head, element_size, taken, out>>
      <3>1. slots' \in [0..(capacity - 1) -> Values]
        BY <1>0, <2>1
      <3>2. size' \in 0..capacity
        BY <1>0, <2>1 DEF emplace_has_room
      <3> QED BY <1>0, <2>1, <3>1, <3>2 DEF IInv, TypeOK, initialized, Results
    <2> QED BY <1>5, <1>7, <2>1 DEF arnm_fixed_ring_push_ptr
  <1>8. ASSUME NEW place \in 0..(size - 1), NEW v \in Values, write_element(place, v)
        PROVE  IInv'
    BY <1>0, <1>8 DEF write_element, IInv, TypeOK, initialized
  <1>9. ASSUME size # 0
        PROVE  /\ advance \in 0..UINT32_MAX /\ advance < capacity
               /\ size - 1 \in 0..capacity /\ initialized
    BY <1>0, <1>9 DEF advance, initialized
  <1>10. CASE arnm_fixed_ring_pop
    <2>1. CASE size = 0 /\ Refuse(OUT_OF_BOUNDS)
      BY <2>1, <1>1
    <2>2. CASE /\ size # 0 /\ head' = advance /\ size' = size - 1 /\ result' = SUCCESS
               /\ UNCHANGED <<slots, capacity, element_size, taken, out>>
      BY <1>0, <1>9, <2>2 DEF IInv, TypeOK, initialized, Results
    <2> QED BY <1>10, <2>1, <2>2 DEF arnm_fixed_ring_pop
  <1>11. CASE arnm_fixed_ring_pop_copy
    <2>1. CASE size = 0 /\ Refuse(OUT_OF_BOUNDS)
      BY <2>1, <1>1
    <2>2. CASE /\ size # 0 /\ out' = << slots[arnm_fixed_ring_get(0)] >>
               /\ head' = advance /\ size' = size - 1 /\ result' = SUCCESS
               /\ UNCHANGED <<slots, capacity, element_size, taken>>
      <3>1. slots[arnm_fixed_ring_get(0)] \in Values
        BY <1>0, <1>9, <2>2, GetLemma
      <3>2. out' \in Seq(Values)
        BY <2>2, <3>1
      <3> QED BY <1>0, <1>9, <2>2, <3>2 DEF IInv, TypeOK, initialized, Results
    <2> QED BY <1>11, <2>1, <2>2 DEF arnm_fixed_ring_pop_copy
  <1>12. ASSUME NEW n, arnm_fixed_ring_copy_to(n) PROVE IInv'
    <2>1. CASE \E r \in {TOO_SMALL, SUCCESS} : Refuse(r)
      BY <2>1, <1>1 DEF Results
    <2>2. CASE /\ out' = two_runs /\ result' = SUCCESS
               /\ UNCHANGED <<slots, capacity, head, size, element_size, taken>>
      <3>1. out' \in Seq(Values)
        BY <2>2, CopyLemma, ContentsSeq
      <3> QED BY <1>0, <2>2, <3>1 DEF IInv, TypeOK, initialized, Results
    <2> QED BY <1>12, <2>1, <2>2 DEF arnm_fixed_ring_copy_to
  <1>13. CASE UNCHANGED vars
    BY <1>0, <1>13 DEF vars, IInv, TypeOK, initialized
  <1> QED BY <1>2, <1>3, <1>4, <1>6, <1>7, <1>8, <1>10, <1>11, <1>12, <1>13
         DEF Next

\* A zeroed ring has them.
LEMMA TypeInit == Init => IInv
  BY WidthAssumption DEF Init, IInv, TypeOK, NoSlots, initialized, Results

\* The descriptor of a ring up to half the range stays well formed.
THEOREM TypeCorrect ==
  ASSUME NoWrap
  PROVE  Spec => []TypeOK
  <1>1. IInv /\ [Next]_vars => IInv'
    BY TypeStep
  <1>2. IInv => TypeOK
    BY DEF IInv
  <1> QED BY <1>1, <1>2, TypeInit, PTL DEF Spec

-----------------------------------------------------------------------------
(* The ring implements the queue.                                          *)

\* A block of n elements of the given size, n bounded by the division, holds
\* at most ARNM_MAX_ALLOC_SIZE bytes.
LEMMA DivisionBound ==
  ASSUME NEW n \in Nat, NEW b \in Nat \ {0}, NEW m \in Nat, n <= m \div b
  PROVE  n * b <= m
  <1>1. m \div b \in Nat /\ (m \div b) * b <= m
    OBVIOUS
  <1>2. n * b <= (m \div b) * b
    BY <1>1
  <1> QED BY <1>1, <1>2

\* Two descriptors that agree element for element hold the same queue.
SeqFacts ==
  /\ contents \in Seq(Values) /\ Len(contents) = size /\ size \in Nat
  /\ \A i \in 1..size : contents[i] = slots[slot_of(head, capacity, i - 1)]

\* The facts about the queue, in the next state.
LEMMA SeqFactsPrimed == IInv' => SeqFacts'
  <1>1. IInv => SeqFacts
    BY ContentsSeq DEF SeqFacts
  <1> QED BY <1>1, PTL

\* The next queue is the sequence its slots spell.
LEMMA ContentsPrimed ==
  ASSUME IInv, IInv', NEW q \in Seq(Values), Len(q) = size',
         \A i \in 1..size' : q[i] = slots'[slot_of(head', capacity', i - 1)]
  PROVE  contents' = q
  <1>1. /\ contents' \in Seq(Values) /\ Len(contents') = size' /\ size' \in Nat
        /\ \A i \in 1..size' : contents'[i] = slots'[slot_of(head', capacity', i - 1)]
    BY SeqFactsPrimed DEF SeqFacts
  <1> QED BY <1>1

\* No element, empty queue.
LEMMA EmptyContents ==
  ASSUME IInv', size' = 0
  PROVE  contents' = << >>
  BY DEF contents

\* A call that leaves the ring alone leaves the queue alone.
LEMMA SameContents ==
  ASSUME UNCHANGED <<slots, capacity, head, size>>
  PROVE  contents' = contents /\ capacity' = capacity
  BY DEF contents, arnm_fixed_ring_get

\* One more element at the back.
LEMMA PushQueue ==
  ASSUME IInv, IInv', NEW v \in Values, initialized, size # capacity, size' = size + 1,
         slots' = [slots EXCEPT ![slot_of(head, capacity, size)] = v],
         UNCHANGED <<capacity, head>>
  PROVE  contents' = Append(contents, v) /\ Len(contents) < capacity
  <1>1. /\ size \in 0..(capacity - 1) /\ capacity \in Nat /\ head \in 0..(capacity - 1)
        /\ slots \in [0..(capacity - 1) -> Values]
    BY DEF IInv, TypeOK, initialized
  <1>2. contents \in Seq(Values) /\ Len(contents) = size
    BY ContentsSeq
  <1> DEFINE q == Append(contents, v)
  <1>3. q \in Seq(Values) /\ Len(q) = size + 1
    BY <1>2
  <1>4. ASSUME NEW i \in 1..(size + 1)
        PROVE  q[i] = slots'[slot_of(head, capacity, i - 1)]
    <2>1. slot_of(head, capacity, i - 1) \in 0..(capacity - 1)
      BY <1>1 DEF slot_of
    <2>2. CASE i = size + 1
      <3>1. q[i] = v
        BY <1>2, <2>2
      <3>2. i - 1 = size
        BY <2>2, <1>1
      <3> QED BY <1>1, <2>1, <3>1, <3>2
    <2>3. CASE i # size + 1
      <3>1. i \in 1..size /\ i - 1 \in 0..(capacity - 1) /\ i - 1 # size
        BY <1>1, <2>3
      <3>2. slot_of(head, capacity, i - 1) # slot_of(head, capacity, size)
        BY <1>1, <3>1, SlotsDistinct
      <3>3. slots'[slot_of(head, capacity, i - 1)] = slots[slot_of(head, capacity, i - 1)]
        BY <1>1, <2>1, <3>2
      <3>4. q[i] = contents[i]
        BY <1>2, <3>1
      <3> QED BY <3>1, <3>3, <3>4, ContentsSeq
    <2> QED BY <2>2, <2>3
  <1>5. contents' = q
    <2> HIDE DEF q
    <2> QED BY <1>3, <1>4, ContentsPrimed
  <1> QED BY <1>1, <1>2, <1>5

\* The front element leaves and the rest keeps its order.
LEMMA PopQueue ==
  ASSUME IInv, IInv', size # 0, head' = advance, size' = size - 1, UNCHANGED <<slots, capacity>>
  PROVE  contents' = Tail(contents) /\ contents # << >>
         /\ slots[arnm_fixed_ring_get(0)] = Head(contents)
  <1>1. /\ size \in 1..capacity /\ capacity \in Nat /\ head \in 0..(capacity - 1)
        /\ initialized
    BY DEF IInv, TypeOK, initialized
  <1>2. contents \in Seq(Values) /\ Len(contents) = size /\ contents # << >>
    BY <1>1, ContentsSeq
  <1> DEFINE q == Tail(contents)
  <1>3. q \in Seq(Values) /\ Len(q) = size - 1 /\ \A i \in 1..(size - 1) : q[i] = contents[i + 1]
    BY <1>2
  <1>4. ASSUME NEW i \in 1..(size - 1)
        PROVE  q[i] = slots'[slot_of(head', capacity', i - 1)]
    <2>1. slot_of(head', capacity', i - 1) = slot_of(head, capacity, i)
      BY <1>1 DEF slot_of, advance
    <2>2. i + 1 \in 1..size /\ (i + 1) - 1 = i
      BY <1>1
    <2> QED BY <1>3, <2>1, <2>2, ContentsSeq
  <1>5. contents' = q
    <2> HIDE DEF q
    <2> QED BY <1>3, <1>4, ContentsPrimed
  <1>6. Head(contents) = contents[1]
    BY <1>2
  <1>7. slots[arnm_fixed_ring_get(0)] = contents[1]
    BY <1>1 DEF contents
  <1> QED BY <1>2, <1>5, <1>6, <1>7

\* A write through an element's address changes that element and no other.
LEMMA WriteQueue ==
  ASSUME IInv, IInv', NEW place \in 0..(size - 1), NEW v \in Values, write_element(place, v)
  PROVE  contents' = [contents EXCEPT ![place + 1] = v] /\ place + 1 \in 1..Len(contents)
  <1>1. /\ size \in 1..capacity /\ capacity \in Nat /\ head \in 0..(capacity - 1)
        /\ slots \in [0..(capacity - 1) -> Values] /\ initialized /\ place \in 0..(capacity - 1)
    BY WidthAssumption DEF IInv, TypeOK, initialized
  <1>2. contents \in Seq(Values) /\ Len(contents) = size /\ DOMAIN contents = 1..size
    BY ContentsSeq
  <1>3. slots' = [slots EXCEPT ![slot_of(head, capacity, place)] = v]
    <2>1. place \in 0..capacity
      BY <1>1
    <2>2. arnm_fixed_ring_get(place) = slot_of(head, capacity, place)
      BY <1>1, <2>1, GetLemma
    <2> QED BY <2>2 DEF write_element
  <1> DEFINE q == [contents EXCEPT ![place + 1] = v]
  <1>4. q \in Seq(Values) /\ Len(q) = size
    BY <1>2
  <1>5. ASSUME NEW i \in 1..size
        PROVE  q[i] = slots'[slot_of(head, capacity, i - 1)]
    <2>1. slot_of(head, capacity, i - 1) \in 0..(capacity - 1) /\ i - 1 \in 0..(capacity - 1)
      BY <1>1 DEF slot_of
    <2>2. CASE i = place + 1
      <3>1. i - 1 = place /\ q[i] = v
        BY <1>2, <2>2
      <3> QED BY <1>1, <1>3, <2>1, <3>1
    <2>3. CASE i # place + 1
      <3>1. slot_of(head, capacity, i - 1) # slot_of(head, capacity, place)
        BY <1>1, <2>1, <2>3, SlotsDistinct
      <3>2. q[i] = contents[i]
        BY <1>2, <2>3
      <3> QED BY <1>1, <1>3, <2>1, <3>1, <3>2, ContentsSeq
    <2> QED BY <2>2, <2>3
  <1>6. contents' = q
    <2> HIDE DEF q
    <2> QED BY <1>4, <1>5, ContentsPrimed DEF write_element
  <1> QED BY <1>1, <1>2, <1>6

\* Every step of the ring is a step of the queue or leaves it alone.
LEMMA QueueStep ==
  ASSUME IInv, IInv', [Next]_vars
  PROVE  [Queue!Next]_<<contents, capacity, out>>
  <1>1. ASSUME NEW r, Refuse(r)
        PROVE  UNCHANGED <<contents, capacity, out>>
    BY <1>1, SameContents DEF Refuse
  <1>2. ASSUME NEW n \in Capacities, NEW bytes \in ElementSizes, arnm_fixed_ring_init(n, bytes)
        PROVE  Queue!Open(n) \/ UNCHANGED <<contents, capacity, out>>
    <2>1. CASE \E r \in {INVALID_PARAM, OVERFLOW, OUT_OF_MEMORY} : Refuse(r)
      BY <2>1, <1>1
    <2>2. CASE /\ init_fits(n, bytes) /\ capacity' = n /\ size' = 0 /\ UNCHANGED out
      <3>1. n \in Nat /\ n # 0
        BY <2>2, RingAssumption DEF init_fits, sizes_valid
      <3>2. contents' = << >>
        BY <2>2, EmptyContents
      <3> QED BY <1>2, <2>2, <3>1, <3>2 DEF Queue!Open, arnm_fixed_ring_init, initialized
    <2> QED BY <1>2, <2>1, <2>2 DEF arnm_fixed_ring_init
  <1>3. CASE arnm_fixed_ring_free
    BY <1>3, EmptyContents DEF arnm_fixed_ring_free, Queue!Next, Queue!Close
  <1>4. CASE arnm_fixed_ring_clear
    BY <1>4, EmptyContents DEF arnm_fixed_ring_clear, Queue!Next, Queue!Clear
  <1>5. ASSUME emplace_has_room
        PROVE  /\ initialized /\ size # capacity /\ slots \in [0..(capacity - 1) -> Values]
               /\ slot_of(head, capacity, size) \in 0..(capacity - 1)
               /\ arnm_fixed_ring_get(size) = slot_of(head, capacity, size)
    <2>1. initialized /\ size # capacity /\ size \in 0..capacity
          /\ slots \in [0..(capacity - 1) -> Values]
      BY <1>5 DEF emplace_has_room, IInv, TypeOK
    <2> QED BY <2>1, GetLemma
  <1>6. CASE arnm_fixed_ring_emplace
    <2>1. CASE EmplaceRefused
      BY <2>1, <1>1 DEF EmplaceRefused
    <2>2. CASE /\ emplace_has_room /\ size' = size + 1
               /\ UNCHANGED <<slots, capacity, head, element_size, taken, out>>
      <3> DEFINE v == slots[slot_of(head, capacity, size)]
      <3>1. v \in Values /\ slots' = [slots EXCEPT ![slot_of(head, capacity, size)] = v]
        BY <1>5, <2>2
      <3>2. contents' = Append(contents, v) /\ Len(contents) < capacity
        <4> HIDE DEF v
        <4> QED BY <1>5, <2>2, <3>1, PushQueue
      <3> HIDE DEF v
      <3> QED BY <2>2, <3>1, <3>2 DEF Queue!Next, Queue!Enqueue
    <2> QED BY <1>6, <2>1, <2>2 DEF arnm_fixed_ring_emplace
  <1>7. ASSUME NEW v \in Values, arnm_fixed_ring_push_ptr(v)
        PROVE  Queue!Enqueue(v) \/ UNCHANGED <<contents, capacity, out>>
    <2>1. CASE EmplaceRefused
      BY <2>1, <1>1 DEF EmplaceRefused
    <2>2. CASE /\ emplace_has_room /\ size' = size + 1
               /\ slots' = [slots EXCEPT ![arnm_fixed_ring_get(size)] = v]
               /\ UNCHANGED <<capacity, head, element_size, taken, out>>
      <3>1. contents' = Append(contents, v) /\ Len(contents) < capacity
        BY <1>5, <2>2, PushQueue
      <3> QED BY <2>2, <3>1 DEF Queue!Enqueue
    <2> QED BY <1>7, <2>1, <2>2 DEF arnm_fixed_ring_push_ptr
  <1>8. ASSUME NEW place \in 0..(size - 1), NEW v \in Values, write_element(place, v)
        PROVE  Queue!Next
    <2>1. contents' = [contents EXCEPT ![place + 1] = v] /\ place + 1 \in 1..Len(contents)
      BY <1>8, WriteQueue
    <2>2. Queue!Update(place + 1, v)
      BY <1>8, <2>1 DEF write_element, Queue!Update
    <2> QED BY <2>1, <2>2 DEF Queue!Next
  <1>9. CASE arnm_fixed_ring_pop
    <2>1. CASE size = 0 /\ Refuse(OUT_OF_BOUNDS)
      BY <2>1, <1>1
    <2>2. CASE /\ size # 0 /\ head' = advance /\ size' = size - 1
               /\ UNCHANGED <<slots, capacity, element_size, taken, out>>
      <3>1. contents' = Tail(contents) /\ contents # << >>
        BY <2>2, PopQueue
      <3> QED BY <2>2, <3>1 DEF Queue!Next, Queue!Dequeue
    <2> QED BY <1>9, <2>1, <2>2 DEF arnm_fixed_ring_pop
  <1>10. CASE arnm_fixed_ring_pop_copy
    <2>1. CASE size = 0 /\ Refuse(OUT_OF_BOUNDS)
      BY <2>1, <1>1
    <2>2. CASE /\ size # 0 /\ head' = advance /\ size' = size - 1
               /\ out' = << slots[arnm_fixed_ring_get(0)] >>
               /\ UNCHANGED <<slots, capacity, element_size, taken>>
      <3>1. /\ contents' = Tail(contents) /\ contents # << >>
            /\ slots[arnm_fixed_ring_get(0)] = Head(contents)
        BY <2>2, PopQueue
      <3> QED BY <2>2, <3>1 DEF Queue!Next, Queue!DequeueCopy
    <2> QED BY <1>10, <2>1, <2>2 DEF arnm_fixed_ring_pop_copy
  <1>11. ASSUME NEW n, arnm_fixed_ring_copy_to(n)
         PROVE  Queue!CopyAll \/ UNCHANGED <<contents, capacity, out>>
    <2>1. CASE \E r \in {TOO_SMALL, SUCCESS} : Refuse(r)
      BY <2>1, <1>1
    <2>2. CASE /\ out' = two_runs
               /\ UNCHANGED <<slots, capacity, head, size, element_size, taken>>
      BY <2>2, CopyLemma, SameContents DEF Queue!CopyAll
    <2> QED BY <1>11, <2>1, <2>2 DEF arnm_fixed_ring_copy_to
  <1>12. CASE UNCHANGED vars
    BY <1>12, SameContents DEF vars
  <1> QED BY <1>2, <1>3, <1>4, <1>6, <1>7, <1>8, <1>9, <1>10, <1>11, <1>12
         DEF Next, Queue!Next

\* The ring is a bounded queue: elements leave in the order they arrived,
\* through any number of wraps, for every capacity up to half the range.
THEOREM RingIsBoundedQueue ==
  ASSUME NoWrap
  PROVE  Spec => IsBoundedQueue
  <1>1. IInv /\ [Next]_vars => IInv'
    BY TypeStep
  <1>2. IInv /\ IInv' /\ [Next]_vars => [Queue!Next]_<<contents, capacity, out>>
    BY QueueStep
  <1>3. Init => Queue!Init
    BY DEF Init, Queue!Init, contents
  <1> QED BY <1>1, <1>2, <1>3, TypeInit, PTL DEF Spec, IsBoundedQueue, Queue!Spec

\* The division init asks keeps the byte count of the block inside its width,
\* so that free names the size init took.
BlockInv == /\ capacity \in Nat /\ element_size \in Nat
            /\ taken = capacity * element_size /\ taken \in 0..UINT32_MAX

\* Every operation keeps block and slots in step.
LEMMA BlockStep ==
  ASSUME BlockInv, [Next]_vars
  PROVE  BlockInv'
  <1>1. CASE UNCHANGED <<capacity, element_size, taken>>
    BY <1>1 DEF BlockInv
  <1>2. CASE arnm_fixed_ring_free
    BY <1>2, WidthAssumption DEF arnm_fixed_ring_free, BlockInv
  <1>3. ASSUME NEW n \in Capacities, NEW bytes \in ElementSizes, init_fits(n, bytes),
               capacity' = n, element_size' = bytes, taken' = uint32(n * bytes)
        PROVE  BlockInv'
    <2>1. n \in Nat /\ bytes \in Nat \ {0} /\ UINT32_MAX \in Nat
          /\ ARNM_MAX_ALLOC_SIZE \in 0..UINT32_MAX
      BY <1>3, RingAssumption, WidthAssumption DEF init_fits, sizes_valid, ARNM_MAX_ALLOC_SIZE
    <2>2. n * bytes <= ARNM_MAX_ALLOC_SIZE
      BY <1>3, <2>1, DivisionBound DEF init_fits
    <2>3. n * bytes \in 0..UINT32_MAX
      BY <2>1, <2>2
    <2>4. uint32(n * bytes) = n * bytes
      <3> DEFINE k == n * bytes
      <3>1. k \in 0..UINT32_MAX
        BY <2>3
      <3> HIDE DEF k
      <3>2. uint32(k) = k
        BY <3>1, <2>1 DEF uint32
      <3> QED BY <3>2 DEF k
    <2> QED BY <1>3, <2>1, <2>3, <2>4 DEF BlockInv
  <1>4. ASSUME NEW r, Refuse(r) PROVE BlockInv'
    BY <1>4, <1>1 DEF Refuse
  <1>5. ASSUME NEW n \in Capacities, NEW bytes \in ElementSizes, arnm_fixed_ring_init(n, bytes)
        PROVE  BlockInv'
    BY <1>3, <1>4, <1>5 DEF arnm_fixed_ring_init
  <1> QED BY <1>1, <1>2, <1>5
         DEF Next, vars, arnm_fixed_ring_clear, arnm_fixed_ring_emplace, EmplaceRefused,
             arnm_fixed_ring_push_ptr, write_element, arnm_fixed_ring_pop,
             arnm_fixed_ring_pop_copy, arnm_fixed_ring_copy_to, Refuse

\* The block always holds every slot, and free names exactly what init took:
\* for every capacity init accepts, the wide ones included.
THEOREM BlockHolds == Spec => []BlockHoldsSlots
  <1>1. Init => BlockInv
    BY WidthAssumption DEF Init, BlockInv
  <1>2. BlockInv /\ [Next]_vars => BlockInv'
    BY BlockStep
  <1>3. BlockInv => BlockHoldsSlots
    <2>1. ASSUME NEW k \in 0..UINT32_MAX PROVE uint32(k) = k
      BY WidthAssumption DEF uint32
    <2> QED BY <2>1 DEF BlockInv, BlockHoldsSlots, block_bytes
  <1> QED BY <1>1, <1>2, <1>3, PTL DEF Spec

-----------------------------------------------------------------------------
(* Counting along a line.                                                  *)

\* How many of A are among the first k.
CountTo(A, k) == Cardinality(A \cap (1..k))

\* One place further there is one more, or there is not.
LEMMA CountStep ==
  ASSUME NEW A, NEW k \in Nat
  PROVE  /\ CountTo(A, 0) = 0
         /\ CountTo(A, k) \in Nat
         /\ k + 1 \in A => CountTo(A, k + 1) = CountTo(A, k) + 1
         /\ k + 1 \notin A => CountTo(A, k + 1) = CountTo(A, k)
  <1> DEFINE S == A \cap (1..k)
             T == A \cap (1..(k + 1))
  <1>1. IsFiniteSet(S)
    <2>1. IsFiniteSet(1..k)
      BY FS_Interval, 1 \in Int, k \in Int
    <2> QED BY <2>1, FS_Subset
  <1>2. A \cap (1..0) = {}
    OBVIOUS
  <1>3. k + 1 \in A => T = S \cup {k + 1}
    OBVIOUS
  <1>4. k + 1 \notin A => T = S
    <2>1. \A j \in 1..(k + 1) : j \in 1..k \/ j = k + 1
      OBVIOUS
    <2> QED BY <2>1
  <1>5. k + 1 \notin S
    OBVIOUS
  <1> HIDE DEF S, T
  <1>6. Cardinality(S) \in Nat /\ Cardinality(S \cup {k + 1}) = Cardinality(S) + 1
    BY <1>1, <1>5, FS_CardinalityType, FS_AddElement
  <1>7. CountTo(A, k) = Cardinality(S) /\ CountTo(A, k + 1) = Cardinality(T)
    BY DEF CountTo, S, T
  <1>8. CountTo(A, 0) = 0
    BY <1>2, FS_EmptySet DEF CountTo
  <1> QED BY <1>3, <1>4, <1>6, <1>7, <1>8

\* The count never falls, and passes every number on its way.
LEMMA CountReaches ==
  ASSUME NEW A, NEW k \in Nat, NEW d \in 1..CountTo(A, k)
  PROVE  \E m \in 1..k : m \in A /\ CountTo(A, m) = d
  <1> DEFINE Q(n) == \A e \in 1..CountTo(A, n) : \E m \in 1..n : m \in A /\ CountTo(A, m) = e
             P == {n \in Nat : Q(n)}
  <1>1. 0 \in P
    <2>1. \A e \in 1..CountTo(A, 0) : FALSE
      BY CountStep
    <2> QED BY <2>1
  <1>2. ASSUME NEW n \in P PROVE n + 1 \in P
    <2>1. n \in Nat /\ Q(n)
      BY <1>2
    <2>2. ASSUME NEW e \in 1..CountTo(A, n + 1)
          PROVE  \E m \in 1..(n + 1) : m \in A /\ CountTo(A, m) = e
      <3>1. CountTo(A, n) \in Nat
        BY <2>1, CountStep
      <3>2. CASE e \in 1..CountTo(A, n)
        <4>1. PICK m \in 1..n : m \in A /\ CountTo(A, m) = e
          BY <2>1, <3>2
        <4>2. m \in 1..(n + 1)
          BY <2>1
        <4> QED BY <4>1, <4>2
      <3>3. CASE e \notin 1..CountTo(A, n)
        <4>1. n + 1 \in A /\ CountTo(A, n + 1) = e
          <5>1. n + 1 \notin A => CountTo(A, n + 1) = CountTo(A, n)
            BY <2>1, CountStep
          <5>2. n + 1 \in A => CountTo(A, n + 1) = CountTo(A, n) + 1
            BY <2>1, CountStep
          <5> QED BY <3>1, <3>3, <5>1, <5>2
        <4>2. n + 1 \in 1..(n + 1)
          BY <2>1
        <4> QED BY <4>1, <4>2
      <3> QED BY <3>2, <3>3
    <2>3. Q(n + 1)
      BY <2>2
    <2> HIDE DEF Q
    <2> QED BY <2>1, <2>3
  <1>3. P = Nat
    <2> HIDE DEF P
    <2> QED BY <1>1, <1>2, NatSetInduction, P \in SUBSET Nat DEF P
  <1>4. Q(k)
    <2> HIDE DEF Q
    <2> QED BY <1>3
  <1> QED BY <1>4

\* It grows with the place, and at a place of A past all before it.
LEMMA CountGrows ==
  ASSUME NEW A, NEW j \in Nat, NEW k \in Nat, j <= k
  PROVE  /\ CountTo(A, j) <= CountTo(A, k)
         /\ k \in A /\ j < k => CountTo(A, j) < CountTo(A, k)
         /\ CountTo(A, k) <= k
  <1> DEFINE Q(n) == j <= n => CountTo(A, j) <= CountTo(A, n)
             P == {n \in Nat : Q(n) /\ CountTo(A, n) <= n}
  <1>1. 0 \in P
    <2>1. CountTo(A, 0) = 0
      BY CountStep
    <2>2. j <= 0 => j = 0
      OBVIOUS
    <2> QED BY <2>1, <2>2
  <1>2. ASSUME NEW n \in P PROVE n + 1 \in P
    <2>1. n \in Nat /\ Q(n) /\ CountTo(A, n) <= n
      BY <1>2
    <2>2. /\ CountTo(A, n) \in Nat /\ CountTo(A, j) \in Nat /\ CountTo(A, n + 1) \in Nat
          /\ CountTo(A, n) <= CountTo(A, n + 1) /\ CountTo(A, n + 1) <= CountTo(A, n) + 1
      <3>1. CountTo(A, n) \in Nat /\ CountTo(A, j) \in Nat
        BY <2>1, CountStep
      <3>2. CountTo(A, n + 1) = CountTo(A, n) \/ CountTo(A, n + 1) = CountTo(A, n) + 1
        BY <2>1, CountStep
      <3> QED BY <3>1, <3>2
    <2>3. Q(n + 1)
      <3>1. CASE j <= n
        BY <2>1, <2>2, <3>1
      <3>2. CASE j = n + 1
        BY <2>2, <3>2
      <3>3. CASE j > n + 1
        BY <2>1, <3>3
      <3> QED BY <2>1, <3>1, <3>2, <3>3
    <2> HIDE DEF Q
    <2> QED BY <2>1, <2>2, <2>3
  <1>3. P = Nat
    <2> HIDE DEF P
    <2> QED BY <1>1, <1>2, NatSetInduction, P \in SUBSET Nat DEF P
  <1>4. \A n \in Nat : Q(n) /\ CountTo(A, n) <= n
    <2> HIDE DEF Q
    <2> QED BY <1>3
  <1>5. CountTo(A, j) <= CountTo(A, k) /\ CountTo(A, k) <= k
    BY <1>4
  <1>6. ASSUME k \in A, j < k PROVE CountTo(A, j) < CountTo(A, k)
    <2>1. k - 1 \in Nat /\ j <= k - 1 /\ (k - 1) + 1 = k
      BY <1>6
    <2>2. CountTo(A, j) <= CountTo(A, k - 1)
      BY <1>4, <2>1
    <2>3. CountTo(A, k) = CountTo(A, k - 1) + 1
      <3> DEFINE p == k - 1
      <3>1. p \in Nat /\ p + 1 = k
        BY <2>1
      <3> HIDE DEF p
      <3>2. CountTo(A, p + 1) = CountTo(A, p) + 1
        BY <1>6, <3>1, CountStep
      <3> QED BY <3>1, <3>2 DEF p
    <2>4. CountTo(A, j) \in Nat /\ CountTo(A, k - 1) \in Nat
      BY <2>1, CountStep
    <2> QED BY <2>2, <2>3, <2>4
  <1> QED BY <1>5, <1>6

-----------------------------------------------------------------------------
(* The folds.                                                              *)

\* One more continuation of a code point.
Higher(high, c) == 64 * high + (c % 64)

\* A turn of one of the folds the text routines are: a code point's, a
\* walk's over the members of an object, a fill's over those of an array.
Turn(how, s, x) ==
  CASE how.kind = "point" -> Higher(s, x)
    [] how.kind = "walk"  -> step(s, how.with, x)
    [] how.kind = "fill"  -> fill(s, how.with, x)

\* The library's fold is a recursive function of the sets of places.
Folding(how, b, q, n, f) ==
  [S \in SUBSET (1..n) |->
     IF S = {} THEN b ELSE Turn(how, f[S \ {Max(S)}], q[Max(S)])]

\* The greatest of the first n places is the last.
LEMMA LastOf ==
  ASSUME NEW n \in Nat, NEW S \in SUBSET (1..n), n \in S
  PROVE  Max(S) = n
  <1>1. n \in S /\ \A y \in S : n >= y
    OBVIOUS
  <1>2. Max(S) \in S /\ \A y \in S : Max(S) >= y
    BY <1>1 DEF Max
  <1> DEFINE x == Max(S)
  <1>3. x \in S /\ x >= n /\ n >= x
    BY <1>1, <1>2
  <1> HIDE DEF x
  <1>4. x \in Nat
    BY <1>3
  <1>5. x = n
    BY <1>3, <1>4
  <1> QED BY <1>5 DEF x

\* A set of numbers with a member has a least one.
LEMMA MinOf ==
  ASSUME NEW S \in SUBSET Nat, S # {}
  PROVE  Min(S) \in S /\ \A y \in S : Min(S) <= y
  <1> DEFINE R == {ss \in Nat \X Nat : ss[1] < ss[2]}
  <1>1. PICK x \in S : \A y \in Nat : <<y, x>> \in R => y \notin S
    <2> HIDE DEF R
    <2> QED BY NatWF, WFMin DEF R
  <1>2. ASSUME NEW y \in S PROVE x <= y
    <2>1. y \in Nat /\ x \in Nat
      OBVIOUS
    <2>2. y < x => <<y, x>> \in R
      BY <2>1
    <2> QED BY <1>1, <2>1, <2>2
  <1> QED BY <1>2 DEF Min

\* Such a function exists, for as many places as there are.
LEMMA FoldingExists ==
  ASSUME NEW how, NEW b, NEW q, NEW N \in Nat
  PROVE  \E f : f = Folding(how, b, q, N, f)
  <1> DEFINE Is(f, n) == f = Folding(how, b, q, n, f)
             P == {n \in Nat : \E f : Is(f, n)}
  <1>1. 0 \in P
    <2> DEFINE f == [S \in SUBSET (1..0) |-> b]
    <2>1. \A S \in SUBSET (1..0) : S = {}
      OBVIOUS
    <2>2. Is(f, 0)
      BY <2>1 DEF Folding
    <2> HIDE DEF f, Is
    <2> QED BY <2>2
  <1>2. ASSUME NEW n \in P PROVE n + 1 \in P
    <2>1. n \in Nat /\ n + 1 \in Nat
      BY <1>2
    <2>2. PICK f : Is(f, n)
      BY <1>2
    <2> DEFINE t == n + 1
               g == [S \in SUBSET (1..t) |->
                       IF t \in S THEN Turn(how, f[S \ {t}], q[t]) ELSE f[S]]
    <2>3. \A S \in SUBSET (1..t) : t \notin S => S \in SUBSET (1..n)
      BY <2>1
    <2>4. \A S \in SUBSET (1..n) :
             f[S] = IF S = {} THEN b ELSE Turn(how, f[S \ {Max(S)}], q[Max(S)])
      BY <2>2 DEF Folding
    <2>5. ASSUME NEW S \in SUBSET (1..t)
          PROVE  g[S] = IF S = {} THEN b ELSE Turn(how, g[S \ {Max(S)}], q[Max(S)])
      <3>1. CASE t \in S
        <4>1. Max(S) = t
          BY <2>1, <3>1, LastOf
        <4>2. S \ {t} \in SUBSET (1..t) /\ t \notin S \ {t} /\ S # {}
          BY <3>1
        <4>3. g[S \ {t}] = f[S \ {t}] /\ g[S] = Turn(how, f[S \ {t}], q[t])
          BY <3>1, <4>2
        <4> HIDE DEF g, t
        <4> QED BY <4>1, <4>2, <4>3, Zenon
      <3>2. CASE t \notin S
        <4> DEFINE x == Max(S)
        <4>1. /\ S \in SUBSET (1..n) /\ S \ {x} \in SUBSET (1..n) /\ t \notin S \ {x}
              /\ S \ {x} \in SUBSET (1..t)
          BY <2>3, <3>2
        <4>2. f[S] = IF S = {} THEN b ELSE Turn(how, f[S \ {x}], q[x])
          BY <2>4, <4>1
        <4>3. g[S] = f[S] /\ g[S \ {x}] = f[S \ {x}]
          <5> HIDE DEF x
          <5> QED BY <3>2, <4>1
        <4> HIDE DEF g, t
        <4> QED BY <4>2, <4>3, Zenon
      <3> QED BY <3>1, <3>2
    <2>6. g = [S \in SUBSET (1..t) |-> g[S]]
      OBVIOUS
    <2>7. Is(g, t)
      <3> HIDE DEF g, t
      <3>1. Folding(how, b, q, t, g) = [S \in SUBSET (1..t) |-> g[S]]
        BY <2>5, Zenon DEF Folding
      <3> QED BY <2>6, <3>1
    <2> HIDE DEF g, Is
    <2> QED BY <2>1, <2>7
  <1>3. P = Nat
    <2> HIDE DEF P
    <2> QED BY <1>1, <1>2, NatSetInduction, P \in SUBSET Nat DEF P
  <1> QED BY <1>3

\* H[i] is what the first i turns make of b.
InTurn(H, how, b, q, n) ==
  /\ H[0] = b
  /\ \A i \in 1..n : H[i] = Turn(how, H[i - 1], q[i])

\* The fold takes its turns one after the other.
LEMMA FoldInTurn ==
  ASSUME NEW how, NEW b, NEW q, NEW n \in Nat, NEW f, f = Folding(how, b, q, n, f)
  PROVE  \E H : InTurn(H, how, b, q, n) /\ H[n] = f[1..n]
  <1> DEFINE H == [i \in 0..n |-> f[1..i]]
  <1>1. \A S \in SUBSET (1..n) :
           f[S] = IF S = {} THEN b ELSE Turn(how, f[S \ {Max(S)}], q[Max(S)])
    BY DEF Folding
  <1>2. H[0] = b
    <2>1. 1..0 = {} /\ 0 \in 0..n /\ {} \in SUBSET (1..n)
      OBVIOUS
    <2>2. f[{}] = b
      BY <1>1, <2>1
    <2> QED BY <2>1, <2>2
  <1>3. ASSUME NEW i \in 1..n PROVE H[i] = Turn(how, H[i - 1], q[i])
    <2> DEFINE S == 1..i
    <2>1. /\ i \in Nat /\ S \in SUBSET (1..n) /\ S # {} /\ i \in S /\ S \in SUBSET (1..i)
          /\ i \in 0..n /\ i - 1 \in 0..n
      OBVIOUS
    <2>2. S \ {i} = 1..(i - 1)
      OBVIOUS
    <2>3. H[i] = f[S] /\ H[i - 1] = f[1..(i - 1)]
      BY <2>1
    <2> HIDE DEF S, H
    <2>4. Max(S) = i
      BY <2>1, LastOf
    <2>5. f[S] = Turn(how, f[S \ {Max(S)}], q[Max(S)])
      BY <1>1, <2>1
    <2>6. f[S] = Turn(how, f[1..(i - 1)], q[i])
      BY <2>2, <2>4, <2>5, Zenon
    <2> QED BY <2>3, <2>6, Zenon
  <1>4. H[n] = f[1..n]
    OBVIOUS
  <1> HIDE DEF H
  <1>5. InTurn(H, how, b, q, n)
    BY <1>2, <1>3 DEF InTurn
  <1> QED BY <1>4, <1>5

\* The three folds, each from where it starts.
Assembled(b, q)     == FoldLeft(LAMBDA high, c : 64 * high + (c % 64), b, q)
Walked(fields, b, q) == FoldLeft(LAMBDA s, member : step(s, fields, member), b, q)
Filled(field, b, q)  == FoldLeft(LAMBDA s, value : fill(s, field, value), b, q)

Points       == [kind |-> "point"]
Walk(fields) == [kind |-> "walk", with |-> fields]
Fill(field)  == [kind |-> "fill", with |-> field]

\* A turn of each.
LEMMA Turns ==
  ASSUME NEW s, NEW x, NEW with
  PROVE  /\ Turn(Points, s, x) = Higher(s, x)
         /\ Turn(Walk(with), s, x) = step(s, with, x)
         /\ Turn(Fill(with), s, x) = fill(s, with, x)
  <1>1. Points.kind = "point" /\ Walk(with).kind = "walk" /\ Walk(with).with = with
        /\ Fill(with).kind = "fill" /\ Fill(with).with = with
    BY DEF Points, Walk, Fill
  <1> HIDE DEF Points, Walk, Fill
  <1>2. "point" # "walk" /\ "point" # "fill" /\ "walk" # "fill"
    OBVIOUS
  <1> QED BY <1>1, SMT DEF Turn

\* The recursion of the library's fold, whatever its turn: it meets its
\* equation, because some function does.
LEMMA AssembledInTurn ==
  ASSUME NEW b, NEW q, NEW n \in Nat, DOMAIN q = 1..n
  PROVE  \E H : InTurn(H, Points, b, q, n) /\ Assembled(b, q) = H[n]
  <1> DEFINE A(f) == [S \in SUBSET (DOMAIN q) |->
                        IF S = {} THEN b ELSE Higher(f[S \ {Max(S)}], q[Max(S)])]
             f == CHOOSE g : g = A(g)
  <1>1. Assembled(b, q) = f[DOMAIN q]
    BY Zenon DEF Assembled, FoldLeft, MapThenFoldSet, Higher
  <1>2. ASSUME NEW g PROVE A(g) = Folding(Points, b, q, n, g)
    BY Turns DEF Folding
  <1> HIDE DEF A
  <1>3. f = A(f)
    BY <1>2, FoldingExists
  <1> HIDE DEF f
  <1>4. f = Folding(Points, b, q, n, f)
    BY <1>2, <1>3, Zenon
  <1>5. PICK H : InTurn(H, Points, b, q, n) /\ H[n] = f[1..n]
    BY <1>4, FoldInTurn
  <1> QED BY <1>1, <1>5, Zenon

LEMMA WalkedInTurn ==
  ASSUME NEW fields, NEW b, NEW q, NEW n \in Nat, DOMAIN q = 1..n
  PROVE  \E H : InTurn(H, Walk(fields), b, q, n) /\ Walked(fields, b, q) = H[n]
  <1> DEFINE A(f) == [S \in SUBSET (DOMAIN q) |->
                        IF S = {} THEN b ELSE step(f[S \ {Max(S)}], fields, q[Max(S)])]
             f == CHOOSE g : g = A(g)
  <1>1. Walked(fields, b, q) = f[DOMAIN q]
    BY Zenon DEF Walked, FoldLeft, MapThenFoldSet
  <1>2. ASSUME NEW g PROVE A(g) = Folding(Walk(fields), b, q, n, g)
    BY Turns DEF Folding
  <1> HIDE DEF A
  <1>3. f = A(f)
    BY <1>2, FoldingExists
  <1> HIDE DEF f
  <1>4. f = Folding(Walk(fields), b, q, n, f)
    BY <1>2, <1>3, Zenon
  <1>5. PICK H : InTurn(H, Walk(fields), b, q, n) /\ H[n] = f[1..n]
    BY <1>4, FoldInTurn
  <1> QED BY <1>1, <1>5, Zenon

LEMMA FilledInTurn ==
  ASSUME NEW field, NEW b, NEW q, NEW n \in Nat, DOMAIN q = 1..n
  PROVE  \E H : InTurn(H, Fill(field), b, q, n) /\ Filled(field, b, q) = H[n]
  <1> DEFINE A(f) == [S \in SUBSET (DOMAIN q) |->
                        IF S = {} THEN b ELSE fill(f[S \ {Max(S)}], field, q[Max(S)])]
             f == CHOOSE g : g = A(g)
  <1>1. Filled(field, b, q) = f[DOMAIN q]
    BY Zenon DEF Filled, FoldLeft, MapThenFoldSet
  <1>2. ASSUME NEW g PROVE A(g) = Folding(Fill(field), b, q, n, g)
    BY Turns DEF Folding
  <1> HIDE DEF A
  <1>3. f = A(f)
    BY <1>2, FoldingExists
  <1> HIDE DEF f
  <1>4. f = Folding(Fill(field), b, q, n, f)
    BY <1>2, <1>3, Zenon
  <1>5. PICK H : InTurn(H, Fill(field), b, q, n) /\ H[n] = f[1..n]
    BY <1>4, FoldInTurn
  <1> QED BY <1>1, <1>5, Zenon

-----------------------------------------------------------------------------
(* The code point of a sequence, as a sum.                                 *)

\* What folding at most three continuations comes to.
FoldsTo(v, b, q, n) ==
  /\ n = 0 => v = b
  /\ n = 1 => v = Higher(b, q[1])
  /\ n = 2 => v = Higher(Higher(b, q[1]), q[2])
  /\ n = 3 => v = Higher(Higher(Higher(b, q[1]), q[2]), q[3])

\* The folds of at most three continuations.
LEMMA FoldOf ==
  ASSUME NEW b, NEW q, NEW n \in 0..3, NEW H, InTurn(H, Points, b, q, n)
  PROVE  FoldsTo(H[n], b, q, n)
  <1>1. ASSUME NEW i \in 1..n PROVE H[i] = Higher(H[i - 1], q[i])
    BY Turns DEF InTurn
  <1>2. H[0] = b
    BY DEF InTurn
  <1>3. n >= 1 => H[1] = Higher(b, q[1])
    <2>1. SUFFICES ASSUME n >= 1 PROVE H[1] = Higher(b, q[1])
      OBVIOUS
    <2>2. 1 \in 1..n /\ 1 - 1 = 0
      BY <2>1
    <2>3. H[1] = Higher(H[1 - 1], q[1])
      BY <1>1, <2>2
    <2> QED BY <1>2, <2>2, <2>3, Zenon
  <1>4. n >= 2 => H[2] = Higher(Higher(b, q[1]), q[2])
    <2>1. SUFFICES ASSUME n >= 2 PROVE H[2] = Higher(Higher(b, q[1]), q[2])
      OBVIOUS
    <2>2. 2 \in 1..n /\ 2 - 1 = 1 /\ n >= 1
      BY <2>1
    <2>3. H[2] = Higher(H[2 - 1], q[2])
      BY <1>1, <2>2
    <2> QED BY <1>3, <2>2, <2>3, Zenon
  <1>5. n = 3 => H[3] = Higher(Higher(Higher(b, q[1]), q[2]), q[3])
    <2>1. SUFFICES ASSUME n = 3 PROVE H[3] = Higher(Higher(Higher(b, q[1]), q[2]), q[3])
      OBVIOUS
    <2>2. 3 \in 1..n /\ 3 - 1 = 2 /\ n >= 2
      BY <2>1
    <2>3. H[3] = Higher(H[3 - 1], q[3])
      BY <1>1, <2>2
    <2> QED BY <1>4, <2>2, <2>3, Zenon
  <1> QED BY <1>2, <1>3, <1>4, <1>5 DEF FoldsTo

\* What Point assembles from one, two, three or four bytes.
LEMMA PointIs ==
  ASSUME NEW s \in Seq(0..255), Len(s) \in 1..4
  PROVE  /\ Len(s) = 1 => Point(s) = s[1] % 128
         /\ Len(s) = 2 => Point(s) = Higher(s[1] % 32, s[2])
         /\ Len(s) = 3 => Point(s) = Higher(Higher(s[1] % 16, s[2]), s[3])
         /\ Len(s) = 4 => Point(s) = Higher(Higher(Higher(s[1] % 8, s[2]), s[3]), s[4])
  <1> DEFINE q == SubSeq(s, 2, Len(s))
             b == s[1] % Marker[Len(s)]
             n == Len(s) - 1
  <1>1. n \in 0..3
    OBVIOUS
  <1>2. DOMAIN q = 1..n /\ \A i \in 1..n : q[i] = s[i + 1]
    <2>1. q = [i \in 1..(Len(s) - 2 + 1) |-> s[i + 2 - 1]]
      OBVIOUS
    <2>2. Len(s) - 2 + 1 = n
      OBVIOUS
    <2> QED BY <2>1, <2>2
  <1>3. Point(s) = Assembled(b, q)
    BY Zenon DEF Point, Assembled
  <1>4. PICK H : InTurn(H, Points, b, q, n) /\ Assembled(b, q) = H[n]
    <2> HIDE DEF b, q, n
    <2>1. n \in Nat
      BY <1>1
    <2> QED BY <1>2, <2>1, AssembledInTurn
  <1> DEFINE v == H[n]
  <1>5. FoldsTo(v, b, q, n)
    <2> HIDE DEF b, q, n
    <2> QED BY <1>1, <1>4, FoldOf
  <1>6. Point(s) = v
    BY <1>3, <1>4
  <1> HIDE DEF v
  <1>7. /\ Len(s) = 1 => n = 0 /\ b = s[1] % 128
        /\ Len(s) = 2 => n = 1 /\ b = s[1] % 32
        /\ Len(s) = 3 => n = 2 /\ b = s[1] % 16
        /\ Len(s) = 4 => n = 3 /\ b = s[1] % 8
    <2>1. Marker[1] = 128 /\ Marker[2] = 32 /\ Marker[3] = 16 /\ Marker[4] = 8
      BY DEF Marker
    <2>2. \A k \in 1..4 : Len(s) = k => n = k - 1
      OBVIOUS
    <2>3. ASSUME NEW k, Len(s) = k PROVE b = s[1] % Marker[k]
      BY <2>3
    <2> HIDE DEF Marker, b, n
    <2>4. CASE Len(s) = 1
      BY <2>1, <2>2, <2>3, <2>4
    <2>5. CASE Len(s) = 2
      BY <2>1, <2>2, <2>3, <2>5
    <2>6. CASE Len(s) = 3
      BY <2>1, <2>2, <2>3, <2>6
    <2>7. CASE Len(s) = 4
      BY <2>1, <2>2, <2>3, <2>7
    <2> QED BY <2>4, <2>5, <2>6, <2>7
  <1>8. /\ n >= 1 => q[1] = s[2]
        /\ n >= 2 => q[2] = s[3]
        /\ n >= 3 => q[3] = s[4]
    <2> HIDE DEF q, n
    <2>1. n >= 1 => 1 \in 1..n
      BY <1>1
    <2>2. n >= 2 => 2 \in 1..n
      BY <1>1
    <2>3. n >= 3 => 3 \in 1..n
      BY <1>1
    <2> QED BY <1>2, <2>1, <2>2, <2>3
  <1> HIDE DEF b, q, n
  <1>9. CASE Len(s) = 1
    BY <1>5, <1>6, <1>7, <1>9 DEF FoldsTo
  <1>10. CASE Len(s) = 2
    BY <1>5, <1>6, <1>7, <1>8, <1>10 DEF FoldsTo
  <1>11. CASE Len(s) = 3
    BY <1>5, <1>6, <1>7, <1>8, <1>11 DEF FoldsTo
  <1>12. CASE Len(s) = 4
    BY <1>5, <1>6, <1>7, <1>8, <1>12 DEF FoldsTo
  <1> QED BY <1>9, <1>10, <1>11, <1>12

-----------------------------------------------------------------------------
(* The table of leads spells the code points.                              *)

\* A lead asks for k continuations, the first of them in the range of c.
Asks(lead, k, c) ==
  /\ lead_of(lead) # no_lead
  /\ lead_of(lead).continuations = k
  /\ c \in lead_of(lead).first

\* The rows of the table with one, two and three continuations.
OneMore(lead, c) == lead \in 194..223 /\ c \in 128..191
TwoMore(lead, c) ==
  \/ lead = 224 /\ c \in 160..191
  \/ lead = 237 /\ c \in 128..159
  \/ lead \in 225..239 /\ lead # 237 /\ c \in 128..191
ThreeMore(lead, c) ==
  \/ lead = 240 /\ c \in 144..191
  \/ lead \in 241..243 /\ c \in 128..191
  \/ lead = 244 /\ c \in 128..143

\* What the table answers is one of its rows.
LEMMA LeadRows ==
  ASSUME NEW lead \in 0..255, NEW c \in 0..255
  PROVE  /\ Asks(lead, 1, c) <=> OneMore(lead, c)
         /\ Asks(lead, 2, c) <=> TwoMore(lead, c)
         /\ Asks(lead, 3, c) <=> ThreeMore(lead, c)
         /\ lead_of(lead) # no_lead => lead_of(lead).continuations \in 1..3
         /\ lead_of(lead) # no_lead => lead >= 194
  <1> DEFINE a == lead_of(lead)
  <1>1. CASE lead \in 194..223
    <2>1. a = [continuations |-> 1, first |-> 128..191]
      BY <1>1 DEF lead_of
    <2>2. a # no_lead /\ a.continuations = 1 /\ a.first = 128..191
      BY <2>1 DEF no_lead
    <2> QED BY <1>1, <2>2 DEF Asks, OneMore, TwoMore, ThreeMore
  <1>2. CASE lead = 224
    <2>1. a = [continuations |-> 2, first |-> 160..191]
      BY <1>2 DEF lead_of
    <2>2. a # no_lead /\ a.continuations = 2 /\ a.first = 160..191
      BY <2>1 DEF no_lead
    <2> QED BY <1>2, <2>2 DEF Asks, OneMore, TwoMore, ThreeMore
  <1>3. CASE lead = 237
    <2>1. a = [continuations |-> 2, first |-> 128..159]
      BY <1>3 DEF lead_of
    <2>2. a # no_lead /\ a.continuations = 2 /\ a.first = 128..159
      BY <2>1 DEF no_lead
    <2> QED BY <1>3, <2>2 DEF Asks, OneMore, TwoMore, ThreeMore
  <1>4. CASE lead \in 225..239 /\ lead # 237
    <2>1. a = [continuations |-> 2, first |-> 128..191]
      BY <1>4 DEF lead_of
    <2>2. a # no_lead /\ a.continuations = 2 /\ a.first = 128..191
      BY <2>1 DEF no_lead
    <2> QED BY <1>4, <2>2 DEF Asks, OneMore, TwoMore, ThreeMore
  <1>5. CASE lead = 240
    <2>1. a = [continuations |-> 3, first |-> 144..191]
      BY <1>5 DEF lead_of
    <2>2. a # no_lead /\ a.continuations = 3 /\ a.first = 144..191
      BY <2>1 DEF no_lead
    <2> QED BY <1>5, <2>2 DEF Asks, OneMore, TwoMore, ThreeMore
  <1>6. CASE lead \in 241..243
    <2>1. a = [continuations |-> 3, first |-> 128..191]
      BY <1>6 DEF lead_of
    <2>2. a # no_lead /\ a.continuations = 3 /\ a.first = 128..191
      BY <2>1 DEF no_lead
    <2> QED BY <1>6, <2>2 DEF Asks, OneMore, TwoMore, ThreeMore
  <1>7. CASE lead = 244
    <2>1. a = [continuations |-> 3, first |-> 128..143]
      BY <1>7 DEF lead_of
    <2>2. a # no_lead /\ a.continuations = 3 /\ a.first = 128..143
      BY <2>1 DEF no_lead
    <2> QED BY <1>7, <2>2 DEF Asks, OneMore, TwoMore, ThreeMore
  <1>8. CASE lead < 194 \/ lead > 244
    <2>1. a = no_lead
      <3>1. /\ lead \notin 194..223 /\ lead # 224 /\ lead # 237
            /\ lead \notin (225..239) \ {237} /\ lead # 240
            /\ lead \notin 241..243 /\ lead # 244
        BY <1>8
      <3> QED BY <3>1, SMT DEF lead_of
    <2> QED BY <1>8, <2>1 DEF Asks, OneMore, TwoMore, ThreeMore
  <1> QED BY <1>1, <1>2, <1>3, <1>4, <1>5, <1>6, <1>7, <1>8

\* A number in a range: an operator, so that no prover lists the range.
Between(p, a, b) == p \in a..b

LEMMA BetweenIs ==
  ASSUME NEW p \in Int, NEW a \in Int, NEW b \in Int
  PROVE  Between(p, a, b) <=> a <= p /\ p <= b
  BY DEF Between

\* A code point fit to be written with so many bytes.
Fits(point, w) == Between(point, Shortest[w], 1114111) /\ ~Between(point, 55296, 57343)

\* Two bytes: the table leaves out what is overlong.
LEMMA TwoBytes ==
  ASSUME NEW x \in 192..223, NEW y \in 128..191
  PROVE  Fits(Higher(x % 32, y), 2) <=> OneMore(x, y)
  <1>1. x % 32 = x - 192 /\ y % 64 = y - 128
    OBVIOUS
  <1>2. Higher(x % 32, y) = 64 * (x - 192) + (y - 128)
    BY <1>1 DEF Higher
  <1>3. Shortest[2] = 128
    BY DEF Shortest
  <1> DEFINE p == Higher(x % 32, y)
  <1>9. p = Higher(x % 32, y)
    OBVIOUS
  <1> HIDE DEF p
  <1>10. p \in Int
    BY <1>2, <1>9
  <1>11. Fits(p, 2) <=> 128 <= p /\ p <= 1114111 /\ ~(55296 <= p /\ p <= 57343)
    BY <1>3, <1>10, BetweenIs DEF Fits
  <1> QED BY <1>2, <1>9, <1>11 DEF OneMore

\* Three bytes: it leaves out what is overlong, and the surrogates.
LEMMA ThreeBytes ==
  ASSUME NEW x \in 224..239, NEW y \in 128..191, NEW z \in 128..191
  PROVE  Fits(Higher(Higher(x % 16, y), z), 3) <=> TwoMore(x, y)
  <1>1. x % 16 = x - 224 /\ y % 64 = y - 128 /\ z % 64 = z - 128
    OBVIOUS
  <1>2. Higher(x % 16, y) = 64 * (x - 224) + (y - 128)
    BY <1>1 DEF Higher
  <1>3. Higher(Higher(x % 16, y), z) = 64 * (64 * (x - 224) + (y - 128)) + (z - 128)
    BY <1>1, <1>2 DEF Higher
  <1>4. Shortest[3] = 2048
    BY DEF Shortest
  <1> DEFINE p == Higher(Higher(x % 16, y), z)
  <1>9. p = Higher(Higher(x % 16, y), z)
    OBVIOUS
  <1> HIDE DEF p
  <1>10. p \in Int
    BY <1>3, <1>9
  <1>11. Fits(p, 3) <=> 2048 <= p /\ p <= 1114111 /\ ~(55296 <= p /\ p <= 57343)
    BY <1>4, <1>10, BetweenIs DEF Fits
  <1> QED BY <1>3, <1>9, <1>11 DEF TwoMore

\* Four bytes: it leaves out what is overlong, and what is past U+10FFFF.
LEMMA FourBytes ==
  ASSUME NEW x \in 240..247, NEW y \in 128..191, NEW z \in 128..191, NEW u \in 128..191
  PROVE  Fits(Higher(Higher(Higher(x % 8, y), z), u), 4) <=> ThreeMore(x, y)
  <1>1. x % 8 = x - 240 /\ y % 64 = y - 128 /\ z % 64 = z - 128 /\ u % 64 = u - 128
    OBVIOUS
  <1>2. Higher(x % 8, y) = 64 * (x - 240) + (y - 128)
    BY <1>1 DEF Higher
  <1>3. Higher(Higher(x % 8, y), z) = 64 * (64 * (x - 240) + (y - 128)) + (z - 128)
    BY <1>1, <1>2 DEF Higher
  <1>4. Higher(Higher(Higher(x % 8, y), z), u)
          = 64 * (64 * (64 * (x - 240) + (y - 128)) + (z - 128)) + (u - 128)
    BY <1>1, <1>3 DEF Higher
  <1>5. Shortest[4] = 65536
    BY DEF Shortest
  <1> DEFINE p == Higher(Higher(Higher(x % 8, y), z), u)
  <1>9. p = Higher(Higher(Higher(x % 8, y), z), u)
    OBVIOUS
  <1> HIDE DEF p
  <1>10. p \in Int
    BY <1>4, <1>9
  <1>11. Fits(p, 4) <=> 65536 <= p /\ p <= 1114111 /\ ~(55296 <= p /\ p <= 57343)
    BY <1>5, <1>10, BetweenIs DEF Fits
  <1> QED BY <1>4, <1>9, <1>11 DEF ThreeMore

\* What makes an encoding, with its ranges unlisted.
LEMMA EncodesIs ==
  ASSUME NEW s
  PROVE  EncodesScalar(s) <=> /\ s[1] \in Lead[Len(s)]
                              /\ \A i \in 2..Len(s) : s[i] \in 128..191
                              /\ Fits(Point(s), Len(s))
  BY DEF EncodesScalar, Fits, Between

\* An element of a sequence over a set.
LEMMA ElementOf ==
  ASSUME NEW B, NEW s \in Seq(B), NEW i \in 1..Len(s)
  PROVE  s[i] \in B
  OBVIOUS

\* What is said of a few places, place by place.
LEMMA PlaceByPlace ==
  ASSUME NEW s, NEW C
  PROVE  /\ (\A i \in 2..2 : s[i] \in C) <=> s[2] \in C
         /\ (\A i \in 2..3 : s[i] \in C) <=> s[2] \in C /\ s[3] \in C
         /\ (\A i \in 2..4 : s[i] \in C) <=> s[2] \in C /\ s[3] \in C /\ s[4] \in C
  <1>1. \A i : i \in 2..2 <=> i = 2
    OBVIOUS
  <1>2. \A i : i \in 2..3 <=> i = 2 \/ i = 3
    OBVIOUS
  <1>3. \A i : i \in 2..4 <=> i = 2 \/ i = 3 \/ i = 4
    OBVIOUS
  <1>4. (\A i \in 2..2 : s[i] \in C) <=> s[2] \in C
    BY <1>1, Zenon
  <1>5. (\A i \in 2..3 : s[i] \in C) <=> s[2] \in C /\ s[3] \in C
    BY <1>2, Zenon
  <1>6. (\A i \in 2..4 : s[i] \in C) <=> s[2] \in C /\ s[3] \in C /\ s[4] \in C
    BY <1>3, Zenon
  <1> QED BY <1>4, <1>5, <1>6, Zenon

\* What the scan takes for one code point.
Shaped(s) ==
  \/ Len(s) = 1 /\ s[1] < 128
  \/ /\ Len(s) > 1
     /\ Asks(s[1], Len(s) - 1, s[2])
     /\ \A i \in 3..Len(s) : s[i] \in 128..191

\* It is the shortest encoding of a scalar value, and there is no other.
LEMMA ScalarIsShaped ==
  ASSUME NEW s \in Seq(0..255), Len(s) \in 1..4
  PROVE  EncodesScalar(s) <=> Shaped(s)
  <1>1. EncodesScalar(s) <=> /\ s[1] \in Lead[Len(s)]
                             /\ \A i \in 2..Len(s) : s[i] \in 128..191
                             /\ Fits(Point(s), Len(s))
    BY EncodesIs
  <1>2. ASSUME NEW i \in 1..Len(s) PROVE s[i] \in 0..255
    BY ElementOf
  <1>3. Lead[1] = 0..127 /\ Lead[2] = 192..223 /\ Lead[3] = 224..239 /\ Lead[4] = 240..247
    BY DEF Lead
  <1> DEFINE P == Point(s)
             x == s[1]
             y == s[2]
             z == s[3]
             u == s[4]
             L == Len(s)
  <1>9. ASSUME NEW w, L = w
        PROVE  EncodesScalar(s) <=> /\ x \in Lead[w]
                                    /\ \A i \in 2..w : s[i] \in 128..191
                                    /\ Fits(P, w)
    BY <1>1, <1>9, Zenon
  <1>4. /\ L = 1 => P = x % 128
        /\ L = 2 => P = Higher(x % 32, y)
        /\ L = 3 => P = Higher(Higher(x % 16, y), z)
        /\ L = 4 => P = Higher(Higher(Higher(x % 8, y), z), u)
    BY PointIs
  <1>5. CASE L = 1
    <2>1. x \in 0..255
      BY <1>2, <1>5
    <2>2. EncodesScalar(s) <=> x \in 0..127 /\ Fits(P, 1)
      <3>1. \A i \in 2..1 : s[i] \in 128..191
        OBVIOUS
      <3>2. EncodesScalar(s) <=> x \in Lead[1] /\ Fits(P, 1)
        BY <1>5, <1>9, <3>1, Zenon
      <3> HIDE DEF P, x
      <3> QED BY <1>3, <3>2
    <2>3. x \in 0..127 => Fits(x % 128, 1)
      <3> HIDE DEF x
      <3>1. x \in 0..127 => x % 128 = x /\ 0 <= x /\ x <= 127
        BY <2>1
      <3>2. Shortest[1] = 0
        BY DEF Shortest
      <3> QED BY <2>1, <3>1, <3>2, BetweenIs DEF Fits
    <2>4. Shaped(s) <=> x < 128
      BY <1>5 DEF Shaped
    <2> HIDE DEF P, x, y, z, u, L
    <2> QED BY <1>4, <1>5, <2>1, <2>2, <2>3, <2>4
  <1>6. CASE L = 2
    <2>1. x \in 0..255 /\ y \in 0..255
      BY <1>2, <1>6
    <2>2. EncodesScalar(s) <=> x \in 192..223 /\ y \in 128..191 /\ Fits(P, 2)
      <3>1. (\A i \in 2..2 : s[i] \in 128..191) <=> y \in 128..191
        BY PlaceByPlace, Zenon
      <3>2. EncodesScalar(s) <=> x \in Lead[2] /\ y \in 128..191 /\ Fits(P, 2)
        BY <1>6, <1>9, <3>1, Zenon
      <3> HIDE DEF P, x, y
      <3> QED BY <1>3, <3>2
    <2>3. Shaped(s) <=> Asks(x, 1, y)
      BY <1>6 DEF Shaped
    <2> HIDE DEF P, x, y, z, u, L
    <2>4. Asks(x, 1, y) <=> OneMore(x, y)
      BY <2>1, LeadRows
    <2>5. OneMore(x, y) => x \in 192..223 /\ y \in 128..191
      BY DEF OneMore
    <2>6. P = Higher(x % 32, y)
      BY <1>4, <1>6
    <2>7. x \in 192..223 /\ y \in 128..191 => (Fits(P, 2) <=> OneMore(x, y))
      BY <2>6, TwoBytes
    <2> QED BY <2>2, <2>3, <2>4, <2>5, <2>7
  <1>7. CASE L = 3
    <2>1. x \in 0..255 /\ y \in 0..255 /\ z \in 0..255
      BY <1>2, <1>7
    <2>2. EncodesScalar(s) <=> /\ x \in 224..239 /\ y \in 128..191 /\ z \in 128..191
                               /\ Fits(P, 3)
      <3>1. (\A i \in 2..3 : s[i] \in 128..191) <=> y \in 128..191 /\ z \in 128..191
        BY PlaceByPlace, Zenon
      <3>2. EncodesScalar(s) <=> /\ x \in Lead[3] /\ y \in 128..191 /\ z \in 128..191
                                 /\ Fits(P, 3)
        BY <1>7, <1>9, <3>1, Zenon
      <3> HIDE DEF P, x, y, z
      <3> QED BY <1>3, <3>2
    <2>3. Shaped(s) <=> Asks(x, 2, y) /\ z \in 128..191
      BY <1>7 DEF Shaped
    <2> HIDE DEF P, x, y, z, u, L
    <2>4. Asks(x, 2, y) <=> TwoMore(x, y)
      BY <2>1, LeadRows
    <2>5. TwoMore(x, y) => x \in 224..239 /\ y \in 128..191
      BY DEF TwoMore
    <2>6. P = Higher(Higher(x % 16, y), z)
      BY <1>4, <1>7
    <2>7. x \in 224..239 /\ y \in 128..191 /\ z \in 128..191
             => (Fits(P, 3) <=> TwoMore(x, y))
      BY <2>6, ThreeBytes
    <2> QED BY <2>2, <2>3, <2>4, <2>5, <2>7
  <1>8. CASE L = 4
    <2>1. x \in 0..255 /\ y \in 0..255 /\ z \in 0..255 /\ u \in 0..255
      BY <1>2, <1>8
    <2>2. EncodesScalar(s) <=> /\ x \in 240..247 /\ y \in 128..191 /\ z \in 128..191
                               /\ u \in 128..191
                               /\ Fits(P, 4)
      <3>1. (\A i \in 2..4 : s[i] \in 128..191)
               <=> y \in 128..191 /\ z \in 128..191 /\ u \in 128..191
        BY PlaceByPlace, Zenon
      <3>2. EncodesScalar(s) <=> /\ x \in Lead[4] /\ y \in 128..191 /\ z \in 128..191
                                 /\ u \in 128..191
                                 /\ Fits(P, 4)
        BY <1>8, <1>9, <3>1, Zenon
      <3> HIDE DEF P, x, y, z, u
      <3> QED BY <1>3, <3>2
    <2>3. Shaped(s) <=> Asks(x, 3, y) /\ z \in 128..191 /\ u \in 128..191
      BY <1>8 DEF Shaped
    <2> HIDE DEF P, x, y, z, u, L
    <2>4. Asks(x, 3, y) <=> ThreeMore(x, y)
      BY <2>1, LeadRows
    <2>5. ThreeMore(x, y) => x \in 240..247 /\ y \in 128..191
      BY DEF ThreeMore
    <2>6. P = Higher(Higher(Higher(x % 8, y), z), u)
      BY <1>4, <1>8
    <2>7. x \in 240..247 /\ y \in 128..191 /\ z \in 128..191 /\ u \in 128..191
             => (Fits(P, 4) <=> ThreeMore(x, y))
      BY <2>6, FourBytes
    <2> QED BY <2>2, <2>3, <2>4, <2>5, <2>7
  <1> QED BY <1>5, <1>6, <1>7, <1>8

-----------------------------------------------------------------------------
(* The prefixes that are whole.                                            *)

\* A scalar value is spelt by the w bytes behind the first m.
EncodedAt(t, m, w) == w \in 1..4 /\ m + w <= Len(t) /\ EncodesScalar(SubSeq(t, m + 1, m + w))

\* The first n bytes are whole, if g says so of every shorter run.
Ends(t, g, n) ==
  n = 0 \/ \E w \in 1..4 : /\ w <= n
                           /\ g[n - w]
                           /\ EncodesScalar(SubSeq(t, n - w + 1, n))

IsWhole(g, t) == \A n \in 0..Len(t) : g[n] <=> Ends(t, g, n)

\* Whether a run ends whole is decided by the shorter ones.
LEMMA EndsAgree ==
  ASSUME NEW t, NEW g, NEW h, NEW n \in Nat, \A i \in 0..(n - 1) : g[i] = h[i]
  PROVE  Ends(t, g, n) = Ends(t, h, n)
  <1>1. ASSUME NEW a, NEW b, \A i \in 0..(n - 1) : a[i] = b[i], Ends(t, a, n)
        PROVE  Ends(t, b, n)
    <2>1. CASE n = 0
      BY <2>1 DEF Ends
    <2>2. CASE n # 0
      <3>1. PICK w \in 1..4 : w <= n /\ a[n - w] /\ EncodesScalar(SubSeq(t, n - w + 1, n))
        BY <1>1, <2>2 DEF Ends
      <3>2. n - w \in 0..(n - 1)
        BY <3>1
      <3>3. b[n - w]
        BY <1>1, <3>1, <3>2, Zenon
      <3> QED BY <3>1, <3>3 DEF Ends
    <2> QED BY <2>1, <2>2
  <1>2. \A i \in 0..(n - 1) : h[i] = g[i]
    OBVIOUS
  <1>3. Ends(t, g, n) <=> Ends(t, h, n)
    BY <1>1, <1>2
  <1>4. Ends(t, g, n) \in BOOLEAN /\ Ends(t, h, n) \in BOOLEAN
    BY DEF Ends
  <1> QED BY <1>3, <1>4

\* So there is a function that says it of every prefix.
LEMMA WholeExists ==
  ASSUME NEW t, NEW N \in Nat
  PROVE  \E g : g = [n \in 0..N |-> Ends(t, g, n)]
  <1> DEFINE Is(g, n) == g = [i \in 0..n |-> Ends(t, g, i)]
             P == {n \in Nat : \E g : Is(g, n)}
  <1>1. 0 \in P
    <2> DEFINE g == [i \in 0..0 |-> TRUE]
    <2>1. ASSUME NEW i \in 0..0 PROVE g[i] = Ends(t, g, i)
      <3>1. i = 0
        OBVIOUS
      <3> QED BY <3>1 DEF Ends
    <2>2. g = [i \in 0..0 |-> g[i]]
      OBVIOUS
    <2> HIDE DEF g
    <2>3. Is(g, 0)
      BY <2>1, <2>2
    <2> HIDE DEF Is
    <2> QED BY <2>3
  <1>2. ASSUME NEW n \in P PROVE n + 1 \in P
    <2>1. n \in Nat
      BY <1>2
    <2>2. PICK g : Is(g, n)
      BY <1>2
    <2> DEFINE h == [i \in 0..(n + 1) |-> IF i <= n THEN g[i] ELSE Ends(t, g, i)]
    <2>3. ASSUME NEW i \in 0..(n + 1) PROVE h[i] = Ends(t, h, i)
      <3>1. \A j \in 0..(i - 1) : g[j] = h[j]
        BY <2>1
      <3>2. h[i] = Ends(t, g, i)
        <4>1. CASE i <= n
          <5>1. i \in 0..n
            BY <2>1, <4>1
          <5>2. g[i] = Ends(t, g, i)
            BY <2>2, <5>1
          <5> QED BY <4>1, <5>2
        <4>2. CASE ~(i <= n)
          BY <4>2
        <4> QED BY <4>1, <4>2
      <3>3. i \in Nat
        BY <2>1
      <3> HIDE DEF h
      <3>4. Ends(t, g, i) = Ends(t, h, i)
        BY <3>1, <3>3, EndsAgree
      <3> QED BY <3>2, <3>4, Zenon
    <2>4. h = [i \in 0..(n + 1) |-> h[i]]
      OBVIOUS
    <2> HIDE DEF h
    <2>5. Is(h, n + 1)
      BY <2>3, <2>4
    <2> HIDE DEF Is
    <2> QED BY <2>1, <2>5
  <1>3. P = Nat
    <2> HIDE DEF P
    <2> QED BY <1>1, <1>2, NatSetInduction, P \in SUBSET Nat DEF P
  <1> QED BY <1>3

\* The prefixes the model calls well formed are those such a function names.
LEMMA PrefixesAre ==
  ASSUME NEW t \in Seq(0..255)
  PROVE  \E g : IsWhole(g, t) /\ WellFormedPrefix(t) = {n \in 0..Len(t) : g[n]}
  <1> DEFINE Round(g) == [n \in 0..Len(t) |-> Ends(t, g, n)]
             f == CHOOSE g : g = Round(g)
  <1>1. WellFormedPrefix(t) = {n \in 0..Len(t) : f[n]}
    BY Zenon DEF WellFormedPrefix, Ends
  <1>2. f = Round(f)
    <2>1. Len(t) \in Nat
      OBVIOUS
    <2>2. \E g : g = Round(g)
      BY <2>1, WholeExists
    <2> HIDE DEF Round
    <2> QED BY <2>2
  <1> HIDE DEF f
  <1>3. \A n \in 0..Len(t) : f[n] = Ends(t, f, n)
    BY <1>2
  <1>4. IsWhole(f, t)
    BY <1>3 DEF IsWhole
  <1> QED BY <1>1, <1>4

\* The w bytes behind the first m.
LEMMA PieceIs ==
  ASSUME NEW B, NEW t \in Seq(B), NEW m \in Nat, NEW w \in 1..4, m + w <= Len(t)
  PROVE  /\ SubSeq(t, m + 1, m + w) \in Seq(B)
         /\ Len(SubSeq(t, m + 1, m + w)) = w
         /\ \A i \in 1..w : SubSeq(t, m + 1, m + w)[i] = t[m + i]
  <1> DEFINE s == SubSeq(t, m + 1, m + w)
  <1>1. s = [i \in 1..(m + w - (m + 1) + 1) |-> t[i + (m + 1) - 1]]
    OBVIOUS
  <1>2. m + w - (m + 1) + 1 = w /\ \A i \in 1..w : i + (m + 1) - 1 = m + i
    OBVIOUS
  <1>3. s = [i \in 1..w |-> t[m + i]]
    BY <1>1, <1>2
  <1>4. \A i \in 1..w : t[m + i] \in B
    <2>1. ASSUME NEW i \in 1..w PROVE m + i \in 1..Len(t)
      OBVIOUS
    <2> QED BY <2>1, ElementOf
  <1> HIDE DEF s
  <1>5. s \in Seq(B) /\ Len(s) = w /\ \A i \in 1..w : s[i] = t[m + i]
    BY <1>3, <1>4
  <1> QED BY <1>5 DEF s

\* The leads of each width, one range behind the other.
LEMMA LeadRange ==
  ASSUME NEW x
  PROVE  /\ x \in Lead[1] => x \in Int /\ x < 128
         /\ x \in Lead[2] => x \in Int /\ 192 <= x /\ x < 224
         /\ x \in Lead[3] => x \in Int /\ 224 <= x /\ x < 240
         /\ x \in Lead[4] => x \in Int /\ 240 <= x
  <1>2. Lead[1] = 0..127 /\ Lead[2] = 192..223 /\ Lead[3] = 224..239 /\ Lead[4] = 240..247
    BY DEF Lead
  <1>3. CASE x \in Lead[1]
    BY <1>2, <1>3
  <1>4. CASE x \in Lead[2]
    BY <1>2, <1>4
  <1>5. CASE x \in Lead[3]
    BY <1>2, <1>5
  <1>6. CASE x \in Lead[4]
    BY <1>2, <1>6
  <1> QED BY <1>3, <1>4, <1>5, <1>6

\* The lead says how wide an encoding is.
LEMMA OneWidth ==
  ASSUME NEW t \in Seq(0..255), NEW m \in Nat, NEW v, NEW w, EncodedAt(t, m, v), EncodedAt(t, m, w)
  PROVE  v = w
  <1>1. ASSUME NEW k, EncodedAt(t, m, k)
        PROVE  k \in 1..4 /\ t[m + 1] \in Lead[k]
    <2>1. k \in 1..4 /\ m + k <= Len(t)
      BY <1>1 DEF EncodedAt
    <2> DEFINE s == SubSeq(t, m + 1, m + k)
    <2>2. Len(s) = k /\ s[1] = t[m + 1]
      BY <2>1, PieceIs
    <2>3. s[1] \in Lead[Len(s)]
      BY <1>1, EncodesIs DEF EncodedAt
    <2> HIDE DEF s
    <2> QED BY <2>1, <2>2, <2>3, Zenon
  <1>3. v \in 1..4 /\ t[m + 1] \in Lead[v] /\ w \in 1..4 /\ t[m + 1] \in Lead[w]
    BY <1>1
  <1> DEFINE x == t[m + 1]
  <1> HIDE DEF x
  <1>4. ASSUME NEW k \in 1..4, x \in Lead[k]
        PROVE  /\ x \in Int
               /\ \/ k = 1 /\ x < 128
                  \/ k = 2 /\ 192 <= x /\ x < 224
                  \/ k = 3 /\ 224 <= x /\ x < 240
                  \/ k = 4 /\ 240 <= x
    <2>1. CASE k = 1
      BY <1>4, <2>1, LeadRange
    <2>2. CASE k = 2
      BY <1>4, <2>2, LeadRange
    <2>3. CASE k = 3
      BY <1>4, <2>3, LeadRange
    <2>4. CASE k = 4
      BY <1>4, <2>4, LeadRange
    <2> QED BY <2>1, <2>2, <2>3, <2>4
  <1>6. v \in 1..4 /\ x \in Lead[v] /\ w \in 1..4 /\ x \in Lead[w]
    BY <1>3 DEF x
  <1> QED BY <1>4, <1>6

\* Two whole prefixes: the shorter one goes on with a whole encoding.
LEMMA GoesOn ==
  ASSUME NEW t \in Seq(0..255), NEW g, IsWhole(g, t),
         NEW N \in 0..Len(t), g[N], NEW M \in 0..N, g[M], M # N
  PROVE  \E w : EncodedAt(t, M, w) /\ M + w <= N
  <1> DEFINE On(m, n) == \E w : EncodedAt(t, m, w) /\ m + w <= n
             Q(n) == n <= Len(t) /\ g[n] => \A m \in 0..n : g[m] /\ m # n => On(m, n)
             P == {k \in Nat : \A n \in 0..k : Q(n)}
  <1>1. 0 \in P
    <2>1. Q(0)
      OBVIOUS
    <2>2. \A n \in 0..0 : n = 0
      OBVIOUS
    <2> HIDE DEF Q
    <2> QED BY <2>1, <2>2
  <1>2. ASSUME NEW k \in P PROVE k + 1 \in P
    <2>1. k \in Nat /\ \A n \in 0..k : Q(n)
      BY <1>2
    <2> DEFINE n == k + 1
    <2>2. Q(n)
      <3>1. SUFFICES ASSUME n <= Len(t), g[n], NEW m \in 0..n, g[m], m # n PROVE On(m, n)
        OBVIOUS
      <3>2. n \in 0..Len(t) /\ n # 0
        BY <2>1, <3>1
      <3>3. PICK w \in 1..4 : w <= n /\ g[n - w] /\ EncodesScalar(SubSeq(t, n - w + 1, n))
        BY <3>1, <3>2 DEF IsWhole, Ends
      <3> DEFINE a == n - w
      <3>4. /\ a \in 0..k /\ a + w = n /\ a \in Nat /\ m \in 0..k /\ g[a]
            /\ a <= Len(t) /\ m <= Len(t)
        BY <2>1, <3>1, <3>2, <3>3
      <3>5. EncodedAt(t, a, w)
        BY <3>1, <3>3, <3>4 DEF EncodedAt
      <3> HIDE DEF a, n, Q
      <3>6. CASE m = a
        BY <3>4, <3>5, <3>6
      <3>7. CASE m < a
        <4>1. Q(a)
          BY <2>1, <3>4
        <4>2. m \in 0..a /\ m # a
          BY <3>4, <3>7
        <4>3. PICK v : EncodedAt(t, m, v) /\ m + v <= a
          BY <3>1, <3>4, <4>1, <4>2 DEF Q
        <4>4. m + v <= n
          BY <3>3, <3>4, <4>3 DEF EncodedAt
        <4> QED BY <4>3, <4>4
      <3>8. CASE a < m
        <4>1. Q(m)
          BY <2>1, <3>4
        <4>2. a \in 0..m /\ a # m
          BY <3>4, <3>8
        <4>3. PICK v : EncodedAt(t, a, v) /\ a + v <= m
          BY <3>1, <3>4, <4>1, <4>2 DEF Q
        <4>4. v = w
          BY <3>4, <3>5, <4>3, OneWidth
        <4> QED BY <2>1, <3>4, <4>3, <4>4 DEF n
      <3> QED BY <3>4, <3>6, <3>7, <3>8
    <2> HIDE DEF Q
    <2>3. \A i \in 0..n : i \in 0..k \/ i = n
      BY <2>1
    <2> QED BY <2>1, <2>2, <2>3
  <1>3. P = Nat
    <2> HIDE DEF P
    <2> QED BY <1>1, <1>2, NatSetInduction, P \in SUBSET Nat DEF P
  <1>4. N \in P /\ N \in 0..N
    <2> HIDE DEF P
    <2> QED BY <1>3
  <1>5. Q(N)
    <2> HIDE DEF Q
    <2> QED BY <1>4
  <1> QED BY <1>5

\* Nothing is a whole run.
LEMMA NothingIsWhole ==
  ASSUME NEW t \in Seq(0..255)
  PROVE  0 \in WellFormedPrefix(t)
  <1>1. PICK g : IsWhole(g, t) /\ WellFormedPrefix(t) = {n \in 0..Len(t) : g[n]}
    BY PrefixesAre
  <1>2. 0 \in 0..Len(t) /\ Ends(t, g, 0)
    BY DEF Ends
  <1> QED BY <1>1, <1>2 DEF IsWhole

\* A whole run and an encoding behind it are a whole run.
LEMMA WholeGrows ==
  ASSUME NEW t \in Seq(0..255), NEW m \in WellFormedPrefix(t), NEW w, EncodedAt(t, m, w)
  PROVE  m + w \in WellFormedPrefix(t)
  <1>1. PICK g : IsWhole(g, t) /\ WellFormedPrefix(t) = {n \in 0..Len(t) : g[n]}
    BY PrefixesAre
  <1>2. w \in 1..4 /\ m \in 0..Len(t) /\ g[m] /\ m + w <= Len(t)
        /\ EncodesScalar(SubSeq(t, m + 1, m + w))
    BY <1>1 DEF EncodedAt
  <1> DEFINE n == m + w
  <1>3. n \in 0..Len(t) /\ w <= n /\ n - w = m
    BY <1>2
  <1> HIDE DEF n
  <1>4. EncodesScalar(SubSeq(t, n - w + 1, n))
    BY <1>2, <1>3, Zenon DEF n
  <1>5. Ends(t, g, n)
    BY <1>2, <1>3, <1>4 DEF Ends
  <1>6. n \in WellFormedPrefix(t)
    BY <1>1, <1>3, <1>5 DEF IsWhole
  <1> QED BY <1>6 DEF n

\* A whole run with no encoding behind it is the longest.
LEMMA LongestStops ==
  ASSUME NEW t \in Seq(0..255), NEW m \in WellFormedPrefix(t), \A w : ~EncodedAt(t, m, w)
  PROVE  m = Max(WellFormedPrefix(t))
  <1> DEFINE S == WellFormedPrefix(t)
             x == Max(S)
  <1>1. PICK g : IsWhole(g, t) /\ S = {n \in 0..Len(t) : g[n]}
    BY PrefixesAre
  <1>2. S \subseteq Nat /\ m \in S
    BY <1>1
  <1>3. ASSUME NEW n \in S PROVE m >= n
    <2>1. n \in 0..Len(t) /\ g[n] /\ m \in 0..Len(t) /\ g[m]
      BY <1>1
    <2>2. SUFFICES ASSUME m < n PROVE FALSE
      BY <2>1
    <2>3. m \in 0..n /\ m # n
      BY <2>1, <2>2
    <2>4. \E w : EncodedAt(t, m, w) /\ m + w <= n
      <3> HIDE DEF S
      <3> QED BY <1>1, <2>1, <2>3, GoesOn
    <2> QED BY <2>4
  <1> HIDE DEF S
  <1>4. x \in S /\ \A n \in S : x >= n
    BY <1>2, <1>3 DEF Max
  <1>5. x >= m /\ m >= x /\ x \in Nat /\ m \in Nat
    <2> HIDE DEF x
    <2> QED BY <1>2, <1>3, <1>4
  <1>6. m = x
    <2> HIDE DEF x
    <2> QED BY <1>5
  <1> QED BY <1>6 DEF S

\* What makes an encoding behind the first m bytes, byte by byte.
LEMMA SpellsIs ==
  ASSUME NEW t \in Seq(0..255), NEW m \in Nat, NEW w \in 1..4, m + w <= Len(t)
  PROVE  /\ w = 1 => (EncodedAt(t, m, w) <=> t[m + 1] < 128)
         /\ w > 1 => (EncodedAt(t, m, w) <=> /\ Asks(t[m + 1], w - 1, t[m + 2])
                                          /\ \A i \in 3..w : t[m + i] \in 128..191)
  <1> DEFINE s == SubSeq(t, m + 1, m + w)
  <1>1. s \in Seq(0..255) /\ Len(s) = w /\ \A i \in 1..w : s[i] = t[m + i]
    <2> DEFINE B == 0..255
    <2>1. t \in Seq(B)
      OBVIOUS
    <2> HIDE DEF B
    <2>2. s \in Seq(B) /\ Len(s) = w /\ \A i \in 1..w : s[i] = t[m + i]
      BY <2>1, PieceIs
    <2> QED BY <2>2 DEF B
  <1>2. EncodedAt(t, m, w) <=> EncodesScalar(s)
    BY DEF EncodedAt
  <1> HIDE DEF s
  <1>3. EncodesScalar(s) <=> Shaped(s)
    BY <1>1, ScalarIsShaped
  <1>4. s[1] = t[m + 1]
    BY <1>1
  <1>5. CASE w = 1
    <2>1. Shaped(s) <=> t[m + 1] < 128
      BY <1>1, <1>4, <1>5 DEF Shaped
    <2> QED BY <1>2, <1>3, <1>5, <2>1
  <1>6. CASE w > 1
    <2>1. s[2] = t[m + 2]
      BY <1>1, <1>6
    <2>2. \A i \in 3..w : s[i] = t[m + i]
      BY <1>1
    <2>3. Shaped(s) <=> /\ Asks(t[m + 1], w - 1, t[m + 2])
                        /\ \A i \in 3..w : t[m + i] \in 128..191
      <3>1. Shaped(s) <=> Asks(s[1], w - 1, s[2]) /\ \A i \in 3..w : s[i] \in 128..191
        BY <1>1, <1>6 DEF Shaped
      <3> QED BY <1>4, <2>1, <2>2, <3>1, Zenon
    <2>4. w # 1
      BY <1>6
    <2> QED BY <1>2, <1>3, <2>3, <2>4, Zenon
  <1> QED BY <1>5, <1>6

-----------------------------------------------------------------------------
(* The scan.                                                               *)

\* Behind the index, the lead's question is the encoding's definition.
LEMMA SequenceSpells ==
  ASSUME text \in Seq(0..255), index \in Nat, index < length, byte(index) >= 128,
         NEW a, a = lead_of(byte(index))
  PROVE  /\ sequence_holds(a) => EncodedAt(text, index, a.continuations + 1)
         /\ \A w : EncodedAt(text, index, w) => sequence_holds(a)
  <1> DEFINE c == a.continuations
  <1>1. byte(index) = text[index + 1] /\ text[index + 1] \in 0..255
    <2>1. index + 1 \in 1..Len(text)
      BY DEF length
    <2> QED BY <2>1, ElementOf DEF byte
  <1>2. a # no_lead => c \in 1..3
    <2>1. 0 \in 0..255
      OBVIOUS
    <2>2. lead_of(byte(index)) # no_lead => lead_of(byte(index)).continuations \in 1..3
      BY <1>1, <2>1, LeadRows, Zenon
    <2> QED BY <2>2, Zenon
  <1>3. ASSUME NEW w \in 2..4, index + w <= Len(text), a # no_lead, c = w - 1
        PROVE  sequence_holds(a) <=> EncodedAt(text, index, w)
    <2>1. byte(index + 1) = text[index + 2]
      BY DEF byte
    <2>2. length - index > c
      BY <1>3 DEF length
    <2>3. (\A place \in 2..c : byte(index + place) \in 128..191)
             <=> \A i \in 3..w : text[index + i] \in 128..191
      <3>1. ASSUME NEW place \in 2..c
            PROVE  place + 1 \in 3..w /\ byte(index + place) = text[index + (place + 1)]
        <4> HIDE DEF c
        <4> QED BY <1>3 DEF byte
      <3>2. ASSUME NEW i \in 3..w PROVE i - 1 \in 2..c /\ byte(index + (i - 1)) = text[index + i]
        <4> HIDE DEF c
        <4> QED BY <1>3 DEF byte
      <3> HIDE DEF c, byte
      <3>3. ASSUME \A place \in 2..c : byte(index + place) \in 128..191, NEW i \in 3..w
            PROVE  text[index + i] \in 128..191
        BY <3>2, <3>3, Zenon
      <3>4. ASSUME \A i \in 3..w : text[index + i] \in 128..191, NEW place \in 2..c
            PROVE  byte(index + place) \in 128..191
        BY <3>1, <3>4, Zenon
      <3> QED BY <3>3, <3>4, Zenon
    <2>4. Asks(text[index + 1], w - 1, text[index + 2]) <=> byte(index + 1) \in a.first
      BY <1>1, <1>3, <2>1, Zenon DEF Asks
    <2>5. sequence_holds(a) <=> /\ byte(index + 1) \in a.first
                                /\ \A place \in 2..c : byte(index + place) \in 128..191
      BY <1>3, <2>2, Zenon DEF sequence_holds
    <2>6. w \in 1..4 /\ w > 1
      OBVIOUS
    <2>7. EncodedAt(text, index, w) <=> /\ Asks(text[index + 1], w - 1, text[index + 2])
                                     /\ \A i \in 3..w : text[index + i] \in 128..191
      BY <1>3, <2>6, SpellsIs
    <2> QED BY <2>3, <2>4, <2>5, <2>7, Zenon
  <1>4. ASSUME sequence_holds(a) PROVE EncodedAt(text, index, c + 1)
    <2>1. a # no_lead /\ length - index > c
      BY <1>4 DEF sequence_holds
    <2> HIDE DEF c
    <2>2. c \in 1..3
      BY <1>2, <2>1, Zenon
    <2>3. ASSUME NEW w, w = c + 1 PROVE EncodedAt(text, index, w)
      <3>1. w \in 2..4 /\ index + w <= Len(text) /\ c = w - 1
        BY <2>1, <2>2, <2>3 DEF length
      <3>2. sequence_holds(a) <=> EncodedAt(text, index, w)
        BY <1>3, <2>1, <3>1, Zenon DEF c
      <3> QED BY <1>4, <3>2
    <2> QED BY <2>3
  <1>5. ASSUME NEW w, EncodedAt(text, index, w) PROVE sequence_holds(a)
    <2>1. w \in 1..4 /\ index + w <= Len(text)
      BY <1>5 DEF EncodedAt
    <2>2. w # 1
      <3>1. SUFFICES ASSUME w = 1 PROVE FALSE
        OBVIOUS
      <3>2. text[index + 1] < 128
        BY <1>5, <2>1, <3>1, SpellsIs
      <3> DEFINE x == text[index + 1]
      <3>3. x < 128 /\ x >= 128 /\ x \in 0..255
        BY <1>1, <3>2
      <3> HIDE DEF x
      <3> QED BY <3>3
    <2>3. w \in 2..4 /\ w > 1
      BY <2>1, <2>2
    <2>4. Asks(text[index + 1], w - 1, text[index + 2])
      BY <1>5, <2>1, <2>3, SpellsIs
    <2>5. a # no_lead /\ c = w - 1
      BY <1>1, <2>4, Zenon DEF Asks
    <2> QED BY <1>3, <1>5, <2>1, <2>3, <2>5
  <1> QED BY <1>4, <1>5

\* A byte of ASCII is an encoding of its own.
LEMMA AsciiSpells ==
  ASSUME NEW t \in Seq(0..255), NEW m \in Nat, m < Len(t), t[m + 1] < 128
  PROVE  EncodedAt(t, m, 1)
  <1>1. 1 \in 1..4 /\ m + 1 <= Len(t)
    OBVIOUS
  <1> QED BY <1>1, SpellsIs

\* A run of ASCII keeps a whole prefix whole.
LEMMA AsciiRun ==
  ASSUME NEW t \in Seq(0..255), NEW m \in WellFormedPrefix(t), m \in Nat,
         NEW N \in Nat, m + N <= Len(t), \A i \in m..(m + N - 1) : t[i + 1] < 128
  PROVE  m + N \in WellFormedPrefix(t)
  <1> DEFINE P == {k \in Nat : k <= N => m + k \in WellFormedPrefix(t)}
  <1>1. 0 \in P
    OBVIOUS
  <1>2. ASSUME NEW k \in P PROVE k + 1 \in P
    <2>1. k \in Nat
      BY <1>2
    <2>2. SUFFICES ASSUME k + 1 <= N PROVE m + (k + 1) \in WellFormedPrefix(t)
      BY <2>1
    <2>3. /\ m + k \in WellFormedPrefix(t) /\ m + k \in Nat /\ m + k < Len(t)
          /\ m + k \in m..(m + N - 1) /\ (m + k) + 1 = m + (k + 1)
      BY <1>2, <2>1, <2>2
    <2>4. EncodedAt(t, m + k, 1)
      BY <2>3, AsciiSpells
    <2>5. (m + k) + 1 \in WellFormedPrefix(t)
      BY <2>3, <2>4, WholeGrows
    <2> QED BY <2>3, <2>5
  <1>3. P = Nat
    <2> HIDE DEF P
    <2> QED BY <1>1, <1>2, NatSetInduction, P \in SUBSET Nat DEF P
  <1>4. N \in P
    <2> HIDE DEF P
    <2> QED BY <1>3
  <1> QED BY <1>4

\* The index always stands behind a whole prefix.
ScanInv ==
  /\ text \in Seq(0..255)
  /\ index \in WellFormedPrefix(text)
  /\ LongestValidPrefix

\* The prefixes are counts of bytes of the text.
LEMMA PrefixRange == \A t, n : n \in WellFormedPrefix(t) => n \in 0..Len(t)
  BY DEF WellFormedPrefix

\* Every turn of every loop keeps it.
LEMMA ScanStep == ScanInv /\ [Utf8Next]_scan => ScanInv'
  <1> SUFFICES ASSUME ScanInv, [Utf8Next]_scan PROVE ScanInv'
    OBVIOUS
  <1> USE DEF length, byte
  <1> DEFINE W == WellFormedPrefix(text)
  <1>1. text \in Seq(0..255) /\ index \in W /\ LongestValidPrefix
    BY DEF ScanInv
  <1>2. index \in Nat /\ index <= Len(text)
    <2>1. index \in 0..Len(text)
      BY <1>1, PrefixRange
    <2> QED BY <1>1, <2>1
  <1> HIDE DEF W
  <1>3. SUFFICES /\ text' = text
                 /\ index' \in W
                 /\ answer' # NO_ANSWER => answer' = Max(W)
    BY <1>1, Zenon DEF ScanInv, LongestValidPrefix, W
  <1>4. LongestValidPrefix => (answer # NO_ANSWER => answer = Max(W))
    BY DEF LongestValidPrefix, W
  <1>5. CASE ascii_begins
    BY <1>1, <1>4, <1>5 DEF ascii_begins
  <1>6. CASE ascii_word
    <2>1. text' = text /\ answer' = answer
      BY <1>6 DEF ascii_word
    <2>2. CASE length - index >= WORD /\ \A i \in index..(index + WORD - 1) : byte(i) < 128
      <3>1. index' = index + WORD
        BY <1>6, <2>2 DEF ascii_word
      <3>2. WORD \in Nat /\ index + WORD <= Len(text)
        BY <1>2, <2>2, Utf8Assumption
      <3>3. index + WORD \in WellFormedPrefix(text)
        BY <1>1, <1>2, <2>2, <3>2, AsciiRun DEF W
      <3> QED BY <1>1, <1>4, <2>1, <3>1, <3>3 DEF W
    <2>3. CASE ~(length - index >= WORD /\ \A i \in index..(index + WORD - 1) : byte(i) < 128)
      <3>1. index' = index
        BY <1>6, <2>3 DEF ascii_word
      <3> QED BY <1>1, <1>4, <2>1, <3>1
    <2> QED BY <2>2, <2>3
  <1>7. CASE ascii_byte
    <2>1. text' = text /\ answer' = answer
      BY <1>7 DEF ascii_byte
    <2>2. CASE index < length /\ byte(index) < 128
      <3>1. index' = index + 1
        BY <1>7, <2>2 DEF ascii_byte
      <3>2. EncodedAt(text, index, 1)
        BY <1>1, <1>2, <2>2, AsciiSpells
      <3>3. index + 1 \in W
        BY <1>1, <3>2, WholeGrows DEF W
      <3> QED BY <1>1, <1>4, <2>1, <3>1, <3>3
    <2>3. CASE ~(index < length /\ byte(index) < 128)
      <3>1. index' = index
        BY <1>7, <2>3 DEF ascii_byte
      <3> QED BY <1>1, <1>4, <2>1, <3>1
    <2> QED BY <2>2, <2>3
  <1>8. CASE sequence
    <2> DEFINE a == lead_of(byte(index))
    <2>1. text' = text /\ index < length /\ byte(index) >= 128
      BY <1>8 DEF sequence
    <2>2. IF sequence_holds(a)
          THEN index' = index + a.continuations + 1 /\ answer' = answer
          ELSE answer' = index /\ index' = index
      BY <1>8, Zenon DEF sequence
    <2>3. /\ sequence_holds(a) => EncodedAt(text, index, a.continuations + 1)
          /\ \A w : EncodedAt(text, index, w) => sequence_holds(a)
      <3> HIDE DEF length, byte
      <3> QED BY <1>1, <1>2, <2>1, SequenceSpells
    <2> HIDE DEF a
    <2>4. CASE sequence_holds(a)
      <3>1. index + (a.continuations + 1) \in W
        BY <1>1, <2>3, <2>4, WholeGrows DEF W
      <3>2. index + (a.continuations + 1) = index + a.continuations + 1
        <4>1. a.continuations + 1 \in 1..4
          BY <2>3, <2>4 DEF EncodedAt
        <4>2. a.continuations \in Int
          <5>3. index + 1 \in 1..Len(text) /\ 0 \in 0..255
            BY <1>2, <2>1
          <5>1. text[index + 1] \in 0..255
            BY <1>1, <5>3, ElementOf
          <5>2. a # no_lead => a.continuations \in 1..3
            BY <5>1, <5>3, LeadRows, Zenon DEF a
          <5> QED BY <2>4, <5>2 DEF sequence_holds
        <4> QED BY <1>2, <4>1, <4>2
      <3> QED BY <1>1, <1>4, <2>1, <2>2, <2>4, <3>1, <3>2
    <2>5. CASE ~sequence_holds(a)
      <3>1. \A w : ~EncodedAt(text, index, w)
        BY <2>3, <2>5
      <3>2. index = Max(W)
        BY <1>1, <3>1, LongestStops DEF W
      <3> QED BY <1>1, <2>1, <2>2, <2>5, <3>2
    <2> QED BY <2>4, <2>5
  <1>9. CASE run_ends
    <2>1. text' = text /\ index' = index /\ answer' = index /\ index = length
      BY <1>9 DEF run_ends
    <2>2. ASSUME NEW w, EncodedAt(text, index, w) PROVE FALSE
      <3>1. w \in 1..4 /\ index + w <= Len(text)
        BY <2>2 DEF EncodedAt
      <3> QED BY <1>2, <2>1, <3>1
    <2>3. index = Max(W)
      BY <1>1, <2>2, LongestStops DEF W
    <2> QED BY <1>1, <2>1, <2>3
  <1>10. CASE UNCHANGED scan
    BY <1>1, <1>4, <1>10 DEF scan
  <1> QED BY <1>5, <1>6, <1>7, <1>8, <1>9, <1>10 DEF Utf8Next

\* A behaviour starts at the front of a text, or of none.
LEMMA ScanInit == TextInit => ScanInv
  <1>1. ASSUME NEW t \in Seq(0..255), utf8_init(t) PROVE ScanInv
    <2>1. text = t /\ index = 0 /\ answer = NO_ANSWER
      BY <1>1 DEF utf8_init
    <2>2. index \in WellFormedPrefix(text)
      BY <2>1, NothingIsWhole
    <2> QED BY <2>1, <2>2 DEF ScanInv, LongestValidPrefix
  <1>2. NO_TEXT \in Seq(0..255)
    BY DEF NO_TEXT
  <1>3. TextInit => (\E t \in Texts : utf8_init(t)) \/ utf8_init(NO_TEXT)
    BY Zenon DEF TextInit
  <1> QED BY <1>1, <1>2, <1>3, Utf8Assumption

\* A call that is not a scan leaves the scan where it was.
LEMMA ScanTurns == [TextNext]_text_vars => [Utf8Next]_scan
  BY DEF TextNext, Scan, Convert, Read, text_vars, scan

\* utf8.c:30: whatever the bytes, the length answered is that of the longest
\* run of whole shortest encodings of scalar values.
THEOREM LongestPrefixHolds == TextSpec => []LongestValidPrefix
  <1>1. ScanInv => LongestValidPrefix
    BY DEF ScanInv
  <1>2. ScanInv /\ [TextNext]_text_vars => ScanInv'
    BY ScanStep, ScanTurns
  <1> QED BY ScanInit, <1>1, <1>2, PTL DEF TextSpec

-----------------------------------------------------------------------------
(* One value into one target.                                              *)

\* A value of a parsed document: numbers are those of 64 bits.
WellFormed(v) ==
  /\ v.kind \in {"uint", "sint", "real", "str", "bool", "null", "array", "object"}
  /\ v.kind \in {"uint", "sint"} => v.n \in (0 - INT64_TOP - 1)..UINT64_TOP
  /\ v.kind = "str" => v.size \in Nat

\* A table's entry: a caller's own type may be anything.
WellMade(field) == field.target \in BOOLEAN /\ field.room \in Nat

\* What a read leaves in its target.
Leaves(field, v, got) ==
  /\ got.result = Refusal(field, v)
  /\ got.result = "SUCCESS" => got.target = v
  /\ got.result # "SUCCESS" => \/ got.target = KEPT
                               \/ /\ got.target = ZEROED
                                  /\ field.type \in {"HEX_FIXED", "UUID"}

\* read_field refuses what the header says the type cannot take, and
\* nothing else; a refused target keeps what it had, or is zeroed.
LEMMA IntegerReads ==
  ASSUME NEW field, NEW v, WellMade(field), WellFormed(v), field.target, field.type \in Integer
  PROVE  Leaves(field, v, read_integer(field.type, v))
  <1> DEFINE t == field.type
             got == read_integer(t, v)
             r == Refusal(field, v)
  <1>1. t \in Types /\ t \notin Text /\ Kinds(t) = {"uint", "sint"}
    BY DEF Types, Text, Integer, Kinds
  <1>2. r = IF v.kind \notin {"uint", "sint"} THEN "ERROR_INVALID_ENUM_TYPE"
            ELSE IF v.n \notin Holds(t) THEN "ERROR_ARITHMETIC_OVERFLOW" ELSE "SUCCESS"
    BY <1>1, Zenon DEF Refusal
  <1>3. CASE v.kind \notin {"uint", "sint"}
    <2>1. got = refused("ERROR_INVALID_ENUM_TYPE")
      BY <1>3, Zenon DEF read_integer
    <2>2. r = "ERROR_INVALID_ENUM_TYPE"
      BY <1>2, <1>3, Zenon
    <2> HIDE DEF got, r
    <2>3. got.result = "ERROR_INVALID_ENUM_TYPE" /\ got.target = KEPT
      BY <2>1 DEF refused
    <2> QED BY <2>2, <2>3 DEF Leaves, got, r
  <1>4. CASE v.kind \in {"uint", "sint"}
    <2> DEFINE fits == CASE t = "UINT64" -> v.n >= 0
                         [] t = "UINT32" -> v.n >= 0 /\ v.n <= UINT32_TOP
                         [] t = "INT64"  -> v.n <= INT64_TOP
                         [] t = "INT32"  -> /\ v.n <= INT64_TOP
                                            /\ v.n \in (0 - INT32_TOP - 1)..INT32_TOP
    <2>1. got = IF fits THEN wrote(v) ELSE refused("ERROR_ARITHMETIC_OVERFLOW")
      BY <1>4, Zenon DEF read_integer
    <2>2. r = IF v.n \notin Holds(t) THEN "ERROR_ARITHMETIC_OVERFLOW" ELSE "SUCCESS"
      BY <1>2, <1>4, Zenon
    <2>3. fits <=> v.n \in Holds(t)
      <3> DEFINE n == v.n
      <3>1. n \in (0 - INT64_TOP - 1)..UINT64_TOP
        BY <1>4 DEF WellFormed
      <3>2. n \in Int /\ 0 - INT64_TOP - 1 <= n /\ n <= UINT64_TOP
        BY <3>1, ReaderAssumption
      <3> HIDE DEF n
      <3>3. CASE t = "UINT64"
        BY <3>2, <3>3, ReaderAssumption, SMT DEF n, Holds
      <3>4. CASE t = "UINT32"
        BY <3>2, <3>4, ReaderAssumption, SMT DEF n, Holds
      <3>5. CASE t = "INT64"
        BY <3>2, <3>5, ReaderAssumption, SMT DEF n, Holds
      <3>6. CASE t = "INT32"
        BY <3>2, <3>6, ReaderAssumption, SMT DEF n, Holds
      <3> QED BY <3>3, <3>4, <3>5, <3>6 DEF Integer
    <2> HIDE DEF fits, got, r
    <2>4. wrote(v).result = "SUCCESS" /\ wrote(v).target = v
          /\ refused("ERROR_ARITHMETIC_OVERFLOW").result = "ERROR_ARITHMETIC_OVERFLOW"
          /\ refused("ERROR_ARITHMETIC_OVERFLOW").target = KEPT
      BY DEF wrote, refused
    <2>5. got.result = r /\ (got.result = "SUCCESS" => got.target = v)
          /\ (got.result # "SUCCESS" => got.target = KEPT)
      BY <2>1, <2>2, <2>3, <2>4
    <2> QED BY <2>5 DEF Leaves, got, r
  <1> QED BY <1>3, <1>4

LEMMA TextReads ==
  ASSUME NEW field, NEW v, WellMade(field), WellFormed(v), field.target, field.type \in Text
  PROVE  Leaves(field, v, read_text(field.type, field.room, v))
  <1> DEFINE t == field.type
             room == field.room
             got == read_text(t, room, v)
             r == Refusal(field, v)
             decoded(what) == IF v.spells = what THEN wrote(v)
                              ELSE [result |-> "ERROR_DECODE_FAILED", target |-> ZEROED]
  <1>1. t \in Types /\ t \notin Integer /\ Kinds(t) = {"str"}
    BY DEF Types, Text, Integer, Kinds
  <1>2. r = IF v.kind # "str" THEN "ERROR_INVALID_ENUM_TYPE"
            ELSE IF ~Shape(t, room, v) THEN "ERROR_DECODE_FAILED" ELSE "SUCCESS"
    <2>1. v.kind \in Kinds(t) <=> v.kind = "str"
      BY <1>1
    <2> QED BY <1>1, <2>1, Zenon DEF Refusal
  <1>3. /\ wrote(v).result = "SUCCESS" /\ wrote(v).target = v
        /\ \A e : refused(e).result = e /\ refused(e).target = KEPT
    BY DEF wrote, refused
  <1>4. \A what :
          /\ v.spells = what => decoded(what).result = "SUCCESS" /\ decoded(what).target = v
          /\ v.spells # what => /\ decoded(what).result = "ERROR_DECODE_FAILED"
                                /\ decoded(what).target = ZEROED
    BY <1>3
  <1> HIDE DEF decoded
  <1>5. CASE v.kind # "str"
    <2>1. got = refused("ERROR_INVALID_ENUM_TYPE")
      BY <1>5, Zenon DEF read_text
    <2>2. r = "ERROR_INVALID_ENUM_TYPE"
      BY <1>2, <1>5, Zenon
    <2> HIDE DEF got, r
    <2> QED BY <1>3, <2>1, <2>2 DEF Leaves, got, r
  <1>6. CASE v.kind = "str"
    <2>1. got = CASE t = "STRING" -> wrote(v)
                  [] t = "HEX_FIXED" -> IF room * 2 # v.size THEN refused("ERROR_DECODE_FAILED")
                                        ELSE decoded("hex")
                  [] t = "UUID" -> IF v.size # UUID_TEXT \/ room # UUID_SIZE
                                   THEN refused("ERROR_DECODE_FAILED")
                                   ELSE decoded("uuid")
      BY <1>6, Zenon DEF read_text, decoded
    <2>2. r = IF ~Shape(t, room, v) THEN "ERROR_DECODE_FAILED" ELSE "SUCCESS"
      BY <1>2, <1>6, Zenon
    <2>3. CASE t = "STRING"
      <3>1. got = wrote(v)
        BY <2>1, <2>3
      <3>2. Shape(t, room, v)
        BY <2>3 DEF Shape
      <3> HIDE DEF got, r
      <3> QED BY <1>3, <2>2, <3>1, <3>2 DEF Leaves, got, r
    <2>4. CASE t = "HEX_FIXED"
      <3>1. got = IF room * 2 # v.size THEN refused("ERROR_DECODE_FAILED") ELSE decoded("hex")
        BY <2>1, <2>4
      <3>2. Shape(t, room, v) <=> v.size = 2 * room /\ v.spells = "hex"
        BY <2>4 DEF Shape
      <3>3. room * 2 = 2 * room
        BY DEF WellMade
      <3> HIDE DEF got, r, t
      <3>4. CASE room * 2 # v.size
        <4>1. got = refused("ERROR_DECODE_FAILED") /\ r = "ERROR_DECODE_FAILED"
          BY <2>2, <3>1, <3>2, <3>3, <3>4
        <4> QED BY <1>3, <4>1 DEF Leaves, got, r, t
      <3>5. CASE room * 2 = v.size
        <4>1. got = decoded("hex") /\ (v.spells = "hex" => r = "SUCCESS")
              /\ (v.spells # "hex" => r = "ERROR_DECODE_FAILED")
          BY <2>2, <3>1, <3>2, <3>3, <3>5
        <4>2. /\ v.spells = "hex" => got.result = "SUCCESS" /\ got.target = v
              /\ v.spells # "hex" => got.result = "ERROR_DECODE_FAILED" /\ got.target = ZEROED
          BY <1>4, <4>1
        <4>3. field.type \in {"HEX_FIXED", "UUID"}
          BY <2>4 DEF t
        <4>4. got.result = r /\ (got.result = "SUCCESS" => got.target = v)
              /\ (got.result # "SUCCESS" => got.target = ZEROED)
          BY <4>1, <4>2
        <4> QED BY <4>3, <4>4 DEF Leaves, got, r, t
      <3> QED BY <3>4, <3>5
    <2>5. CASE t = "UUID"
      <3>1. got = IF v.size # UUID_TEXT \/ room # UUID_SIZE THEN refused("ERROR_DECODE_FAILED")
                  ELSE decoded("uuid")
        BY <2>1, <2>5
      <3>2. Shape(t, room, v) <=> /\ v.size = UUID_TEXT /\ room = UUID_SIZE
                                  /\ v.spells = "uuid"
        BY <2>5 DEF Shape
      <3> HIDE DEF got, r, t
      <3>4. CASE v.size # UUID_TEXT \/ room # UUID_SIZE
        <4>1. got = refused("ERROR_DECODE_FAILED") /\ r = "ERROR_DECODE_FAILED"
          BY <2>2, <3>1, <3>2, <3>4
        <4> QED BY <1>3, <4>1 DEF Leaves, got, r, t
      <3>5. CASE ~(v.size # UUID_TEXT \/ room # UUID_SIZE)
        <4>1. got = decoded("uuid") /\ (v.spells = "uuid" => r = "SUCCESS")
              /\ (v.spells # "uuid" => r = "ERROR_DECODE_FAILED")
          BY <2>2, <3>1, <3>2, <3>5
        <4>2. /\ v.spells = "uuid" => got.result = "SUCCESS" /\ got.target = v
              /\ v.spells # "uuid" => got.result = "ERROR_DECODE_FAILED" /\ got.target = ZEROED
          BY <1>4, <4>1
        <4>3. field.type \in {"HEX_FIXED", "UUID"}
          BY <2>5 DEF t
        <4>4. got.result = r /\ (got.result = "SUCCESS" => got.target = v)
              /\ (got.result # "SUCCESS" => got.target = ZEROED)
          BY <4>1, <4>2
        <4> QED BY <4>3, <4>4 DEF Leaves, got, r, t
      <3> QED BY <3>4, <3>5
    <2> QED BY <2>3, <2>4, <2>5 DEF Text
  <1> QED BY <1>5, <1>6

LEMMA FieldReads ==
  ASSUME NEW field, NEW v, WellMade(field), WellFormed(v)
  PROVE  Leaves(field, v, read_field(field, v))
  <1> DEFINE t == field.type
             got == read_field(field, v)
             r == Refusal(field, v)
  <1>1. /\ wrote(v).result = "SUCCESS" /\ wrote(v).target = v
        /\ \A e : refused(e).result = e /\ refused(e).target = KEPT
    BY DEF wrote, refused
  <1>2. field.target \in BOOLEAN
    BY DEF WellMade
  <1>3. CASE ~field.target
    <2>1. got = refused("ERROR_NULL_POINTER")
      BY <1>3 DEF read_field
    <2>2. r = "ERROR_NULL_POINTER"
      BY <1>3 DEF Refusal
    <2> HIDE DEF got, r
    <2> QED BY <1>1, <2>1, <2>2 DEF Leaves, got, r
  <1>4. CASE field.target /\ t \in Integer
    <2>1. got = read_integer(t, v)
      BY <1>4 DEF read_field, Integer, Text, Types
    <2> HIDE DEF got
    <2> QED BY <1>4, <2>1, IntegerReads DEF got
  <1>5. CASE field.target /\ t \in Text
    <2>1. got = read_text(t, field.room, v)
      BY <1>5 DEF read_field, Integer, Text, Types
    <2> HIDE DEF got
    <2> QED BY <1>5, <2>1, TextReads DEF got
  <1>6. CASE field.target /\ t = "VALUE"
    <2>1. got = wrote(v)
      BY <1>6 DEF read_field, Integer, Text, Types
    <2>2. r = "SUCCESS"
      <3>1. t \in Types /\ t \notin Integer /\ t \notin Text /\ v.kind \in Kinds(t)
        BY <1>6 DEF Kinds, Types, Integer, Text, WellFormed
      <3> QED BY <1>6, <3>1, Zenon DEF Refusal
    <2> HIDE DEF got, r
    <2> QED BY <1>1, <2>1, <2>2 DEF Leaves, got, r
  <1>7. CASE field.target /\ t = "BOOL"
    <2>1. got = IF v.kind = "bool" THEN wrote(v) ELSE refused("ERROR_INVALID_ENUM_TYPE")
      BY <1>7 DEF read_field, Integer, Text, Types
    <2>2. r = IF v.kind = "bool" THEN "SUCCESS" ELSE "ERROR_INVALID_ENUM_TYPE"
      <3>1. t \in Types /\ t \notin Integer /\ t \notin Text /\ Kinds(t) = {"bool"}
        BY <1>7 DEF Kinds, Types, Integer, Text
      <3>2. v.kind \in Kinds(t) <=> v.kind = "bool"
        BY <3>1
      <3> QED BY <1>7, <3>1, <3>2, Zenon DEF Refusal
    <2> HIDE DEF got, r
    <2> QED BY <1>1, <2>1, <2>2 DEF Leaves, got, r
  <1>8. CASE field.target /\ t = "DOUBLE"
    <2>1. got = IF v.kind \in {"uint", "sint", "real"} THEN wrote(v)
                ELSE refused("ERROR_INVALID_ENUM_TYPE")
      BY <1>8 DEF read_field, Integer, Text, Types
    <2>2. r = IF v.kind \in {"uint", "sint", "real"} THEN "SUCCESS"
              ELSE "ERROR_INVALID_ENUM_TYPE"
      <3>1. /\ t \in Types /\ t \notin Integer /\ t \notin Text
            /\ Kinds(t) = {"uint", "sint", "real"}
        BY <1>8 DEF Kinds, Types, Integer, Text
      <3> QED BY <1>8, <3>1, Zenon DEF Refusal
    <2> HIDE DEF got, r
    <2> QED BY <1>1, <2>1, <2>2 DEF Leaves, got, r
  <1>9. CASE field.target /\ t \notin Types
    <2>1. got = refused("ERROR_INVALID_PARAM")
      BY <1>9 DEF read_field, Integer, Text, Types
    <2>2. r = "ERROR_INVALID_PARAM"
      BY <1>9, Zenon DEF Refusal
    <2> HIDE DEF got, r
    <2> QED BY <1>1, <2>1, <2>2 DEF Leaves, got, r
  <1> QED BY <1>2, <1>3, <1>4, <1>5, <1>6, <1>7, <1>8, <1>9 DEF Types

-----------------------------------------------------------------------------
(* The fill of a buffer from an array.                                     *)

\* The members a fill does not pass over, and those of them it cannot take.
Kept(members, type)   == { m \in 1..Len(members) : ~passed_over(type, members[m]) }
Bad(members, field)   ==
  { m \in Kept(members, field.type) : Refusal(field, members[m]) # "SUCCESS" }

\* After k members s holds what stands before b: the first that could not
\* be taken, or the next one.
Cut(code, members, field, k, b) ==
  /\ \A m \in Bad(members, field) : m >= b \/ m > k
  /\ code = "SUCCESS" => b = k + 1
  /\ code # "SUCCESS" => /\ b \in Bad(members, field) /\ b <= k
                         /\ code = Refusal(field, members[b])
  /\ b \in 1..(k + 1)
Formed(s, cells) ==
  /\ s = [result |-> s.result, count |-> s.count, slots |-> s.slots]
  /\ s.slots = [i \in 1..cells |-> s.slots[i]]
Placed(s, members, kept, b) ==
  /\ s.count = CountTo(kept, b - 1)
  /\ \A m \in kept : m < b => s.slots[CountTo(kept, m)] = members[m]
Spared(s, cells) ==
  \A i \in (s.count + 1)..cells :
    \/ s.slots[i] = KEPT
    \/ s.result # "SUCCESS" /\ i = s.count + 1 /\ s.slots[i] = ZEROED

FillAt(s, members, field, cells, k, b) ==
  /\ Cut(s.result, members, field, k, b)
  /\ Formed(s, cells)
  /\ Placed(s, members, Kept(members, field.type), b)
  /\ Spared(s, cells)

\* One member further.
LEMMA FillStep ==
  ASSUME NEW members, \A m \in 1..Len(members) : WellFormed(members[m]), Len(members) \in Nat,
         NEW field, WellMade(field), NEW cells \in Nat, Len(members) <= cells,
         NEW k \in Nat, k + 1 <= Len(members),
         NEW s, NEW b, FillAt(s, members, field, cells, k, b)
  PROVE  \E c : FillAt(fill(s, field, members[k + 1]), members, field, cells, k + 1, c)
  <1> DEFINE kept == Kept(members, field.type)
             bad  == Bad(members, field)
             v    == members[k + 1]
             t    == fill(s, field, v)
             n    == s.count
  <1>1. k + 1 \in 1..Len(members) /\ WellFormed(v)
    OBVIOUS
  <1>2. kept \subseteq Nat /\ bad \subseteq kept /\ (k + 1 \in kept <=> ~passed_over(field.type, v))
    BY <1>1 DEF Kept, Bad
  <1>3. bad \subseteq Nat /\ kept \subseteq 1..Len(members)
    BY DEF Kept, Bad
  <1>4. k + 1 \in bad <=> k + 1 \in kept /\ Refusal(field, v) # "SUCCESS"
    BY DEF Bad
  <1>5. /\ \A m \in bad : m >= b \/ m > k
        /\ s.result = "SUCCESS" => b = k + 1
        /\ s.result # "SUCCESS" => b \in bad /\ b <= k /\ s.result = Refusal(field, members[b])
        /\ b \in 1..(k + 1)
        /\ n = CountTo(kept, b - 1)
        /\ s = [result |-> s.result, count |-> n, slots |-> s.slots]
        /\ s.slots = [i \in 1..cells |-> s.slots[i]]
        /\ \A m \in kept : m < b => s.slots[CountTo(kept, m)] = members[m]
        /\ \A i \in (n + 1)..cells :
             \/ s.slots[i] = KEPT
             \/ s.result # "SUCCESS" /\ i = n + 1 /\ s.slots[i] = ZEROED
    BY DEF FillAt, Cut, Formed, Placed, Spared
  <1>6. CASE s.result # "SUCCESS"
    <2>1. t = s
      BY <1>6 DEF fill
    <2>2. FillAt(s, members, field, cells, k + 1, b)
      <3>1. b <= k + 1 /\ b \in 1..(k + 1 + 1) /\ \A m \in bad : m >= b \/ m > k + 1
        BY <1>3, <1>5, <1>6
      <3> HIDE DEF kept, bad, v, n
      <3>2. Cut(s.result, members, field, k + 1, b)
        BY <1>5, <1>6, <3>1 DEF Cut, bad
      <3> QED BY <3>2 DEF FillAt
    <2> QED BY <2>1, <2>2
  <1>7. CASE s.result = "SUCCESS" /\ k + 1 \notin kept
    <2>1. t = s
      BY <1>2, <1>7 DEF fill
    <2>2. FillAt(s, members, field, cells, k + 1, k + 2)
      <3>1. b = k + 1 /\ b - 1 = k
        BY <1>5, <1>7
      <3>2. CountTo(kept, k + 1) = CountTo(kept, k)
        BY <1>7, CountStep
      <3>3. n = CountTo(kept, k + 2 - 1)
        BY <1>5, <3>1, <3>2
      <3>4. \A m \in bad : m >= k + 2 \/ m > k + 1
        BY <1>2, <1>3, <1>5, <1>7, <3>1
      <3>5. \A m \in kept : m < k + 2 => m < b
        BY <1>2, <1>7, <3>1
      <3>6. k + 2 = (k + 1) + 1 /\ k + 2 \in 1..(k + 1 + 1)
        OBVIOUS
      <3> HIDE DEF kept, bad, v, n
      <3>7. Cut(s.result, members, field, k + 1, k + 2)
        BY <1>7, <3>4, <3>6 DEF Cut, bad
      <3>8. Placed(s, members, kept, k + 2)
        BY <1>5, <3>3, <3>5 DEF Placed, n
      <3> QED BY <3>7, <3>8 DEF FillAt, kept
    <2> QED BY <2>1, <2>2
  <1>8. CASE s.result = "SUCCESS" /\ k + 1 \in kept
    <2> DEFINE got == read_field(field, v)
    <2>1. t = [result |-> got.result,
               count  |-> IF got.result = "SUCCESS" THEN n + 1 ELSE n,
               slots  |-> [s.slots EXCEPT ![n + 1] = got.target]]
      BY <1>2, <1>8 DEF fill
    <2>2. Leaves(field, v, got)
      BY <1>1, FieldReads
    <2>3. b = k + 1 /\ b - 1 = k /\ n = CountTo(kept, k)
      BY <1>5, <1>8
    <2>4. n \in Nat /\ n <= k /\ CountTo(kept, k + 1) = n + 1
      BY <1>8, <2>3, CountStep, CountGrows
    <2>5. n + 1 \in 1..cells
      BY <2>4
    <2> DEFINE w == t.slots
    <2>6. /\ t = [result |-> t.result, count |-> t.count, slots |-> w]
          /\ t.result = got.result /\ t.count = IF got.result = "SUCCESS" THEN n + 1 ELSE n
          /\ w = [s.slots EXCEPT ![n + 1] = got.target]
      <3> HIDE DEF t, n, got
      <3> QED BY <2>1
    <2>7. /\ w = [i \in 1..cells |-> w[i]]
          /\ w[n + 1] = got.target
          /\ \A i \in 1..cells : i # n + 1 => w[i] = s.slots[i]
      <3> HIDE DEF t, n, got, w
      <3> QED BY <1>5, <2>5, <2>6
    <2>8. \A m \in kept : m <= k => CountTo(kept, m) \in 1..cells /\ CountTo(kept, m) # n + 1
      <3>1. SUFFICES ASSUME NEW m \in kept, m <= k
                     PROVE  CountTo(kept, m) \in 1..cells /\ CountTo(kept, m) # n + 1
        OBVIOUS
      <3>2. m \in Nat /\ m >= 1
        BY <1>3
      <3>3. CountTo(kept, m) \in Nat /\ CountTo(kept, m) <= n
        BY <2>3, <3>1, <3>2, CountStep, CountGrows
      <3>4. CountTo(kept, 0) < CountTo(kept, m) /\ CountTo(kept, 0) = 0
        BY <3>1, <3>2, CountStep, CountGrows
      <3> QED BY <2>4, <2>5, <3>3, <3>4
    <2> HIDE DEF t, w
    <2>9. CASE got.result = "SUCCESS"
      <3>1. got.target = v /\ k + 1 \notin bad
        BY <1>4, <2>2, <2>9 DEF Leaves
      <3>2. t.count = n + 1 /\ t.result = "SUCCESS" /\ n + 1 = CountTo(kept, k + 2 - 1)
        BY <2>4, <2>6, <2>9
      <3>3. \A m \in bad : m >= k + 2 \/ m > k + 1
        BY <1>3, <1>5, <2>3, <3>1
      <3>4. ASSUME NEW m \in kept, m < k + 2 PROVE w[CountTo(kept, m)] = members[m]
        <4>1. CASE m = k + 1
          <5>1. CountTo(kept, m) = n + 1 /\ members[m] = v
            BY <2>4, <4>1
          <5> HIDE DEF kept, v, n, got
          <5> QED BY <2>7, <3>1, <5>1
        <4>2. CASE m # k + 1
          <5>1. m <= k /\ m < b
            BY <1>2, <2>3, <3>4, <4>2
          <5>2. s.slots[CountTo(kept, m)] = members[m]
            BY <1>5, <5>1
          <5>3. CountTo(kept, m) \in 1..cells /\ CountTo(kept, m) # n + 1
            BY <2>8, <5>1
          <5> HIDE DEF kept, v, n, got
          <5> QED BY <2>7, <5>2, <5>3
        <4> QED BY <4>1, <4>2
      <3>5. ASSUME NEW i \in (n + 1 + 1)..cells PROVE w[i] = KEPT
        <4>1. i \in (n + 1)..cells /\ i \in 1..cells /\ i # n + 1
          BY <2>4
        <4>2. s.slots[i] = KEPT
          BY <1>5, <1>8, <4>1
        <4> HIDE DEF n, got
        <4> QED BY <2>7, <4>1, <4>2
      <3>6. k + 2 = (k + 1) + 1 /\ k + 2 \in 1..(k + 1 + 1)
        OBVIOUS
      <3> HIDE DEF kept, bad, v, n, got
      <3>7. Cut(t.result, members, field, k + 1, k + 2)
        BY <3>2, <3>3, <3>6 DEF Cut, bad
      <3>8. Formed(t, cells)
        BY <2>6, <2>7 DEF Formed, w
      <3>9. Placed(t, members, kept, k + 2)
        BY <3>2, <3>4 DEF Placed, w
      <3>10. Spared(t, cells)
        BY <3>2, <3>5 DEF Spared, w
      <3>11. FillAt(t, members, field, cells, k + 1, k + 2)
        BY <3>7, <3>8, <3>9, <3>10 DEF FillAt, kept
      <3> QED BY <3>11 DEF t, v
    <2>10. CASE got.result # "SUCCESS"
      <3>1. /\ got.result = Refusal(field, v) /\ k + 1 \in bad
            /\ got.target = KEPT \/ got.target = ZEROED
        BY <1>4, <1>8, <2>2, <2>10 DEF Leaves
      <3>2. t.count = n /\ t.result = Refusal(field, v) /\ t.result # "SUCCESS"
        BY <2>6, <2>10, <3>1
      <3>3. \A m \in bad : m >= k + 1 \/ m > k + 1
        BY <1>3, <1>5, <2>3
      <3>4. ASSUME NEW m \in kept, m < k + 1 PROVE w[CountTo(kept, m)] = members[m]
        <4>1. m <= k /\ m < b
          BY <1>2, <2>3, <3>4
        <4>2. s.slots[CountTo(kept, m)] = members[m]
          BY <1>5, <4>1
        <4>3. CountTo(kept, m) \in 1..cells /\ CountTo(kept, m) # n + 1
          BY <2>8, <4>1
        <4> HIDE DEF kept, v, n, got
        <4> QED BY <2>7, <4>2, <4>3
      <3>5. ASSUME NEW i \in (n + 1)..cells
            PROVE  w[i] = KEPT \/ (i = n + 1 /\ w[i] = ZEROED)
        <4>1. CASE i = n + 1
          <5> HIDE DEF n, got
          <5> QED BY <2>7, <3>1, <4>1
        <4>2. CASE i # n + 1
          <5>1. i \in 1..cells
            BY <2>4
          <5>2. s.slots[i] = KEPT
            BY <1>5, <1>8
          <5> HIDE DEF n, got
          <5> QED BY <2>7, <4>2, <5>1, <5>2
        <4> QED BY <4>1, <4>2
      <3>6. k + 1 \in 1..(k + 1 + 1) /\ k + 1 <= k + 1 /\ k + 1 - 1 = k
        OBVIOUS
      <3> HIDE DEF kept, bad, v, n, got
      <3>7. n = CountTo(kept, k + 1 - 1)
        BY <2>3, <3>6, Zenon
      <3>8. FillAt(t, members, field, cells, k + 1, k + 1)
        <4>1. Cut(t.result, members, field, k + 1, k + 1)
          BY <3>1, <3>2, <3>3, <3>6 DEF Cut, bad, v
        <4>2. Formed(t, cells)
          BY <2>6, <2>7 DEF Formed, w
        <4>3. Placed(t, members, kept, k + 1)
          BY <3>2, <3>4, <3>7 DEF Placed, w
        <4>4. Spared(t, cells)
          BY <3>2, <3>5 DEF Spared, w
        <4> QED BY <4>1, <4>2, <4>3, <4>4 DEF FillAt, kept
      <3> QED BY <3>8 DEF t, v
    <2> QED BY <2>9, <2>10
  <1> QED BY <1>6, <1>7, <1>8

\* A fill of a whole array stands somewhere.
LEMMA FilledStands ==
  ASSUME NEW members, \A m \in 1..Len(members) : WellFormed(members[m]), Len(members) \in Nat,
         DOMAIN members = 1..Len(members),
         NEW field, WellMade(field), NEW cells \in Nat, Len(members) <= cells,
         NEW s, s = [result |-> "SUCCESS", count |-> 0, slots |-> [i \in 1..cells |-> KEPT]]
  PROVE  \E b : FillAt(Filled(field, s, members), members, field, cells, Len(members), b)
  <1> DEFINE n == Len(members)
             kept == Kept(members, field.type)
  <1>1. PICK H : InTurn(H, Fill(field), s, members, n) /\ Filled(field, s, members) = H[n]
    BY FilledInTurn
  <1> DEFINE Q(k) == k <= n => \E b : FillAt(H[k], members, field, cells, k, b)
             P == {k \in Nat : Q(k)}
  <1>2. 0 \in P
    <2>1. H[0] = s
      BY <1>1 DEF InTurn
    <2>2. kept \subseteq 1..n /\ Bad(members, field) \subseteq kept
      BY DEF Kept, Bad
    <2>3. CountTo(kept, 0) = 0
      BY CountStep
    <2> HIDE DEF kept
    <2>4. Cut(s.result, members, field, 0, 1)
      <3>1. \A m \in Bad(members, field) : m >= 1 \/ m > 0
        <4>1. ASSUME NEW m \in Bad(members, field) PROVE m >= 1
          <5>1. m \in 1..n
            BY <2>2
          <5> QED BY <5>1
        <4> QED BY <4>1
      <3>2. s.result = "SUCCESS" /\ 1 = 0 + 1 /\ 1 \in 1..(0 + 1)
        OBVIOUS
      <3> QED BY <3>1, <3>2 DEF Cut
    <2>5. Formed(s, cells)
      BY DEF Formed
    <2>6. Placed(s, members, kept, 1)
      <3>1. \A m \in kept : ~(m < 1)
        BY <2>2
      <3>2. s.count = CountTo(kept, 1 - 1)
        BY <2>3
      <3> QED BY <3>1, <3>2 DEF Placed
    <2>7. Spared(s, cells)
      BY DEF Spared
    <2>8. FillAt(s, members, field, cells, 0, 1)
      BY <2>4, <2>5, <2>6, <2>7 DEF FillAt, kept
    <2> QED BY <2>1, <2>8
  <1>3. ASSUME NEW k \in P PROVE k + 1 \in P
    <2>1. k \in Nat /\ Q(k)
      BY <1>3
    <2>2. CASE k + 1 <= n
      <3>1. PICK b : FillAt(H[k], members, field, cells, k, b)
        BY <2>1, <2>2
      <3>2. H[k + 1] = fill(H[k], field, members[k + 1])
        <4>1. k + 1 \in 1..n /\ (k + 1) - 1 = k
          BY <2>1, <2>2
        <4>2. H[k + 1] = Turn(Fill(field), H[k], members[k + 1])
          BY <1>1, <4>1 DEF InTurn
        <4> QED BY <4>2, Turns
      <3>3. \E c : FillAt(fill(H[k], field, members[k + 1]), members, field, cells, k + 1, c)
        BY <2>1, <2>2, <3>1, FillStep
      <3>4. Q(k + 1)
        BY <3>2, <3>3
      <3> HIDE DEF Q
      <3> QED BY <2>1, <3>4
    <2>3. CASE ~(k + 1 <= n)
      <3>1. Q(k + 1)
        BY <2>3
      <3> HIDE DEF Q
      <3> QED BY <2>1, <3>1
    <2> QED BY <2>2, <2>3
  <1>4. P = Nat
    <2> HIDE DEF P
    <2> QED BY <1>2, <1>3, NatSetInduction, P \in SUBSET Nat DEF P
  <1>5. n <= n
    OBVIOUS
  <1>6. Q(n)
    <2> HIDE DEF Q
    <2> QED BY <1>4
  <1> QED BY <1>1, <1>5, <1>6

\* And where it stands, the header's promise is kept.
LEMMA StandingKeepsPromise ==
  ASSUME NEW members, Len(members) \in Nat, NEW type, NEW room, NEW cells \in Nat,
         Len(members) <= cells, NEW s, NEW c,
         FillAt(s, members, [type |-> type, room |-> room, target |-> TRUE], cells,
                Len(members), c)
  PROVE  ArrayPromise(members, type, room, cells, s)
  <1> DEFINE field   == [type |-> type, room |-> room, target |-> TRUE]
             n       == Len(members)
             kept    == { m \in 1..n : ~passed_over(type, members[m]) }
             bad     == { m \in kept : Refusal(field, members[m]) # "SUCCESS" }
             cut(m)  == \A b \in bad : m < b
             took    == { m \in kept : \A b \in bad : m < b }
             slot(m) == Cardinality({ j \in 1..m : j \in kept })
             first   == CHOOSE m \in bad : \A j \in bad : m <= j
  <1>1. field.type = type
    OBVIOUS
  <1>2. kept = Kept(members, field.type) /\ bad = Bad(members, field)
    BY <1>1 DEF Kept, Bad
  <1>3. kept \subseteq 1..n /\ bad \subseteq kept
    OBVIOUS
  <1> HIDE DEF field, kept, bad
  <1>4. /\ \A m \in bad : m >= c \/ m > n
        /\ s.result = "SUCCESS" => c = n + 1
        /\ s.result # "SUCCESS" => c \in bad /\ c <= n /\ s.result = Refusal(field, members[c])
        /\ c \in 1..(n + 1)
        /\ s.count = CountTo(kept, c - 1)
        /\ \A m \in kept : m < c => s.slots[CountTo(kept, m)] = members[m]
        /\ \A i \in (s.count + 1)..cells :
             \/ s.slots[i] = KEPT
             \/ s.result # "SUCCESS" /\ i = s.count + 1 /\ s.slots[i] = ZEROED
    BY <1>2, Zenon DEF FillAt, Cut, Placed, Spared, field
  <1>5. took = kept \cap (1..(c - 1))
    <2>1. ASSUME NEW m \in kept PROVE cut(m) <=> m < c
      <3>1. CASE s.result = "SUCCESS"
        <4>1. bad = {}
          BY <1>3, <1>4, <3>1
        <4>2. m < c
          BY <1>3, <1>4, <3>1
        <4> QED BY <4>1, <4>2
      <3>2. CASE s.result # "SUCCESS"
        <4>1. c \in bad /\ \A b \in bad : b \in Nat /\ b >= c
          BY <1>3, <1>4, <3>2
        <4>2. m \in Nat
          BY <1>3
        <4> QED BY <1>4, <4>1, <4>2
      <3> QED BY <3>1, <3>2
    <2>2. ASSUME NEW m \in kept PROVE m \in 1..(c - 1) <=> m < c
      BY <1>3, <1>4
    <2> HIDE DEF cut
    <2>3. \A m : m \in took <=> m \in kept /\ cut(m)
      BY DEF cut
    <2> HIDE DEF took
    <2> QED BY <2>1, <2>2, <2>3
  <1>6. s.count = Cardinality(took)
    BY <1>4, <1>5 DEF CountTo
  <1>7. s.result = IF bad = {} THEN "SUCCESS" ELSE Refusal(field, members[first])
    <2>1. CASE s.result = "SUCCESS"
      <3>1. bad = {}
        BY <1>3, <1>4, <2>1
      <3> QED BY <2>1, <3>1
    <2>2. CASE s.result # "SUCCESS"
      <3>1. c \in bad /\ \A b \in bad : b \in Nat /\ b >= c
        BY <1>3, <1>4, <2>2
      <3>2. first \in bad /\ \A j \in bad : first <= j
        <4>1. \A j \in bad : c <= j
          BY <1>4, <3>1
        <4> QED BY <3>1, <4>1
      <3> HIDE DEF first
      <3>3. first = c
        BY <1>4, <3>1, <3>2
      <3>4. bad # {}
        BY <3>1
      <3> QED BY <1>4, <2>2, <3>3, <3>4
    <2> QED BY <2>1, <2>2
  <1>8. ASSUME NEW m \in took PROVE s.slots[slot(m)] = members[m]
    <2>1. m \in kept /\ m < c
      BY <1>4, <1>5
    <2>2. { j \in 1..m : j \in kept } = kept \cap (1..m)
      OBVIOUS
    <2> QED BY <1>4, <2>1, <2>2 DEF CountTo
  <1>9. \A i \in (s.count + 1)..cells :
           s.slots[i] = KEPT \/ (i = s.count + 1 /\ s.slots[i] = ZEROED)
    BY <1>4
  <1>10. ~(n > cells)
    OBVIOUS
  <1> HIDE DEF first, took, slot, n
  <1> QED BY <1>6, <1>7, <1>8, <1>9, <1>10, Zenon
          DEF ArrayPromise, field, kept, bad, took, slot, first, n

\* json_reader.c:514: whatever the array, the caller's type, its room and
\* the buffer: the read keeps what json_reader.h promises.
THEOREM ArrayRead ==
  ASSUME NEW array, array.kind = "array", Len(array.members) \in Nat,
         DOMAIN array.members = 1..Len(array.members),
         \A m \in 1..Len(array.members) : WellFormed(array.members[m]),
         NEW type \in Types, NEW room \in Nat, NEW cells \in Nat \ {0}
  PROVE  ArrayPromise(array.members, type, room, cells, read_array(array, type, room, cells))
  <1> DEFINE members == array.members
             field   == [type |-> type, room |-> room, target |-> TRUE]
             s       == [result |-> "SUCCESS", count |-> 0, slots |-> [i \in 1..cells |-> KEPT]]
             got     == read_array(array, type, room, cells)
  <1>1. /\ array.kind # "none" /\ cells # 0 /\ element_size_known(type)
        /\ ~(array.kind # "array")
    BY DEF element_size_known
  <1>2. WellMade(field)
    BY DEF WellMade
  <1>3. CASE Len(members) > cells
    <2>1. got = [result |-> "ERROR_DESTINATION_BUFFER_TO_SMALL", count |-> Len(members),
                 slots |-> [i \in 1..cells |-> KEPT]]
      BY <1>1, <1>3, Zenon DEF read_array
    <2> HIDE DEF got
    <2> QED BY <1>3, <2>1 DEF ArrayPromise, got
  <1>4. CASE ~(Len(members) > cells)
    <2>1. got = Filled(field, s, members)
      BY <1>1, <1>4, Zenon DEF read_array, Filled
    <2> HIDE DEF got, field, s, members
    <2>2. Len(members) <= cells
      BY <1>4 DEF members
    <2>3. PICK c : FillAt(got, members, field, cells, Len(members), c)
      BY <1>2, <2>1, <2>2, FilledStands DEF s, members
    <2>4. ArrayPromise(members, type, room, cells, got)
      BY <2>2, <2>3, StandingKeepsPromise DEF field, members
    <2> QED BY <2>4 DEF got, members
  <1> QED BY <1>3, <1>4

-----------------------------------------------------------------------------
(* The walk over an object.                                                *)

\* The places of a name in a line of members or of entries.
Of(seq, key) == { j \in 1..Len(seq) : seq[j].key = key }

\* The member m is the one entry i waits for.
Meets(members, fields, m, i) ==
  /\ m \in 1..Len(members) /\ i \in 1..Len(fields)
  /\ members[m].key = fields[i].key
  /\ Nth(members, m) = Nth(fields, i)

\* The number of a place among those of its name.
LEMMA NthCounts ==
  ASSUME NEW seq, Len(seq) \in Nat, NEW i \in 1..Len(seq)
  PROVE  /\ Nth(seq, i) = CountTo(Of(seq, seq[i].key), i)
         /\ i \in Of(seq, seq[i].key) /\ Nth(seq, i) \in Nat /\ i \in Nat
  <1>1. { j \in 1..i : seq[j].key = seq[i].key } = Of(seq, seq[i].key) \cap (1..i)
    BY DEF Of
  <1>2. i \in Nat /\ i \in Of(seq, seq[i].key)
    BY DEF Of
  <1>3. CountTo(Of(seq, seq[i].key), i) \in Nat
    BY <1>2, CountStep
  <1> QED BY <1>1, <1>2, <1>3 DEF Nth, CountTo

\* No two places of a name have one number.
LEMMA NthOnce ==
  ASSUME NEW seq, Len(seq) \in Nat, NEW i \in 1..Len(seq), NEW j \in 1..Len(seq),
         seq[i].key = seq[j].key, Nth(seq, i) = Nth(seq, j)
  PROVE  i = j
  <1> DEFINE A == Of(seq, seq[i].key)
  <1>1. /\ i \in A /\ j \in A /\ i \in Nat /\ j \in Nat
        /\ CountTo(A, i) = CountTo(A, j) /\ CountTo(A, i) \in Nat
    BY NthCounts
  <1> HIDE DEF A
  <1>2. ~(i < j)
    BY <1>1, CountGrows
  <1>3. ~(j < i)
    BY <1>1, CountGrows
  <1> QED BY <1>1, <1>2, <1>3

\* A member meets at most one entry, an entry at most one member.
LEMMA MeetsOnce ==
  ASSUME NEW members, Len(members) \in Nat, NEW fields, Len(fields) \in Nat, NEW m, NEW i,
         Meets(members, fields, m, i)
  PROVE  /\ \A n : Meets(members, fields, n, i) => n = m
         /\ \A j : Meets(members, fields, m, j) => j = i
  <1>1. ASSUME NEW n, Meets(members, fields, n, i) PROVE n = m
    BY <1>1, NthOnce DEF Meets
  <1>2. ASSUME NEW j, Meets(members, fields, m, j) PROVE j = i
    BY <1>2, NthOnce DEF Meets
  <1> QED BY <1>1, <1>2

\* The entries that k members have met.
Visits(seen, members, fields, k) ==
  /\ seen \subseteq 1..Len(fields)
  /\ \A i \in 1..Len(fields) :
       i \in seen <=> Nth(fields, i) <= CountTo(Of(members, fields[i].key), k)

\* A member's number is how many of its name there have been.
LEMMA Visited ==
  ASSUME NEW members, Len(members) \in Nat, NEW fields, Len(fields) \in Nat,
         NEW k \in Nat, k + 1 <= Len(members), NEW i \in 1..Len(fields)
  PROVE  Nth(fields, i) <= CountTo(Of(members, fields[i].key), k + 1)
           <=> \/ Nth(fields, i) <= CountTo(Of(members, fields[i].key), k)
               \/ Meets(members, fields, k + 1, i)
  <1> DEFINE key == fields[i].key
             A   == Of(members, key)
  <1>1. k + 1 \in 1..Len(members) /\ Nth(fields, i) \in Nat
    BY NthCounts
  <1>2. CountTo(A, k) \in Nat /\ (k + 1 \in A => CountTo(A, k + 1) = CountTo(A, k) + 1)
        /\ (k + 1 \notin A => CountTo(A, k + 1) = CountTo(A, k))
    BY CountStep
  <1>3. k + 1 \in A <=> members[k + 1].key = key
    BY <1>1 DEF Of
  <1>4. members[k + 1].key = key => Nth(members, k + 1) = CountTo(A, k + 1)
    BY <1>1, NthCounts
  <1>5. Meets(members, fields, k + 1, i) <=> /\ members[k + 1].key = key
                                             /\ Nth(members, k + 1) = Nth(fields, i)
    BY <1>1 DEF Meets
  <1> HIDE DEF A, key
  <1>6. Nth(fields, i) <= CountTo(A, k + 1)
          <=> Nth(fields, i) <= CountTo(A, k) \/ Meets(members, fields, k + 1, i)
    <2>1. CASE k + 1 \in A
      BY <1>1, <1>2, <1>3, <1>4, <1>5, <2>1
    <2>2. CASE k + 1 \notin A
      BY <1>2, <1>3, <1>5, <2>2
    <2> QED BY <2>1, <2>2
  <1> QED BY <1>6 DEF A, key

\* One member further, the entry it meets is among them.
LEMMA VisitStep ==
  ASSUME NEW members, Len(members) \in Nat, NEW fields, Len(fields) \in Nat,
         NEW k \in Nat, k + 1 <= Len(members),
         NEW seen, Visits(seen, members, fields, k),
         NEW after, \A i : i \in after <=> i \in seen \/ Meets(members, fields, k + 1, i)
  PROVE  Visits(after, members, fields, k + 1)
  <1>1. ASSUME NEW i \in after PROVE i \in 1..Len(fields)
    BY DEF Visits, Meets
  <1>2. ASSUME NEW i \in 1..Len(fields)
        PROVE  i \in after <=> Nth(fields, i) <= CountTo(Of(members, fields[i].key), k + 1)
    BY Visited DEF Visits
  <1> QED BY <1>1, <1>2 DEF Visits

\* The open entry the walk finds first is the one the member meets; it finds
\* none exactly when the member meets none.
LEMMA EntryFound ==
  ASSUME NEW members, Len(members) \in Nat, NEW fields, Len(fields) \in Nat,
         NEW k \in Nat, k + 1 <= Len(members),
         NEW s, Visits(s.visited, members, fields, k)
  PROVE  LET e == entry_met(s, fields, members[k + 1].key)
         IN  /\ e # NOT_NAMED => Meets(members, fields, k + 1, e) /\ e \notin s.visited
             /\ e = NOT_NAMED \/ valid_mask(fields) \subseteq s.visited
                  => \A i : ~Meets(members, fields, k + 1, i)
  <1> DEFINE key  == members[k + 1].key
             e    == entry_met(s, fields, key)
             open == { i \in valid_mask(fields) \ s.visited : fields[i].key = key }
             A    == Of(fields, key)
             B    == Of(members, key)
             c    == CountTo(B, k)
  <1>1. /\ k + 1 \in 1..Len(members) /\ k + 1 \in B /\ c \in Nat
        /\ CountTo(B, k + 1) = c + 1 /\ Nth(members, k + 1) = c + 1
    <2>1. k + 1 \in 1..Len(members)
      OBVIOUS
    <2>2. k + 1 \in B /\ Nth(members, k + 1) = CountTo(B, k + 1)
      BY <2>1, NthCounts
    <2> HIDE DEF B
    <2> QED BY <2>1, <2>2, CountStep
  <1>2. e = IF open = {} THEN NOT_NAMED ELSE Min(open)
    BY DEF entry_met
  <1>3. \A i : i \in open <=> /\ i \in 1..Len(fields) /\ i \notin s.visited
                              /\ fields[i].key = key
    BY DEF valid_mask
  <1>4. ASSUME NEW i \in open
        PROVE  /\ i \in 1..Len(fields) /\ i \in Nat /\ i \in A
               /\ Nth(fields, i) = CountTo(A, i) /\ Nth(fields, i) \in Nat
               /\ Nth(fields, i) > c
    <2>1. i \in 1..Len(fields) /\ fields[i].key = key /\ i \notin s.visited
      BY <1>3
    <2>2. i \in A /\ Nth(fields, i) = CountTo(A, i) /\ Nth(fields, i) \in Nat
      BY <2>1, NthCounts
    <2>3. ~(Nth(fields, i) <= CountTo(Of(members, fields[i].key), k))
      BY <2>1 DEF Visits
    <2>4. ~(Nth(fields, i) <= c)
      BY <2>1, <2>3
    <2> HIDE DEF A, c, open
    <2> QED BY <1>1, <2>1, <2>2, <2>4
  <1>5. \A i : Meets(members, fields, k + 1, i) => i \in open
    <2>1. SUFFICES ASSUME NEW i, Meets(members, fields, k + 1, i) PROVE i \in open
      OBVIOUS
    <2>2. i \in 1..Len(fields) /\ fields[i].key = key /\ Nth(fields, i) = c + 1
      BY <1>1, <2>1 DEF Meets
    <2>3. i \in s.visited <=> Nth(fields, i) <= CountTo(Of(members, fields[i].key), k)
      BY <2>2 DEF Visits
    <2>4. i \in s.visited <=> Nth(fields, i) <= c
      BY <2>2, <2>3
    <2> HIDE DEF open, c
    <2> QED BY <1>1, <1>3, <2>2, <2>4
  <1>6. ASSUME e # NOT_NAMED PROVE Meets(members, fields, k + 1, e) /\ e \notin s.visited
    <2>1. open # {} /\ e = Min(open)
      BY <1>2, <1>6
    <2>2. open \in SUBSET Nat
      BY <1>4
    <2> HIDE DEF open, e, A, B, c
    <2>3. e \in open /\ \A i \in open : e <= i
      BY <2>1, <2>2, MinOf
    <2>4. c + 1 \in 1..CountTo(A, e) /\ e \in Nat
      BY <1>1, <1>4, <2>3
    <2>5. PICK m \in 1..e : m \in A /\ CountTo(A, m) = c + 1
      BY <2>4, CountReaches
    <2>6. m \in 1..Len(fields) /\ fields[m].key = key /\ Nth(fields, m) = c + 1
      <3>1. m \in 1..Len(fields) /\ fields[m].key = key
        BY <2>5 DEF A, Of
      <3>2. Nth(fields, m) = CountTo(A, m)
        BY <3>1, NthCounts DEF A
      <3> QED BY <2>5, <3>1, <3>2
    <2>7. Meets(members, fields, k + 1, m)
      BY <1>1, <2>6 DEF Meets, key
    <2>8. m = e
      <3>1. m \in open
        BY <1>5, <2>7
      <3>2. m <= e /\ e <= m /\ m \in Nat /\ e \in Nat
        BY <2>3, <2>4, <2>5, <3>1
      <3> QED BY <3>2
    <2> QED BY <1>3, <2>3, <2>7, <2>8
  <1>7. ASSUME e = NOT_NAMED \/ valid_mask(fields) \subseteq s.visited
        PROVE  \A i : ~Meets(members, fields, k + 1, i)
    <2>1. open = {}
      <3>1. CASE valid_mask(fields) \subseteq s.visited
        BY <3>1
      <3>2. CASE e = NOT_NAMED /\ open # {}
        <4>1. e = Min(open)
          BY <1>2, <3>2
        <4>2. open \in SUBSET Nat
          BY <1>4
        <4>3. e \in open
          <5> HIDE DEF open, e
          <5> QED BY <3>2, <4>1, <4>2, MinOf
        <4>4. e \in 1..Len(fields)
          <5> HIDE DEF open, e
          <5> QED BY <1>4, <4>3
        <4> HIDE DEF e
        <4> QED BY <3>2, <4>4 DEF NOT_NAMED
      <3> QED BY <1>7, <3>1, <3>2
    <2> HIDE DEF open
    <2> QED BY <1>5, <2>1
  <1> HIDE DEF open
  <1> QED BY <1>6, <1>7

\* The member m is one the entry i is to be read from.
Due(members, fields, m, i) ==
  Meets(members, fields, m, i) /\ ~passed_over(fields[i].type, members[m].value)

\* It cannot be.
Balks(members, fields, m, i) ==
  Due(members, fields, m, i) /\ Refusal(fields[i], members[m].value) # "SUCCESS"

\* After k members the walk has done with those before b: it stopped at b,
\* or b is the next one.
Halt(s, members, fields, k, b) ==
  /\ b \in 1..(k + 1)
  /\ s.stopped \in BOOLEAN
  /\ ~s.stopped => b = k + 1 /\ s.result = "SUCCESS" /\ Visits(s.visited, members, fields, k)
  /\ s.stopped => /\ b <= k
                  /\ \E i : /\ Balks(members, fields, b, i)
                            /\ s.result = Refusal(fields[i], members[b].value)
Whole(s, fields) ==
  /\ s = [result |-> s.result, stopped |-> s.stopped, visited |-> s.visited,
          found |-> s.found, targets |-> s.targets]
  /\ s.targets = [i \in 1..Len(fields) |-> s.targets[i]]
Found(s, members, fields, b) ==
  \A i : i \in s.found <=> \E m : m < b /\ Due(members, fields, m, i)
Reads(s, members, fields, b) ==
  \A m, i : m < b /\ Due(members, fields, m, i) =>
    ~Balks(members, fields, m, i) /\ s.targets[i] = members[m].value
Unread(s, members, fields, b) ==
  \A i \in (1..Len(fields)) \ s.found :
    \/ s.targets[i] = KEPT
    \/ /\ s.stopped /\ Balks(members, fields, b, i)
       /\ s.targets[i] = ZEROED /\ fields[i].type \in {"HEX_FIXED", "UUID"}

WalkAt(s, members, fields, k, b) ==
  /\ Halt(s, members, fields, k, b)
  /\ Whole(s, fields)
  /\ Found(s, members, fields, b)
  /\ Reads(s, members, fields, b)
  /\ Unread(s, members, fields, b)

\* A member before the next one is a member before this one, or this one.
LEMMA DueBefore ==
  ASSUME NEW members, Len(members) \in Nat, NEW fields, Len(fields) \in Nat,
         NEW k \in Nat
  PROVE  \A m, i : Due(members, fields, m, i) => m \in Nat /\ (m < k + 2 <=> m < k + 1 \/ m = k + 1)
  BY DEF Due, Meets

\* A walk that has stopped goes nowhere.
LEMMA StoppedStep ==
  ASSUME NEW members, Len(members) \in Nat, NEW fields, Len(fields) \in Nat,
         NEW k \in Nat, NEW s, NEW b, WalkAt(s, members, fields, k, b), s.stopped
  PROVE  WalkAt(s, members, fields, k + 1, b)
  <1>1. Halt(s, members, fields, k + 1, b)
    BY DEF WalkAt, Halt
  <1> QED BY <1>1 DEF WalkAt

\* A member that meets no entry, or only passes it over, leaves it unread.
LEMMA IdleStep ==
  ASSUME NEW members, Len(members) \in Nat, NEW fields, Len(fields) \in Nat,
         NEW k \in Nat, k + 1 <= Len(members),
         NEW s, WalkAt(s, members, fields, k, k + 1), ~s.stopped,
         \A i : ~Due(members, fields, k + 1, i),
         NEW after, Visits(after, members, fields, k + 1)
  PROVE  WalkAt([s EXCEPT !.visited = after], members, fields, k + 1, k + 2)
  <1> DEFINE t == [s EXCEPT !.visited = after]
  <1>1. /\ s.stopped \in BOOLEAN /\ s.result = "SUCCESS" /\ Whole(s, fields)
        /\ Found(s, members, fields, k + 1) /\ Reads(s, members, fields, k + 1)
        /\ Unread(s, members, fields, k + 1)
    BY DEF WalkAt, Halt
  <1>2. t = [result |-> s.result, stopped |-> s.stopped, visited |-> after,
             found |-> s.found, targets |-> s.targets]
    BY <1>1 DEF Whole
  <1>3. /\ t.result = s.result /\ t.stopped = s.stopped /\ t.visited = after
        /\ t.found = s.found /\ t.targets = s.targets
    BY <1>2
  <1> HIDE DEF t
  <1>4. Halt(t, members, fields, k + 1, k + 2)
    <2>1. k + 2 \in 1..(k + 1 + 1) /\ k + 2 = (k + 1) + 1
      OBVIOUS
    <2> QED BY <1>1, <1>3, <2>1 DEF Halt
  <1>5. Whole(t, fields)
    BY <1>1, <1>2, <1>3, Zenon DEF Whole
  <1>6. \A m, i : Due(members, fields, m, i) => (m < k + 2 <=> m < k + 1)
    <2>1. \A m, i : Due(members, fields, m, i) => (m < k + 2 <=> m < k + 1 \/ m = k + 1)
      BY DueBefore
    <2> QED BY <2>1
  <1>7. Found(t, members, fields, k + 2)
    BY <1>1, <1>3, <1>6 DEF Found
  <1>8. Reads(t, members, fields, k + 2)
    BY <1>1, <1>3, <1>6 DEF Reads
  <1>9. Unread(t, members, fields, k + 2)
    BY <1>1, <1>3 DEF Unread
  <1>10. WalkAt(t, members, fields, k + 1, k + 2)
    BY <1>4, <1>5, <1>7, <1>8, <1>9 DEF WalkAt
  <1> QED BY <1>10 DEF t

\* What a turn of the walk changes, part by part.
LEMMA ReadChanges ==
  ASSUME NEW s, NEW fields, Whole(s, fields), NEW e, NEW target
  PROVE  [s EXCEPT !.visited = @ \cup {e}, !.found = @ \cup {e}, !.targets[e] = target]
           = [result |-> s.result, stopped |-> s.stopped, visited |-> s.visited \cup {e},
              found |-> s.found \cup {e}, targets |-> [s.targets EXCEPT ![e] = target]]
  <1> DEFINE a == [s EXCEPT !.visited = @ \cup {e}]
             b == [a EXCEPT !.found = @ \cup {e}]
  <1>1. s = [result |-> s.result, stopped |-> s.stopped, visited |-> s.visited,
             found |-> s.found, targets |-> s.targets]
    BY DEF Whole
  <1>2. a = [result |-> s.result, stopped |-> s.stopped, visited |-> s.visited \cup {e},
             found |-> s.found, targets |-> s.targets]
    BY <1>1
  <1> HIDE DEF a
  <1>3. b = [result |-> s.result, stopped |-> s.stopped, visited |-> s.visited \cup {e},
             found |-> s.found \cup {e}, targets |-> s.targets]
    BY <1>2
  <1> HIDE DEF b
  <1>4. [b EXCEPT !.targets[e] = target]
          = [result |-> s.result, stopped |-> s.stopped, visited |-> s.visited \cup {e},
             found |-> s.found \cup {e}, targets |-> [s.targets EXCEPT ![e] = target]]
    BY <1>3
  <1> QED BY <1>4 DEF a, b

Halted(s, got, yes, e, target) ==
  [s EXCEPT !.stopped = yes, !.result = got, !.targets[e] = target]

LEMMA BalkChanges ==
  ASSUME NEW s, NEW fields, Whole(s, fields), NEW got, NEW yes, NEW e, NEW target
  PROVE  Halted(s, got, yes, e, target)
           = [result |-> got, stopped |-> yes, visited |-> s.visited,
              found |-> s.found, targets |-> [s.targets EXCEPT ![e] = target]]
  <1> DEFINE c == [s EXCEPT !.stopped = yes]
             d == [c EXCEPT !.result = got]
  <1>1. s = [result |-> s.result, stopped |-> s.stopped, visited |-> s.visited,
             found |-> s.found, targets |-> s.targets]
    BY DEF Whole
  <1>2. c = [result |-> s.result, stopped |-> yes, visited |-> s.visited,
             found |-> s.found, targets |-> s.targets]
    BY <1>1
  <1> HIDE DEF c
  <1>3. d = [result |-> got, stopped |-> yes, visited |-> s.visited,
             found |-> s.found, targets |-> s.targets]
    BY <1>2
  <1> HIDE DEF d
  <1>4. [d EXCEPT !.targets[e] = target]
          = [result |-> got, stopped |-> yes, visited |-> s.visited,
             found |-> s.found, targets |-> [s.targets EXCEPT ![e] = target]]
    BY <1>3
  <1> QED BY <1>4 DEF c, d, Halted

\* A member that is read fills its entry.
LEMMA ReadStep ==
  ASSUME NEW members, Len(members) \in Nat, NEW fields, Len(fields) \in Nat,
         NEW k \in Nat, k + 1 <= Len(members),
         NEW s, WalkAt(s, members, fields, k, k + 1), ~s.stopped,
         NEW e, Due(members, fields, k + 1, e), ~Balks(members, fields, k + 1, e),
         Visits(s.visited \cup {e}, members, fields, k + 1)
  PROVE  WalkAt([s EXCEPT !.visited = @ \cup {e}, !.found = @ \cup {e},
                          !.targets[e] = members[k + 1].value],
                members, fields, k + 1, k + 2)
  <1> DEFINE v == members[k + 1].value
             t == [s EXCEPT !.visited = @ \cup {e}, !.found = @ \cup {e}, !.targets[e] = v]
             w == [s.targets EXCEPT ![e] = v]
  <1>1. /\ s.stopped \in BOOLEAN /\ s.result = "SUCCESS" /\ Whole(s, fields)
        /\ Found(s, members, fields, k + 1) /\ Reads(s, members, fields, k + 1)
        /\ Unread(s, members, fields, k + 1)
    BY DEF WalkAt, Halt
  <1> HIDE DEF v
  <1>2. t = [result |-> s.result, stopped |-> s.stopped, visited |-> s.visited \cup {e},
             found |-> s.found \cup {e}, targets |-> w]
    BY <1>1, ReadChanges, Zenon
  <1>3. /\ t.result = s.result /\ t.stopped = s.stopped /\ t.visited = s.visited \cup {e}
        /\ t.found = s.found \cup {e} /\ t.targets = w
    BY <1>2
  <1>4. Meets(members, fields, k + 1, e) /\ e \in 1..Len(fields)
    BY DEF Due, Meets
  <1>5. /\ w = [i \in 1..Len(fields) |-> w[i]] /\ w[e] = v
        /\ \A i \in 1..Len(fields) : i # e => w[i] = s.targets[i]
    BY <1>1, <1>4 DEF Whole
  <1> HIDE DEF t, w
  <1>6. Halt(t, members, fields, k + 1, k + 2)
    <2>1. k + 2 \in 1..(k + 1 + 1) /\ k + 2 = (k + 1) + 1
      OBVIOUS
    <2> QED BY <1>1, <1>3, <2>1 DEF Halt
  <1>7. Whole(t, fields)
    BY <1>2, <1>3, <1>5, Zenon DEF Whole
  <1>8. \A m, i : Due(members, fields, m, i) => (m < k + 2 <=> m < k + 1 \/ m = k + 1)
    BY DueBefore
  <1>9. \A i : Due(members, fields, k + 1, i) => i = e
    BY <1>4, MeetsOnce DEF Due
  <1>10. \A m : Due(members, fields, m, e) => m = k + 1
    BY <1>4, MeetsOnce DEF Due
  <1>11. Found(t, members, fields, k + 2)
    <2>1. ASSUME NEW i PROVE i \in t.found <=> \E m : m < k + 2 /\ Due(members, fields, m, i)
      <3>1. i \in t.found <=> i \in s.found \/ i = e
        BY <1>3
      <3>2. i \in s.found <=> \E m : m < k + 1 /\ Due(members, fields, m, i)
        BY <1>1 DEF Found
      <3>3. k + 1 < k + 2
        OBVIOUS
      <3> QED BY <1>8, <1>9, <3>1, <3>2, <3>3
    <2> QED BY <2>1 DEF Found
  <1>12. Reads(t, members, fields, k + 2)
    <2>1. ASSUME NEW m, NEW i, m < k + 2, Due(members, fields, m, i)
          PROVE  ~Balks(members, fields, m, i) /\ t.targets[i] = members[m].value
      <3>1. CASE m = k + 1
        BY <1>3, <1>5, <1>9, <2>1, <3>1 DEF v
      <3>2. CASE m # k + 1
        <4>1. m < k + 1 /\ i # e
          BY <1>8, <1>10, <2>1, <3>2
        <4>2. i \in 1..Len(fields)
          BY <2>1 DEF Due, Meets
        <4> QED BY <1>1, <1>3, <1>5, <2>1, <4>1, <4>2 DEF Reads
      <3> QED BY <3>1, <3>2
    <2> QED BY <2>1 DEF Reads
  <1>13. Unread(t, members, fields, k + 2)
    <2>1. ASSUME NEW i \in (1..Len(fields)) \ t.found PROVE t.targets[i] = KEPT
      <3>1. i \in (1..Len(fields)) \ s.found /\ i # e
        BY <1>3, <2>1
      <3>2. s.targets[i] = KEPT
        BY <1>1, <3>1 DEF Unread
      <3> QED BY <1>3, <1>5, <3>1, <3>2
    <2> QED BY <2>1 DEF Unread
  <1>14. WalkAt(t, members, fields, k + 1, k + 2)
    BY <1>6, <1>7, <1>11, <1>12, <1>13 DEF WalkAt
  <1> QED BY <1>14 DEF t, v

\* A member that cannot be read ends the walk where it stands.
LEMMA BalkStep ==
  ASSUME NEW members, Len(members) \in Nat, NEW fields, Len(fields) \in Nat,
         NEW k \in Nat, k + 1 <= Len(members),
         NEW s, WalkAt(s, members, fields, k, k + 1), ~s.stopped,
         NEW e, Balks(members, fields, k + 1, e),
         NEW target, \/ target = KEPT
                     \/ target = ZEROED /\ fields[e].type \in {"HEX_FIXED", "UUID"}
  PROVE  WalkAt([s EXCEPT !.stopped = TRUE,
                          !.result = Refusal(fields[e], members[k + 1].value),
                          !.targets[e] = target],
                members, fields, k + 1, k + 1)
  <1> DEFINE r == Refusal(fields[e], members[k + 1].value)
             t == [s EXCEPT !.stopped = TRUE, !.result = r, !.targets[e] = target]
             w == [s.targets EXCEPT ![e] = target]
  <1>1. /\ s.stopped \in BOOLEAN /\ s.result = "SUCCESS" /\ Whole(s, fields)
        /\ Found(s, members, fields, k + 1) /\ Reads(s, members, fields, k + 1)
        /\ Unread(s, members, fields, k + 1)
    BY DEF WalkAt, Halt
  <1> HIDE DEF r
  <1>2. t = [result |-> r, stopped |-> TRUE, visited |-> s.visited,
             found |-> s.found, targets |-> w]
    <2> DEFINE yes == TRUE
    <2> HIDE DEF yes
    <2>1. Whole(s, fields)
      BY <1>1
    <2>2. Halted(s, r, yes, e, target)
            = [result |-> r, stopped |-> yes, visited |-> s.visited,
               found |-> s.found, targets |-> [s.targets EXCEPT ![e] = target]]
      BY <2>1, BalkChanges
    <2> QED BY <2>2, Zenon DEF yes, Halted
  <1>3. /\ t.result = r /\ t.stopped = TRUE /\ t.visited = s.visited
        /\ t.found = s.found /\ t.targets = w
    BY <1>2
  <1>4. Meets(members, fields, k + 1, e) /\ e \in 1..Len(fields)
    BY DEF Balks, Due, Meets
  <1>5. /\ w = [i \in 1..Len(fields) |-> w[i]] /\ w[e] = target
        /\ \A i \in 1..Len(fields) : i # e => w[i] = s.targets[i]
    BY <1>1, <1>4 DEF Whole
  <1> HIDE DEF t, w
  <1>6. Halt(t, members, fields, k + 1, k + 1)
    <2>1. k + 1 \in 1..(k + 1 + 1) /\ k + 1 <= k + 1
      OBVIOUS
    <2> QED BY <1>3, <2>1 DEF Halt, r
  <1>7. Whole(t, fields)
    BY <1>2, <1>3, <1>5, Zenon DEF Whole
  <1>8. Found(t, members, fields, k + 1)
    BY <1>1, <1>3 DEF Found
  <1>9. Reads(t, members, fields, k + 1)
    <2>1. ASSUME NEW m, NEW i, m < k + 1, Due(members, fields, m, i)
          PROVE  ~Balks(members, fields, m, i) /\ t.targets[i] = members[m].value
      <3>1. i # e
        <4>1. i = e => m = k + 1
          BY <1>4, <2>1, MeetsOnce DEF Due
        <4>2. ~(k + 1 < k + 1)
          OBVIOUS
        <4> QED BY <2>1, <4>1, <4>2
      <3>2. i \in 1..Len(fields)
        BY <2>1 DEF Due, Meets
      <3> QED BY <1>1, <1>3, <1>5, <2>1, <3>1, <3>2 DEF Reads
    <2> QED BY <2>1 DEF Reads
  <1>10. Unread(t, members, fields, k + 1)
    <2>1. ASSUME NEW i \in (1..Len(fields)) \ t.found
          PROVE  \/ t.targets[i] = KEPT
                 \/ /\ t.stopped /\ Balks(members, fields, k + 1, i)
                    /\ t.targets[i] = ZEROED /\ fields[i].type \in {"HEX_FIXED", "UUID"}
      <3>1. CASE i = e
        BY <1>3, <1>5, <3>1
      <3>2. CASE i # e
        <4>1. s.targets[i] = KEPT
          BY <1>1, <1>3, <2>1 DEF Unread
        <4> QED BY <1>3, <1>5, <3>2, <4>1
      <3> QED BY <3>1, <3>2
    <2> QED BY <2>1 DEF Unread
  <1>11. WalkAt(t, members, fields, k + 1, k + 1)
    BY <1>6, <1>7, <1>8, <1>9, <1>10 DEF WalkAt
  <1> QED BY <1>11 DEF t, r

\* One member further.
LEMMA WalkStep ==
  ASSUME NEW members, Len(members) \in Nat, \A m \in 1..Len(members) : WellFormed(members[m].value),
         NEW fields, Len(fields) \in Nat, \A i \in 1..Len(fields) : WellMade(fields[i]),
         NEW k \in Nat, k + 1 <= Len(members),
         NEW s, NEW b, WalkAt(s, members, fields, k, b)
  PROVE  \E c : WalkAt(step(s, fields, members[k + 1]), members, fields, k + 1, c)
  <1> DEFINE member == members[k + 1]
             t      == step(s, fields, member)
             e      == entry_met(s, fields, member.key)
             got    == read_field(fields[e], member.value)
             full   == valid_mask(fields) \subseteq s.visited
             after  == s.visited \cup {e}
  <1>1. t = IF s.stopped \/ full \/ e = NOT_NAMED THEN s
            ELSE IF passed_over(fields[e].type, member.value)
            THEN [s EXCEPT !.visited = @ \cup {e}]
            ELSE IF got.result # "SUCCESS"
            THEN [s EXCEPT !.stopped = TRUE, !.result = got.result, !.targets[e] = got.target]
            ELSE [s EXCEPT !.visited = @ \cup {e}, !.found = @ \cup {e},
                           !.targets[e] = got.target]
    BY Zenon DEF step
  <1>2. s.stopped \in BOOLEAN
    BY DEF WalkAt, Halt
  <1>3. CASE s.stopped
    <2>1. t = s
      <3> HIDE DEF t, e, full
      <3> QED BY <1>1, <1>3, Zenon
    <2>2. WalkAt(s, members, fields, k + 1, b)
      BY <1>3, StoppedStep
    <2> HIDE DEF t
    <2> QED BY <2>1, <2>2 DEF t
  <1>4. CASE ~s.stopped
    <2>1. b = k + 1 /\ Visits(s.visited, members, fields, k) /\ Whole(s, fields)
      BY <1>4 DEF WalkAt, Halt
    <2>2. WalkAt(s, members, fields, k, k + 1)
      BY <2>1
    <2>3. /\ e # NOT_NAMED => Meets(members, fields, k + 1, e) /\ e \notin s.visited
          /\ e = NOT_NAMED \/ full => \A i : ~Meets(members, fields, k + 1, i)
      BY <2>1, EntryFound
    <2> HIDE DEF t, e, full, after, got
    <2>4. CASE full \/ e = NOT_NAMED
      <3>1. t = s
        BY <1>1, <2>4, Zenon
      <3>2. \A i : ~Meets(members, fields, k + 1, i)
        BY <2>3, <2>4
      <3>3. Visits(s.visited, members, fields, k + 1)
        BY <2>1, <3>2, VisitStep
      <3>4. WalkAt([s EXCEPT !.visited = s.visited], members, fields, k + 1, k + 2)
        BY <1>4, <2>2, <3>2, <3>3, IdleStep DEF Due
      <3>5. [s EXCEPT !.visited = s.visited] = s
        <4>1. s = [result |-> s.result, stopped |-> s.stopped, visited |-> s.visited,
                   found |-> s.found, targets |-> s.targets]
          BY <2>1 DEF Whole
        <4> QED BY <4>1
      <3>6. WalkAt(t, members, fields, k + 1, k + 2)
        BY <3>1, <3>4, <3>5, Zenon
      <3> QED BY <3>6 DEF t
    <2>5. CASE ~(full \/ e = NOT_NAMED)
      <3>1. Meets(members, fields, k + 1, e) /\ e \notin s.visited
        BY <2>3, <2>5
      <3>2. \A i : Meets(members, fields, k + 1, i) <=> i = e
        BY <3>1, MeetsOnce
      <3>3. Visits(after, members, fields, k + 1)
        <4>1. \A i : i \in after <=> i \in s.visited \/ Meets(members, fields, k + 1, i)
          BY <3>2 DEF after
        <4> QED BY <2>1, <4>1, VisitStep
      <3>4. /\ k + 1 \in 1..Len(members) /\ e \in 1..Len(fields)
        BY <3>1 DEF Meets
      <3>5. WellFormed(member.value) /\ WellMade(fields[e])
        BY <3>4
      <3>6. CASE passed_over(fields[e].type, member.value)
        <4>1. t = [s EXCEPT !.visited = after]
          BY <1>1, <1>4, <2>5, <3>6, Zenon DEF after
        <4>2. \A i : ~Due(members, fields, k + 1, i)
          BY <3>2, <3>6 DEF Due
        <4>3. WalkAt(t, members, fields, k + 1, k + 2)
          BY <1>4, <2>2, <3>3, <4>1, <4>2, IdleStep
        <4> QED BY <4>3 DEF t
      <3>7. CASE ~passed_over(fields[e].type, member.value)
        <4>1. Due(members, fields, k + 1, e)
          BY <3>1, <3>7 DEF Due
        <4>2. Leaves(fields[e], member.value, got)
          BY <3>5, FieldReads DEF got
        <4>3. CASE got.result = "SUCCESS"
          <5>1. got.target = member.value /\ ~Balks(members, fields, k + 1, e)
            BY <4>2, <4>3 DEF Leaves, Balks
          <5>2. t = [s EXCEPT !.visited = @ \cup {e}, !.found = @ \cup {e},
                              !.targets[e] = member.value]
            BY <1>1, <1>4, <2>5, <3>7, <4>3, <5>1, Zenon
          <5>3. WalkAt(t, members, fields, k + 1, k + 2)
            BY <1>4, <2>2, <3>3, <4>1, <5>1, <5>2, ReadStep DEF after
          <5> QED BY <5>3 DEF t
        <4>4. CASE got.result # "SUCCESS"
          <5>1. /\ got.result = Refusal(fields[e], member.value)
                /\ Balks(members, fields, k + 1, e)
                /\ \/ got.target = KEPT
                   \/ got.target = ZEROED /\ fields[e].type \in {"HEX_FIXED", "UUID"}
            BY <4>1, <4>2, <4>4 DEF Leaves, Balks
          <5>2. t = [s EXCEPT !.stopped = TRUE, !.result = Refusal(fields[e], member.value),
                              !.targets[e] = got.target]
            BY <1>1, <1>4, <2>5, <3>7, <4>4, <5>1, Zenon
          <5>3. WalkAt(t, members, fields, k + 1, k + 1)
            BY <1>4, <2>2, <5>1, <5>2, BalkStep
          <5> QED BY <5>3 DEF t
        <4> QED BY <4>3, <4>4
      <3> QED BY <3>6, <3>7
    <2> QED BY <2>4, <2>5
  <1> QED BY <1>2, <1>3, <1>4

\* A walk over a whole object stands somewhere.
LEMMA WalkedStands ==
  ASSUME NEW members, Len(members) \in Nat, DOMAIN members = 1..Len(members),
         \A m \in 1..Len(members) : WellFormed(members[m].value),
         NEW fields, Len(fields) \in Nat, \A i \in 1..Len(fields) : WellMade(fields[i]),
         NEW s, s = [result |-> "SUCCESS", stopped |-> FALSE, visited |-> {}, found |-> {},
                     targets |-> [i \in 1..Len(fields) |-> KEPT]]
  PROVE  \E b : WalkAt(Walked(fields, s, members), members, fields, Len(members), b)
  <1> DEFINE n == Len(members)
  <1>1. PICK H : InTurn(H, Walk(fields), s, members, n) /\ Walked(fields, s, members) = H[n]
    BY WalkedInTurn
  <1> DEFINE Q(k) == k <= n => \E b : WalkAt(H[k], members, fields, k, b)
             P == {k \in Nat : Q(k)}
  <1>2. 0 \in P
    <2>1. H[0] = s
      BY <1>1 DEF InTurn
    <2>2. /\ s.result = "SUCCESS" /\ ~s.stopped /\ s.stopped \in BOOLEAN /\ s.visited = {}
          /\ s.found = {} /\ s.targets = [i \in 1..Len(fields) |-> KEPT]
      OBVIOUS
    <2>3. Visits({}, members, fields, 0)
      <3>1. ASSUME NEW i \in 1..Len(fields)
            PROVE  ~(Nth(fields, i) <= CountTo(Of(members, fields[i].key), 0))
        <4>1. CountTo(Of(members, fields[i].key), 0) = 0
          BY CountStep
        <4> DEFINE A == Of(fields, fields[i].key)
        <4>2. Nth(fields, i) = CountTo(A, i) /\ i \in A /\ i \in Nat /\ 0 < i
          BY NthCounts
        <4>3. CountTo(A, 0) < CountTo(A, i) /\ CountTo(A, 0) = 0 /\ CountTo(A, i) \in Nat
          <5> HIDE DEF A
          <5> QED BY <4>2, CountGrows, CountStep
        <4> HIDE DEF A
        <4> QED BY <4>1, <4>2, <4>3
      <3> QED BY <3>1 DEF Visits
    <2>4. \A m, i : Due(members, fields, m, i) => ~(m < 1)
      BY DEF Due, Meets
    <2>5. Halt(s, members, fields, 0, 1)
      <3>1. 1 \in 1..(0 + 1) /\ 1 = 0 + 1
        OBVIOUS
      <3> QED BY <2>2, <2>3, <3>1 DEF Halt
    <2>6. Whole(s, fields)
      BY DEF Whole
    <2>7. Found(s, members, fields, 1) /\ Reads(s, members, fields, 1)
      BY <2>2, <2>4 DEF Found, Reads
    <2>8. Unread(s, members, fields, 1)
      BY <2>2 DEF Unread
    <2>9. WalkAt(s, members, fields, 0, 1)
      BY <2>5, <2>6, <2>7, <2>8 DEF WalkAt
    <2> QED BY <2>1, <2>9
  <1>3. ASSUME NEW k \in P PROVE k + 1 \in P
    <2>1. k \in Nat /\ Q(k)
      BY <1>3
    <2>2. CASE k + 1 <= n
      <3>1. PICK b : WalkAt(H[k], members, fields, k, b)
        BY <2>1, <2>2
      <3>2. H[k + 1] = step(H[k], fields, members[k + 1])
        <4>1. k + 1 \in 1..n /\ (k + 1) - 1 = k
          BY <2>1, <2>2
        <4>2. H[k + 1] = Turn(Walk(fields), H[k], members[k + 1])
          BY <1>1, <4>1 DEF InTurn
        <4> QED BY <4>2, Turns
      <3>3. \E c : WalkAt(step(H[k], fields, members[k + 1]), members, fields, k + 1, c)
        BY <2>1, <2>2, <3>1, WalkStep
      <3>4. Q(k + 1)
        BY <3>2, <3>3
      <3> HIDE DEF Q
      <3> QED BY <2>1, <3>4
    <2>3. CASE ~(k + 1 <= n)
      <3>1. Q(k + 1)
        BY <2>3
      <3> HIDE DEF Q
      <3> QED BY <2>1, <3>1
    <2> QED BY <2>2, <2>3
  <1>4. P = Nat
    <2> HIDE DEF P
    <2> QED BY <1>2, <1>3, NatSetInduction, P \in SUBSET Nat DEF P
  <1>5. n <= n
    OBVIOUS
  <1>6. Q(n)
    <2> HIDE DEF Q
    <2> QED BY <1>4
  <1> QED BY <1>1, <1>5, <1>6

\* And where it stands, the header's promise is kept.
LEMMA WalkKeepsPromise ==
  ASSUME NEW members, Len(members) \in Nat, NEW fields, Len(fields) \in Nat,
         NEW s, NEW c, WalkAt(s, members, fields, Len(members), c),
         NEW got, got = [result |-> s.result, found |-> s.found, targets |-> s.targets]
  PROVE  ObjectPromise(members, fields, got)
  <1> DEFINE n        == Len(members)
             at(i)    == CHOOSE m \in Met(members, fields, i) : TRUE
             value(i) == members[at(i)].value
             wanted   == { i \in 1..Len(fields) : /\ Met(members, fields, i) # {}
                                                  /\ ~passed_over(fields[i].type, value(i)) }
             bad      == { i \in wanted : Refusal(fields[i], value(i)) # "SUCCESS" }
             before   == { i \in wanted : \A b \in bad : at(i) < at(b) }
             first    == CHOOSE i \in bad : \A j \in bad : at(i) <= at(j)
  <1>1. /\ got.result = s.result /\ got.found = s.found /\ got.targets = s.targets
    OBVIOUS
  <1>2. /\ Halt(s, members, fields, n, c) /\ Whole(s, fields) /\ Found(s, members, fields, c)
        /\ Reads(s, members, fields, c) /\ Unread(s, members, fields, c)
    BY DEF WalkAt
  <1>3. \A m, i : Meets(members, fields, m, i)
                    => /\ i \in 1..Len(fields) /\ m \in 1..n /\ at(i) = m
                       /\ Met(members, fields, i) # {}
    <2>1. SUFFICES ASSUME NEW m, NEW i, Meets(members, fields, m, i)
                   PROVE  /\ i \in 1..Len(fields) /\ m \in 1..n /\ at(i) = m
                          /\ Met(members, fields, i) # {}
      OBVIOUS
    <2>2. i \in 1..Len(fields) /\ m \in 1..n /\ m \in Met(members, fields, i)
      BY <2>1 DEF Meets, Met
    <2>3. \A l \in Met(members, fields, i) : l = m
      <3>1. \A l \in Met(members, fields, i) : Meets(members, fields, l, i)
        BY <2>2 DEF Meets, Met
      <3> QED BY <2>1, <3>1, MeetsOnce
    <2> QED BY <2>2, <2>3
  <1>4. \A i \in 1..Len(fields) : Met(members, fields, i) # {} => Meets(members, fields, at(i), i)
    BY DEF Meets, Met
  <1>5. \A i : i \in wanted <=> /\ i \in 1..Len(fields) /\ Met(members, fields, i) # {}
                                /\ ~passed_over(fields[i].type, value(i))
    OBVIOUS
  <1>6. \A i : i \in bad <=> i \in wanted /\ Refusal(fields[i], value(i)) # "SUCCESS"
    OBVIOUS
  <1>7. \A i : i \in before <=> i \in wanted /\ \A b \in bad : at(i) < at(b)
    OBVIOUS
  <1>8. \A i : value(i) = members[at(i)].value
    OBVIOUS
  <1> HIDE DEF at, value, wanted, bad, before
  <1>9. \A i : i \in wanted => Due(members, fields, at(i), i) /\ i \in 1..Len(fields)
    BY <1>4, <1>5, <1>8 DEF Due
  <1>10. \A m, i : Due(members, fields, m, i) => i \in wanted /\ at(i) = m /\ m \in 1..n
    BY <1>3, <1>5, <1>8 DEF Due
  <1>11. \A i : i \in bad => i \in wanted /\ Balks(members, fields, at(i), i)
    BY <1>6, <1>8, <1>9 DEF Balks
  <1>12. \A m, i : Balks(members, fields, m, i) => i \in bad /\ at(i) = m /\ m \in 1..n
    BY <1>6, <1>8, <1>10 DEF Balks
  <1>13. c \in Nat /\ s.stopped \in BOOLEAN
    BY <1>2 DEF Halt
  <1>14. \A i : i \in wanted => at(i) \in 1..n /\ at(i) \in Nat
    BY <1>9, <1>10
  <1>15. \A j \in bad : at(j) >= c
    <2>1. SUFFICES ASSUME NEW j \in bad PROVE ~(at(j) < c)
      BY <1>11, <1>13, <1>14
    <2> QED BY <1>2, <1>9, <1>11 DEF Reads
  <1>16. \A i \in wanted : i \in before <=> at(i) < c
    <2>1. CASE s.stopped
      <3>1. PICK e : Balks(members, fields, c, e)
        BY <1>2, <2>1 DEF Halt
      <3>2. e \in bad /\ at(e) = c
        BY <1>12, <3>1
      <3>3. ASSUME NEW i \in wanted PROVE i \in before <=> at(i) < c
        <4>1. \A b \in bad : at(b) >= c /\ at(b) \in Nat /\ at(i) \in Nat
          BY <1>11, <1>14, <1>15
        <4>2. (\A b \in bad : at(i) < at(b)) => at(i) < c
          BY <3>2
        <4>3. at(i) < c => \A b \in bad : at(i) < at(b)
          BY <1>13, <4>1
        <4> QED BY <1>7, <4>2, <4>3
      <3> QED BY <3>3
    <2>2. CASE ~s.stopped
      <3>1. c = n + 1
        BY <1>2, <2>2 DEF Halt
      <3>2. \A i \in wanted : at(i) < c
        BY <1>14, <3>1
      <3>3. bad = {}
        <4>1. ASSUME NEW j \in bad PROVE FALSE
          BY <1>11, <1>13, <1>14, <1>15, <3>2
        <4> QED BY <4>1
      <3> QED BY <1>7, <3>2, <3>3
    <2> QED BY <1>13, <2>1, <2>2
  <1>17. got.found = before
    <2>1. ASSUME NEW i PROVE i \in s.found <=> i \in before
      <3>1. i \in s.found <=> \E m : m < c /\ Due(members, fields, m, i)
        BY <1>2 DEF Found
      <3>2. i \in before => i \in wanted /\ at(i) < c
        BY <1>7, <1>16
      <3>3. (\E m : m < c /\ Due(members, fields, m, i)) => i \in wanted /\ at(i) < c
        BY <1>10
      <3>4. i \in wanted => Due(members, fields, at(i), i)
        BY <1>9
      <3> QED BY <1>16, <3>1, <3>2, <3>3, <3>4
    <2> QED BY <1>1, <2>1
  <1>18. got.result = IF bad = {} THEN "SUCCESS" ELSE Refusal(fields[first], value(first))
    <2>1. CASE ~s.stopped
      <3>1. c = n + 1 /\ s.result = "SUCCESS"
        BY <1>2, <2>1 DEF Halt
      <3>2. bad = {}
        <4>1. ASSUME NEW j \in bad PROVE FALSE
          BY <1>11, <1>14, <1>15, <3>1
        <4> QED BY <4>1
      <3> QED BY <1>1, <3>1, <3>2
    <2>2. CASE s.stopped
      <3>1. PICK e : /\ Balks(members, fields, c, e)
                     /\ s.result = Refusal(fields[e], members[c].value)
        BY <1>2, <2>2 DEF Halt
      <3>2. e \in bad /\ at(e) = c /\ value(e) = members[c].value
        BY <1>8, <1>12, <3>1
      <3>3. first \in bad /\ \A j \in bad : at(first) <= at(j)
        <4>1. \A j \in bad : at(e) <= at(j)
          BY <1>11, <1>13, <1>14, <1>15, <3>2
        <4> QED BY <3>2, <4>1
      <3> HIDE DEF first
      <3>4. at(first) = c
        <4>1. at(first) <= c /\ at(first) >= c /\ at(first) \in Nat
          BY <1>11, <1>14, <1>15, <3>2, <3>3
        <4> QED BY <1>13, <4>1
      <3>5. first = e
        <4>1. Meets(members, fields, c, first) /\ Meets(members, fields, c, e)
          BY <1>11, <3>1, <3>3, <3>4 DEF Balks, Due
        <4> QED BY <4>1, MeetsOnce
      <3> QED BY <1>1, <3>1, <3>2, <3>5
    <2> QED BY <1>13, <2>1, <2>2
  <1>19. \A i \in before : got.targets[i] = value(i)
    <2>1. ASSUME NEW i \in before PROVE s.targets[i] = value(i)
      <3>1. i \in wanted /\ at(i) < c /\ Due(members, fields, at(i), i)
        BY <1>7, <1>9, <1>16
      <3> QED BY <1>2, <1>8, <3>1 DEF Reads
    <2> QED BY <1>1, <2>1
  <1>20. \A i \in (1..Len(fields)) \ before :
           \/ got.targets[i] = KEPT
           \/ i \in bad /\ got.targets[i] = ZEROED /\ fields[i].type \in {"HEX_FIXED", "UUID"}
    <2>1. ASSUME NEW i \in (1..Len(fields)) \ before
          PROVE  \/ s.targets[i] = KEPT
                 \/ /\ i \in bad /\ s.targets[i] = ZEROED
                    /\ fields[i].type \in {"HEX_FIXED", "UUID"}
      <3>1. i \in (1..Len(fields)) \ s.found
        BY <1>1, <1>17
      <3>2. \/ s.targets[i] = KEPT
            \/ /\ Balks(members, fields, c, i) /\ s.targets[i] = ZEROED
               /\ fields[i].type \in {"HEX_FIXED", "UUID"}
        BY <1>2, <3>1 DEF Unread
      <3> QED BY <1>12, <3>2
    <2> QED BY <1>1, <2>1
  <1> HIDE DEF first
  <1> QED BY <1>17, <1>18, <1>19, <1>20, Zenon
          DEF ObjectPromise, at, value, wanted, bad, before, first

\* json_reader.c:425: whatever the object and the table of entries: the walk
\* keeps what json_reader.h promises.
THEOREM ObjectRead ==
  ASSUME NEW object, object.kind = "object", Len(object.members) \in Nat,
         DOMAIN object.members = 1..Len(object.members),
         \A m \in 1..Len(object.members) : WellFormed(object.members[m].value),
         NEW fields, Len(fields) \in 1..FIELDS_MAX,
         \A i \in 1..Len(fields) : WellMade(fields[i])
  PROVE  ObjectPromise(object.members, fields, read_object(object, fields))
  <1> DEFINE members == object.members
             s       == [result |-> "SUCCESS", stopped |-> FALSE, visited |-> {}, found |-> {},
                         targets |-> [i \in 1..Len(fields) |-> KEPT]]
             walked  == Walked(fields, s, members)
             got     == read_object(object, fields)
  <1>1. /\ object.kind # "none" /\ ~(object.kind # "object") /\ Len(fields) \in Nat
        /\ ~(Len(fields) = 0 \/ Len(fields) > FIELDS_MAX)
    BY ReaderAssumption
  <1>2. got = [result |-> walked.result, found |-> walked.found, targets |-> walked.targets]
    BY <1>1, Zenon DEF read_object, Walked
  <1>3. PICK c : WalkAt(walked, members, fields, Len(members), c)
    <2> HIDE DEF s, members
    <2> QED BY <1>1, WalkedStands DEF s, members
  <1> HIDE DEF got, walked
  <1>4. ObjectPromise(members, fields, got)
    BY <1>1, <1>2, <1>3, WalkKeepsPromise
  <1> QED BY <1>4 DEF got

-----------------------------------------------------------------------------
(* The calls of a behaviour.                                               *)

\* A line of at most n of S is a sequence of them.
LEMMA UpToIs ==
  ASSUME NEW S, NEW n \in Nat, NEW q \in UpTo(n, S)
  PROVE  /\ Len(q) \in Nat /\ DOMAIN q = 1..Len(q)
         /\ \A i \in 1..Len(q) : q[i] \in S
  <1>1. PICK k \in 0..n : q \in [1..k -> S]
    BY DEF UpTo
  <1>2. q \in Seq(S)
    <2>1. k \in Nat
      BY <1>1
    <2> QED BY <1>1, <2>1, SeqDef
  <1> QED BY <1>2, LenProperties, ElementOfSeq

\* The values of the sampled documents are values of a document.
LEMMA SamplesAreValues ==
  /\ \A v \in ValueSamples : WellFormed(v)
  /\ \A v \in FewValues : WellFormed(v)
  <1>1. /\ INT32_TOP \in Nat /\ INT64_TOP \in Nat /\ UINT32_TOP \in Nat /\ UINT64_TOP \in Nat
        /\ UINT64_TOP = 2 * INT64_TOP + 1 /\ UINT32_TOP = 2 * INT32_TOP + 1
        /\ INT64_TOP > UINT32_TOP /\ UUID_TEXT \in Nat
    BY ReaderAssumption
  <1>2. \A n \in 0..UINT64_TOP : WellFormed(UInt(n))
    <2>1. SUFFICES ASSUME NEW n \in 0..UINT64_TOP PROVE WellFormed(UInt(n))
      OBVIOUS
    <2>2. UInt(n).kind = "uint" /\ UInt(n).n = n
      BY DEF UInt, Value
    <2>3. n \in (0 - INT64_TOP - 1)..UINT64_TOP
      BY <1>1
    <2> QED BY <2>2, <2>3 DEF WellFormed
  <1>3. \A n \in 0..(INT64_TOP + 1) : WellFormed(SInt(0 - n))
    <2>1. SUFFICES ASSUME NEW n \in 0..(INT64_TOP + 1) PROVE WellFormed(SInt(0 - n))
      OBVIOUS
    <2>2. SInt(0 - n).kind = "sint" /\ SInt(0 - n).n = 0 - n
      BY DEF SInt, Value
    <2>3. 0 - n \in (0 - INT64_TOP - 1)..UINT64_TOP
      BY <1>1
    <2> QED BY <2>2, <2>3 DEF WellFormed
  <1>4. \A n \in Nat : \A spells : WellFormed(Str(n, spells))
    BY DEF WellFormed, Str, Value
  <1>5. \A kind \in {"real", "bool", "null", "array", "object"} : WellFormed(Plain(kind))
    BY DEF WellFormed, Plain, Value
  <1>6. /\ {0, INT32_TOP, INT32_TOP + 1, UINT32_TOP, UINT32_TOP + 1, INT64_TOP,
            INT64_TOP + 1, UINT64_TOP} \subseteq 0..UINT64_TOP
        /\ {1, INT32_TOP + 1, INT32_TOP + 2, INT64_TOP + 1} \subseteq 0..(INT64_TOP + 1)
        /\ 1 \in 0..UINT64_TOP
    BY <1>1
  <1>7. {2, UUID_TEXT} \subseteq Nat
    BY <1>1
  <1>8. ASSUME NEW v \in ValueSamples PROVE WellFormed(v)
    <2>1. \/ \E n \in 0..UINT64_TOP : v = UInt(n)
          \/ \E n \in 0..(INT64_TOP + 1) : v = SInt(0 - n)
          \/ \E n \in Nat, spells \in {"hex", "uuid", "neither"} : v = Str(n, spells)
          \/ \E kind \in {"real", "bool", "null", "array", "object"} : v = Plain(kind)
      BY <1>6, <1>7 DEF ValueSamples
    <2> QED BY <1>2, <1>3, <1>4, <1>5, <2>1
  <1>9. ASSUME NEW v \in FewValues PROVE WellFormed(v)
    <2>1. v \in {UInt(1), UInt(UINT64_TOP), Str(2, "hex"), Str(2, "neither"), Plain("null")}
      BY DEF FewValues
    <2>2. WellFormed(UInt(1)) /\ WellFormed(UInt(UINT64_TOP))
      BY <1>1, <1>2, <1>6
    <2>3. WellFormed(Str(2, "hex")) /\ WellFormed(Str(2, "neither")) /\ WellFormed(Plain("null"))
      BY <1>4, <1>5
    <2> QED BY <2>1, <2>2, <2>3
  <1> QED BY <1>8, <1>9

\* An object's members, and a table's entries.
GoodObject(o) ==
  o.kind = "object" =>
    /\ Len(o.members) \in Nat /\ DOMAIN o.members = 1..Len(o.members)
    /\ \A m \in 1..Len(o.members) : WellFormed(o.members[m].value)
GoodTable(f) == \A i \in 1..Len(f) : WellMade(f[i])
GoodArray(a) ==
  a.kind = "array" =>
    /\ Len(a.members) \in Nat /\ DOMAIN a.members = 1..Len(a.members)
    /\ \A m \in 1..Len(a.members) : WellFormed(a.members[m])

LEMMA ObjectsAreGood ==
  /\ \A o \in FewObjects : GoodObject(o)
  /\ \A o \in SingleObjects : GoodObject(o)
  /\ \A o \in EdgeObjects : GoodObject(o)
  <1>1. ASSUME NEW q, Len(q) \in Nat, DOMAIN q = 1..Len(q),
               \A m \in 1..Len(q) : WellFormed(q[m].value)
        PROVE  GoodObject(Object(q))
    <2>1. Object(q).members = q
      BY DEF Object
    <2> QED BY <1>1, <2>1 DEF GoodObject
  <1>2. ASSUME NEW v, WellFormed(v) PROVE GoodObject(Object(<< Member("a", v) >>))
    <2> DEFINE a == Member("a", v)
    <2>1. a.value = v
      BY DEF Member
    <2> HIDE DEF a
    <2>2. Len(<< a >>) = 1 /\ DOMAIN << a >> = 1..1 /\ << a >>[1] = a /\ \A i \in 1..1 : i = 1
      OBVIOUS
    <2>3. GoodObject(Object(<< a >>))
      <3> DEFINE q == << a >>
      <3>1. /\ Len(q) = 1 /\ Len(q) \in Nat /\ DOMAIN q = 1..Len(q)
            /\ \A m \in 1..Len(q) : WellFormed(q[m].value)
        BY <1>2, <2>1, <2>2
      <3> HIDE DEF q
      <3>2. GoodObject(Object(q))
        BY <1>1, <3>1
      <3> QED BY <3>2 DEF q
    <2> QED BY <2>3 DEF a
  <1>3. ASSUME NEW o \in FewObjects PROVE GoodObject(o)
    <2>1. PICK q \in UpTo(3, FewMembers) : o = Object(q)
      BY DEF FewObjects
    <2>2. \A x \in FewMembers : WellFormed(x.value)
      BY SamplesAreValues DEF FewMembers, Member
    <2>3. /\ Len(q) \in Nat /\ DOMAIN q = 1..Len(q)
          /\ \A m \in 1..Len(q) : WellFormed(q[m].value)
      BY <2>2, UpToIs
    <2> QED BY <1>1, <2>1, <2>3
  <1>4. ASSUME NEW o \in SingleObjects PROVE GoodObject(o)
    <2>1. PICK v \in ValueSamples : o = Object(<< Member("a", v) >>)
      BY DEF SingleObjects
    <2> QED BY <1>2, <2>1, SamplesAreValues
  <1>5. ASSUME NEW o \in Others PROVE GoodObject(o)
    <2>1. PICK kind \in {"none", "bool"} : o = [kind |-> kind, members |-> << >>]
      BY DEF Others
    <2>2. o.kind # "object"
      BY <2>1
    <2> QED BY <2>2 DEF GoodObject
  <1>6. GoodObject(Object(<< Member("a", UInt(1)) >>))
    <2>1. WellFormed(UInt(1))
      BY SamplesAreValues DEF FewValues
    <2> QED BY <1>2, <2>1
  <1>7. \A o \in EdgeObjects : GoodObject(o)
    BY <1>5, <1>6 DEF EdgeObjects
  <1> QED BY <1>3, <1>4, <1>7

LEMMA TablesAreGood ==
  /\ \A f \in FewTables : GoodTable(f)
  /\ \A f \in SingleTables : GoodTable(f)
  /\ \A f \in EdgeTables : GoodTable(f)
  <1>1. UUID_SIZE \in Nat /\ FIELDS_MAX \in Nat
    BY ReaderAssumption
  <1>2. ASSUME NEW k, NEW t, NEW room \in Nat, NEW target \in BOOLEAN
        PROVE  WellMade(Field(k, t, room, target))
    <2>1. /\ Field(k, t, room, target).target = target
          /\ Field(k, t, room, target).room = room
      BY DEF Field
    <2> QED BY <2>1 DEF WellMade
  <1>3. ASSUME NEW f \in FewTables PROVE GoodTable(f)
    <2>1. f \in UpTo(FIELDS_MAX, FewFields)
      BY DEF FewTables
    <2>2. ASSUME NEW x \in FewFields PROVE WellMade(x)
      <3>1. PICK k \in {"a", "b"}, t \in FewTypes : x = Entry(k, t)
        BY DEF FewFields
      <3>2. TRUE \in BOOLEAN /\ 1 \in Nat
        OBVIOUS
      <3> QED BY <1>2, <3>1, <3>2, Zenon DEF Entry
    <2>3. \A i \in 1..Len(f) : f[i] \in FewFields
      BY <1>1, <2>1, UpToIs
    <2> QED BY <2>2, <2>3 DEF GoodTable
  <1>4. ASSUME NEW f \in SingleTables PROVE GoodTable(f)
    <2>1. PICK t \in Types \cup {"NONE"}, room \in {1, UUID_SIZE}, target \in BOOLEAN :
            f = << Field("a", t, room, target) >>
      BY DEF SingleTables
    <2> DEFINE b == Field("a", t, room, target)
    <2>2. room \in Nat
      BY <1>1
    <2>3. WellMade(b)
      BY <1>2, <2>2
    <2>4. f = << b >>
      BY <2>1
    <2> HIDE DEF b
    <2>5. Len(<< b >>) = 1 /\ << b >>[1] = b /\ \A i \in 1..1 : i = 1
      OBVIOUS
    <2> QED BY <2>3, <2>4, <2>5 DEF GoodTable
  <1>5. ASSUME NEW f \in EdgeTables PROVE GoodTable(f)
    <2> DEFINE x == Field("a", "UINT32", 0, TRUE)
    <2>1. WellMade(x)
      <3>1. 0 \in Nat /\ TRUE \in BOOLEAN
        OBVIOUS
      <3> QED BY <1>2, <3>1, Zenon
    <2>2. f = << >> \/ \E n \in 1..(FIELDS_MAX + 1) : f = [i \in 1..n |-> x]
      BY Zenon DEF EdgeTables
    <2> HIDE DEF x
    <2>3. CASE f = << >>
      BY <2>3 DEF GoodTable
    <2>4. ASSUME NEW n \in 1..(FIELDS_MAX + 1), f = [i \in 1..n |-> x] PROVE GoodTable(f)
      <3>1. Len(f) = n
        BY <1>1, <2>4
      <3> QED BY <2>1, <2>4, <3>1 DEF GoodTable
    <2> QED BY <2>2, <2>3, <2>4
  <1> QED BY <1>3, <1>4, <1>5

LEMMA ArraysAreGood ==
  /\ \A a \in FewArrays : GoodArray(a)
  /\ \A a \in PairArrays : GoodArray(a)
  /\ \A a \in Others : GoodArray(a)
  <1>1. ASSUME NEW q, Len(q) \in Nat, DOMAIN q = 1..Len(q),
               \A m \in 1..Len(q) : WellFormed(q[m])
        PROVE  GoodArray(Array(q))
    <2>1. Array(q).members = q
      BY DEF Array
    <2> QED BY <1>1, <2>1 DEF GoodArray
  <1>2. ASSUME NEW a \in FewArrays PROVE GoodArray(a)
    <2>1. PICK q \in UpTo(3, FewValues) : a = Array(q)
      BY DEF FewArrays
    <2>2. /\ Len(q) \in Nat /\ DOMAIN q = 1..Len(q)
          /\ \A m \in 1..Len(q) : WellFormed(q[m])
      BY SamplesAreValues, UpToIs
    <2> QED BY <1>1, <2>1, <2>2
  <1>3. ASSUME NEW a \in PairArrays PROVE GoodArray(a)
    <2>1. PICK v \in ValueSamples, w \in ValueSamples : a = Array(<< v, w >>)
      BY DEF PairArrays
    <2> DEFINE q == << v, w >>
    <2>2. /\ Len(q) = 2 /\ DOMAIN q = 1..2 /\ q[1] = v /\ q[2] = w
          /\ \A i \in 1..2 : i = 1 \/ i = 2
      OBVIOUS
    <2>3. WellFormed(v) /\ WellFormed(w)
      BY SamplesAreValues
    <2> HIDE DEF q
    <2>4. Len(q) \in Nat /\ DOMAIN q = 1..Len(q) /\ \A m \in 1..Len(q) : WellFormed(q[m])
      BY <2>2, <2>3
    <2>5. GoodArray(Array(q))
      BY <1>1, <2>4
    <2> QED BY <2>1, <2>5 DEF q
  <1>4. ASSUME NEW a \in Others PROVE GoodArray(a)
    <2>1. PICK kind \in {"none", "bool"} : a = [kind |-> kind, members |-> << >>]
      BY DEF Others
    <2>2. a.kind # "array"
      BY <2>1
    <2> QED BY <2>2 DEF GoodArray
  <1> QED BY <1>2, <1>3, <1>4

\* What the calls are given.
LEMMA InputsAreGood ==
  /\ \A w \in Walks : GoodObject(w.object) /\ GoodTable(w.fields)
  /\ \A f \in Fills : GoodArray(f.array) /\ f.room \in Nat /\ f.capacity \in Nat
  <1>1. ASSUME NEW objects, \A o \in objects : GoodObject(o),
               NEW tables, \A f \in tables : GoodTable(f), NEW w \in WalksOver(objects, tables)
        PROVE  GoodObject(w.object) /\ GoodTable(w.fields)
    <2>1. PICK o \in objects, f \in tables : w = [object |-> o, fields |-> f]
      BY DEF WalksOver
    <2> QED BY <1>1, <2>1
  <1>2. ASSUME NEW arrays, \A a \in arrays : GoodArray(a), NEW types, NEW rooms \in SUBSET Nat,
               NEW lengths \in SUBSET Nat, NEW f \in FillsOver(arrays, types, rooms, lengths)
        PROVE  GoodArray(f.array) /\ f.room \in Nat /\ f.capacity \in Nat
    <2>1. PICK a \in arrays, t \in types, r \in rooms, c \in lengths :
            f = [array |-> a, type |-> t, room |-> r, capacity |-> c]
      BY DEF FillsOver
    <2> QED BY <1>2, <2>1
  <1>3. ASSUME NEW w \in Walks PROVE GoodObject(w.object) /\ GoodTable(w.fields)
    <2>1. CASE w \in WalksOver(FewObjects, FewTables)
      BY <1>1, <2>1, ObjectsAreGood, TablesAreGood
    <2>2. CASE w \in WalksOver(SingleObjects, SingleTables)
      BY <1>1, <2>2, ObjectsAreGood, TablesAreGood
    <2>3. CASE w \in WalksOver(EdgeObjects, EdgeTables)
      BY <1>1, <2>3, ObjectsAreGood, TablesAreGood
    <2> QED BY <2>1, <2>2, <2>3 DEF Walks
  <1>4. ASSUME NEW f \in Fills
        PROVE  GoodArray(f.array) /\ f.room \in Nat /\ f.capacity \in Nat
    <2>1. /\ {1} \in SUBSET Nat /\ 0..3 \in SUBSET Nat /\ {3} \in SUBSET Nat
          /\ {1, UUID_SIZE} \in SUBSET Nat
      BY ReaderAssumption
    <2>2. CASE f \in FillsOver(FewArrays, FewTypes, {1}, 0..3)
      BY <1>2, <2>1, <2>2, ArraysAreGood
    <2>3. CASE f \in FillsOver(PairArrays, Types, {1, UUID_SIZE}, {3})
      BY <1>2, <2>1, <2>3, ArraysAreGood
    <2>4. CASE f \in FillsOver(Others, {"VALUE"}, {1}, {1})
      BY <1>2, <2>1, <2>4, ArraysAreGood
    <2> QED BY <2>2, <2>3, <2>4 DEF Fills
  <1> QED BY <1>3, <1>4

\* A call that has answered, answered what the routine returns.
CallInv ==
  /\ job.what = "object" =>
       /\ job.input \in Walks
       /\ reply # NO_ANSWER => reply = read_object(job.input.object, job.input.fields)
  /\ job.what = "array" =>
       /\ job.input \in Fills
       /\ reply # NO_ANSWER => reply = read_array(job.input.array, job.input.type,
                                                  job.input.room, job.input.capacity)

LEMMA CallInit == TextInit => CallInv
  <1> SUFFICES ASSUME TextInit PROVE CallInv
    OBVIOUS
  <1>1. ASSUME NEW what \in {"scan", "uint64", "int64", "bytes", "base64", "insitu", "hex", "uuid"},
               NEW input, Ask(what, input)
        PROVE  CallInv
    <2>1. job.what = what
      BY <1>1 DEF Ask
    <2> QED BY <2>1 DEF CallInv
  <1>2. ASSUME NEW w \in Walks, Ask("object", w) PROVE CallInv
    <2>1. job.what = "object" /\ job.input = w /\ reply = NO_ANSWER
      BY <1>2 DEF Ask
    <2> QED BY <2>1 DEF CallInv
  <1>3. ASSUME NEW f \in Fills, Ask("array", f) PROVE CallInv
    <2>1. job.what = "array" /\ job.input = f /\ reply = NO_ANSWER
      BY <1>3 DEF Ask
    <2> QED BY <2>1 DEF CallInv
  <1> QED BY <1>1, <1>2, <1>3, Zenon DEF TextInit

LEMMA CallStep == CallInv /\ [TextNext]_text_vars => CallInv'
  <1> SUFFICES ASSUME CallInv, [TextNext]_text_vars PROVE CallInv'
    OBVIOUS
  <1>1. CASE job' = job /\ reply' = reply
    BY <1>1, Zenon DEF CallInv
  <1>2. CASE Convert
    <2>1. job' = job /\ job.what # "object" /\ job.what # "array"
      BY <1>2 DEF Convert
    <2> QED BY <2>1, Zenon DEF CallInv
  <1>3. CASE Read
    <2>1. /\ job' = job
          /\ \/ job.what = "object" /\ reply' = read_object(job.input.object, job.input.fields)
             \/ job.what = "array" /\ reply' = read_array(job.input.array, job.input.type,
                                                          job.input.room, job.input.capacity)
      BY <1>3, Zenon DEF Read
    <2>2. "object" # "array"
      OBVIOUS
    <2>3. CASE job.what = "object"
      BY <2>1, <2>2, <2>3, Zenon DEF CallInv
    <2>4. CASE job.what = "array"
      BY <2>1, <2>2, <2>4, Zenon DEF CallInv
    <2> QED BY <2>1, <2>3, <2>4
  <1>4. Scan \/ UNCHANGED text_vars => job' = job /\ reply' = reply
    BY DEF Scan, text_vars
  <1> QED BY <1>1, <1>2, <1>3, <1>4, Zenon DEF TextNext

\* A call that has answered kept its promise.
LEMMA CallsKeepPromise == CallInv => ReadObjectAgrees /\ ReadArrayAgrees
  <1> SUFFICES ASSUME CallInv PROVE ReadObjectAgrees /\ ReadArrayAgrees
    OBVIOUS
  <1>1. ReadObjectAgrees
    <2> DEFINE object == job.input.object
               fields == job.input.fields
    <2>1. SUFFICES ASSUME Answered({"object"}), object.kind = "object",
                          Len(fields) \in 1..FIELDS_MAX
                   PROVE  ObjectPromise(object.members, fields, reply)
      BY Zenon DEF ReadObjectAgrees
    <2>2. job.what = "object" /\ reply # NO_ANSWER
      BY <2>1 DEF Answered
    <2>3. job.input \in Walks /\ reply = read_object(object, fields)
      BY <2>2, Zenon DEF CallInv
    <2>4. GoodObject(object) /\ GoodTable(fields)
      BY <2>3, InputsAreGood
    <2> HIDE DEF object, fields
    <2> QED BY <2>1, <2>3, <2>4, ObjectRead DEF GoodObject, GoodTable
  <1>2. ReadArrayAgrees
    <2> DEFINE array    == job.input.array
               type     == job.input.type
               room     == job.input.room
               cells    == job.input.capacity
    <2>1. SUFFICES ASSUME Answered({"array"}), array.kind = "array", cells > 0, type \in Types
                   PROVE  ArrayPromise(array.members, type, room, cells, reply)
      BY Zenon DEF ReadArrayAgrees
    <2>2. job.what = "array" /\ reply # NO_ANSWER
      BY <2>1 DEF Answered
    <2>3. job.input \in Fills /\ reply = read_array(array, type, room, cells)
      BY <2>2, Zenon DEF CallInv
    <2>4. GoodArray(array) /\ room \in Nat /\ cells \in Nat
      BY <2>3, InputsAreGood
    <2> HIDE DEF array, type, room, cells
    <2>5. cells \in Nat \ {0}
      BY <2>1, <2>4
    <2> QED BY <2>1, <2>3, <2>4, <2>5, ArrayRead DEF GoodArray
  <1> QED BY <1>1, <1>2

\* json_reader.c:425: every walk over an object reads each entry from the
\* member it waits for, up to the first it cannot read.
THEOREM WalksAgree == TextSpec => []ReadObjectAgrees
  BY CallInit, CallStep, CallsKeepPromise, PTL DEF TextSpec

\* json_reader.c:514: every fill closes up over the nulls, up to the first
\* value it cannot take.
THEOREM FillsAgree == TextSpec => []ReadArrayAgrees
  BY CallInit, CallStep, CallsKeepPromise, PTL DEF TextSpec
=============================================================================
