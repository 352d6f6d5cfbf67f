---------------------------- MODULE KeyMapProofs -----------------------------
(***************************************************************************)
(* What holds of the key map for every key set, hash, capacity bound and   *)
(* bucket size: the table files each key once, where its probe finds it,   *)
(* and the map implements KeyIds.                                          *)
(***************************************************************************)
EXTENDS KeyMap, DataLemmas

-----------------------------------------------------------------------------
(* Arithmetic: the capacities and the walk around the table.               *)

Powers ==
  {4, 8, 16, 32, 64, 128, 256, 512, 1024, 2048, 4096, 8192, 16384, 32768, 65536,
   131072, 262144, 524288, 1048576, 2097152, 4194304, 8388608, 16777216, 33554432,
   67108864, 134217728, 268435456}

\* The powers of two an uint32_t capacity of the table can be.
LEMMA PowersAre == \A e \in 2..28 : 2^e \in Powers
  <1> SUFFICES ASSUME NEW e \in 2..28 PROVE 2^e \in Powers
    OBVIOUS
  <1>2. CASE e = 2 BY <1>2 DEF Powers
  <1>3. CASE e = 3 BY <1>3 DEF Powers
  <1>4. CASE e = 4 BY <1>4 DEF Powers
  <1>5. CASE e = 5 BY <1>5 DEF Powers
  <1>6. CASE e = 6 BY <1>6 DEF Powers
  <1>7. CASE e = 7 BY <1>7 DEF Powers
  <1>8. CASE e = 8 BY <1>8 DEF Powers
  <1>9. CASE e = 9 BY <1>9 DEF Powers
  <1>10. CASE e = 10 BY <1>10 DEF Powers
  <1>11. CASE e = 11 BY <1>11 DEF Powers
  <1>12. CASE e = 12 BY <1>12 DEF Powers
  <1>13. CASE e = 13 BY <1>13 DEF Powers
  <1>14. CASE e = 14 BY <1>14 DEF Powers
  <1>15. CASE e = 15 BY <1>15 DEF Powers
  <1>16. CASE e = 16 BY <1>16 DEF Powers
  <1>17. CASE e = 17 BY <1>17 DEF Powers
  <1>18. CASE e = 18 BY <1>18 DEF Powers
  <1>19. CASE e = 19 BY <1>19 DEF Powers
  <1>20. CASE e = 20 BY <1>20 DEF Powers
  <1>21. CASE e = 21 BY <1>21 DEF Powers
  <1>22. CASE e = 22 BY <1>22 DEF Powers
  <1>23. CASE e = 23 BY <1>23 DEF Powers
  <1>24. CASE e = 24 BY <1>24 DEF Powers
  <1>25. CASE e = 25 BY <1>25 DEF Powers
  <1>26. CASE e = 26 BY <1>26 DEF Powers
  <1>27. CASE e = 27 BY <1>27 DEF Powers
  <1>28. CASE e = 28 BY <1>28 DEF Powers
  <1>30. \/ e = 2 \/ e = 3 \/ e = 4 \/ e = 5 \/ e = 6 \/ e = 7 \/ e = 8 \/ e = 9 \/ e = 10
         \/ e = 11 \/ e = 12 \/ e = 13 \/ e = 14 \/ e = 15 \/ e = 16 \/ e = 17 \/ e = 18
         \/ e = 19 \/ e = 20 \/ e = 21 \/ e = 22 \/ e = 23 \/ e = 24 \/ e = 25 \/ e = 26
         \/ e = 27 \/ e = 28
    OBVIOUS
  <1> QED
    BY <1>2, <1>3, <1>4, <1>5, <1>6, <1>7, <1>8, <1>9, <1>10, <1>11, <1>12, <1>13, <1>14,
       <1>15, <1>16, <1>17, <1>18, <1>19, <1>20, <1>21, <1>22, <1>23, <1>24, <1>25, <1>26,
       <1>27, <1>28, <1>30

\* They are exactly those powers.
LEMMA PowersExactly == {2^e : e \in 2..28} = Powers
  <1>1. ASSUME NEW p \in Powers PROVE p \in {2^e : e \in 2..28}
    <2>1. /\ 2^2 = 4 /\ 2^3 = 8 /\ 2^4 = 16 /\ 2^5 = 32 /\ 2^6 = 64 /\ 2^7 = 128
          /\ 2^8 = 256 /\ 2^9 = 512 /\ 2^10 = 1024 /\ 2^11 = 2048 /\ 2^12 = 4096
          /\ 2^13 = 8192 /\ 2^14 = 16384 /\ 2^15 = 32768 /\ 2^16 = 65536
          /\ 2^17 = 131072 /\ 2^18 = 262144 /\ 2^19 = 524288 /\ 2^20 = 1048576
          /\ 2^21 = 2097152 /\ 2^22 = 4194304 /\ 2^23 = 8388608 /\ 2^24 = 16777216
          /\ 2^25 = 33554432 /\ 2^26 = 67108864 /\ 2^27 = 134217728 /\ 2^28 = 268435456
      OBVIOUS
    <2>2. \A n \in 2..28 : 2^n \in {2^e : e \in 2..28}
      OBVIOUS
    <2> QED BY <2>1, <2>2, <1>1 DEF Powers
  <1> QED BY <1>1, PowersAre

\* A power below another doubles to one that is no larger.
LEMMA PowersDouble ==
  /\ \A p \in Powers : p \in Nat /\ p >= 4 /\ p - p \div 4 < p /\ p - p \div 4 >= 3
  /\ \A p, q \in Powers : p < q => 2 * p \in Powers /\ 2 * p <= q
  /\ \A p, q \in Powers : p <= q => p - p \div 4 <= q - q \div 4
  /\ \A p, q \in Powers : p < q => p - p \div 4 < q - q \div 4
  BY DEF Powers

\* The first place a walk from h comes to, and the next ones, wrap around.
LEMMA ModAdd ==
  ASSUME NEW c \in Nat \ {0}, NEW h \in Nat, NEW d \in 0..(c - 1)
  PROVE  /\ h % c \in 0..(c - 1)
         /\ (h + d) % c = IF (h % c) + d < c THEN (h % c) + d ELSE (h % c) + d - c
  <1> DEFINE q == h \div c
             r == h % c
  <1>1. q \in Int /\ r \in 0..(c - 1) /\ h = c * q + r
    OBVIOUS
  <1>2. \A x \in Int, y \in 0..(c - 1) : (c * x + y) % c = y
    OBVIOUS
  <1> HIDE DEF q, r
  <1>3. CASE r + d < c
    <2>1. r + d \in 0..(c - 1) /\ h + d = c * q + (r + d)
      BY <1>1, <1>3
    <2>2. (c * q + (r + d)) % c = r + d
      BY <1>1, <1>2, <2>1
    <2> QED BY <1>1, <1>3, <2>1, <2>2 DEF r
  <1>4. CASE ~(r + d < c)
    <2>1. r + d - c \in 0..(c - 1)
      BY <1>1, <1>4
    <2>2. c * (q + 1) = c * q + c
      BY <1>1
    <2>3. h + d = c * (q + 1) + (r + d - c)
      BY <1>1, <2>2
    <2>4. (c * (q + 1) + (r + d - c)) % c = r + d - c
      <3>1. q + 1 \in Int
        BY <1>1
      <3> QED BY <1>2, <2>1, <3>1
    <2> QED BY <1>1, <1>4, <2>3, <2>4 DEF r
  <1> QED BY <1>3, <1>4

\* A walk of capacity steps comes by every slot, and to no other place.
LEMMA WalkCovers ==
  ASSUME NEW c \in Nat \ {0}, NEW h \in Nat
  PROVE  /\ \A d \in 0..(c - 1) : (h + d) % c \in 0..(c - 1)
         /\ \A i \in 0..(c - 1) : \E d \in 0..(c - 1) : (h + d) % c = i
  <1> DEFINE r == h % c
  <1>1. r \in 0..(c - 1)
    BY ModAdd, 0 \in 0..(c - 1)
  <1>2. \A d \in 0..(c - 1) : (h + d) % c = IF r + d < c THEN r + d ELSE r + d - c
    BY ModAdd
  <1> HIDE DEF r
  <1>3. \A d \in 0..(c - 1) : (h + d) % c \in 0..(c - 1)
    BY <1>1, <1>2
  <1>4. ASSUME NEW i \in 0..(c - 1) PROVE \E d \in 0..(c - 1) : (h + d) % c = i
    <2>1. CASE i >= r
      <3>1. i - r \in 0..(c - 1) /\ r + (i - r) < c /\ r + (i - r) = i
        BY <1>1, <2>1
      <3> QED BY <1>2, <3>1
    <2>2. CASE i < r
      <3>1. i - r + c \in 0..(c - 1) /\ ~(r + (i - r + c) < c) /\ r + (i - r + c) - c = i
        BY <1>1, <2>2
      <3> QED BY <1>2, <3>1
    <2> QED BY <1>1, <2>1, <2>2
  <1> QED BY <1>3, <1>4

\* From one multiple below another, the next one is no larger than that other.
LEMMA NextMultiple ==
  ASSUME NEW b \in Nat \ {0}, NEW x \in Nat, NEW y \in Nat,
         x % b = 0, y % b = 0, x < y
  PROVE  x + b <= y /\ (x + b) % b = 0
  <1> DEFINE p == x \div b
             q == y \div b
  <1>1. p \in Int /\ q \in Int /\ x = b * p /\ y = b * q
    OBVIOUS
  <1>2. \A z \in Int : (b * z + 0) % b = 0
    OBVIOUS
  <1> HIDE DEF p, q
  <1>3. b * (p + 1) = b * p + b
    BY <1>1
  <1>4. p + 1 <= q
    <2>1. SUFFICES ASSUME q <= p PROVE FALSE
      BY <1>1
    <2>2. b * q <= b * p
      BY <1>1, <2>1
    <2> QED BY <1>1, <2>2
  <1>5. b * (p + 1) <= b * q
    BY <1>1, <1>4
  <1>6. (b * (p + 1) + 0) % b = 0
    <2>1. p + 1 \in Int
      BY <1>1
    <2> QED BY <1>2, <2>1
  <1> QED BY <1>1, <1>3, <1>5, <1>6

\* Steps of so many multiples lead from one multiple to another.
LEMMA StepMultiple ==
  ASSUME NEW b \in Nat \ {0}, NEW x \in Nat, NEW s \in Nat \ {0}, x % b = 0
  PROVE  x + s * b \in Nat /\ (x + s * b) % b = 0 /\ x + b <= x + s * b
  <1> DEFINE p == x \div b
  <1>1. p \in Int /\ x = b * p
    OBVIOUS
  <1>2. \A z \in Int : (b * z + 0) % b = 0
    OBVIOUS
  <1> HIDE DEF p
  <1>3. b * (p + s) = b * p + s * b /\ s * b \in Nat
    BY <1>1
  <1>4. b <= s * b
    <2>1. s * b = b + (s - 1) * b
      OBVIOUS
    <2>2. (s - 1) * b \in Nat
      OBVIOUS
    <2> QED BY <2>1, <2>2
  <1>5. (b * (p + s) + 0) % b = 0
    <2>1. p + s \in Int
      BY <1>1
    <2> QED BY <1>2, <2>1
  <1>6. x + s * b = b * (p + s) + 0
    BY <1>1, <1>3
  <1> QED BY <1>3, <1>4, <1>5, <1>6

\* A set of naturals that is not empty has a least element.
LEMMA LeastOf ==
  ASSUME NEW S \in SUBSET Nat, S # {}
  PROVE  \E x \in S : \A y \in S : x <= y
  <1> DEFINE R == {ss \in Nat \X Nat : ss[1] < ss[2]}
  <1>1. PICK x \in S : \A y \in S : ~(<<y, x>> \in R)
    <2>1. IsWellFoundedOn(R, Nat)
      BY NatWF
    <2> HIDE DEF R
    <2> QED BY <2>1, WFMin
  <1>2. ASSUME NEW y \in S PROVE x <= y
    <2>1. x \in Nat /\ y \in Nat
      OBVIOUS
    <2>2. y < x => <<y, x>> \in R
      BY <2>1
    <2> QED BY <1>1, <2>1, <2>2
  <1> QED BY <1>2

\* A walk that has somewhere to stop stops there, past no other stop.
LEMMA WalkStops ==
  ASSUME NEW c \in Nat \ {0}, NEW h \in Nat, NEW stops \in SUBSET (0..(c - 1)), stops # {}
  PROVE  \E d \in 0..(c - 1) :
           /\ walk(c, h, stops) = (h + d) % c
           /\ (h + d) % c \in stops
           /\ \A e \in 0..(c - 1) : (h + e) % c \in stops => d <= e
  <1> DEFINE steps == {d \in 0..(c - 1) : (h + d) % c \in stops}
             first == CHOOSE d \in steps : \A e \in steps : d <= e
  <1>1. steps # {} /\ steps \subseteq Nat
    <2>1. PICK i \in stops : TRUE
      OBVIOUS
    <2>2. PICK d \in 0..(c - 1) : (h + d) % c = i
      BY <2>1, WalkCovers
    <2>3. d \in steps
      BY <2>2
    <2>4. 0..(c - 1) \subseteq Nat
      OBVIOUS
    <2>5. steps \subseteq 0..(c - 1)
      OBVIOUS
    <2> HIDE DEF steps
    <2> QED BY <2>3, <2>4, <2>5
  <1>2. \E d \in steps : \A e \in steps : d <= e
    <2> HIDE DEF steps
    <2> QED BY <1>1, LeastOf
  <1>3. first \in steps /\ \A e \in steps : first <= e
    <2> HIDE DEF steps
    <2> QED BY <1>2
  <1>4. walk(c, h, stops) = (h + first) % c
    BY DEF walk
  <1> HIDE DEF first
  <1> QED BY <1>3, <1>4

-----------------------------------------------------------------------------
(* Tables.  What a table says is the set of its occupied slots' records;   *)
(* where they lie is the business of the walks alone.                      *)

Slots(c) == [0..(c - 1) -> [hash : 0..UINT32_MAX, id : Nat \cup {EMPTY_ID}]]

Used(t) == {i \in DOMAIN t : t[i].id # EMPTY_ID}

Records(t) == {t[i] : i \in Used(t)}

\* No free slot between the home of the slot's hash and the slot.
Reached(t, c, i) ==
  \E d \in 0..(c - 1) : /\ (t[i].hash + d) % c = i
                        /\ \A e \in 0..d : t[(t[i].hash + e) % c].id # EMPTY_ID

\* A table of c slots as the probe needs it: free slots as they were made, no id
\* twice, every occupied slot where a walk from its home arrives.
Filed(t, c) ==
  /\ t \in Slots(c)
  /\ \A i \in 0..(c - 1) : t[i].id = EMPTY_ID => t[i] = Free
  /\ \A i, j \in Used(t) : i # j => t[i].id # t[j].id
  /\ \A i \in Used(t) : Reached(t, c, i)

\* A fresh table is one, and says nothing.
LEMMA FreshTable ==
  ASSUME NEW c \in Nat
  PROVE  Filed(table_of(c), c) /\ Records(table_of(c)) = {}
  <1>1. Free \in [hash : 0..UINT32_MAX, id : Nat \cup {EMPTY_ID}] /\ Free.id = EMPTY_ID
    BY WidthAssumption DEF Free
  <1>2. /\ table_of(c) \in Slots(c)
        /\ \A i \in 0..(c - 1) : table_of(c)[i] = Free
        /\ DOMAIN table_of(c) = 0..(c - 1)
    BY <1>1 DEF table_of, Slots
  <1>3. Used(table_of(c)) = {}
    BY <1>1, <1>2 DEF Used
  <1> QED BY <1>2, <1>3 DEF Filed, Records

\* A table with fewer ids than slots has a slot free.
LEMMA SlotFree ==
  ASSUME NEW c \in Nat, NEW t, Filed(t, c), NEW n \in Nat, n < c,
         \A i \in Used(t) : t[i].id \in 0..(n - 1)
  PROVE  free_slots(t) # {} /\ free_slots(t) \subseteq 0..(c - 1)
  <1>1. DOMAIN t = 0..(c - 1)
    BY DEF Filed, Slots
  <1>2. SUFFICES ASSUME free_slots(t) = {} PROVE FALSE
    BY <1>1 DEF free_slots
  <1>3. Used(t) = 0..(c - 1)
    BY <1>1, <1>2 DEF Used, free_slots
  <1> DEFINE f == [i \in 0..(c - 1) |-> t[i].id]
  <1>4. f \in [0..(c - 1) -> 0..(n - 1)]
    BY <1>3
  <1>5. /\ IsFiniteSet(0..(c - 1)) /\ Cardinality(0..(c - 1)) = c
        /\ IsFiniteSet(0..(n - 1)) /\ Cardinality(0..(n - 1)) = n
    <2>1. 0 \in Int /\ c - 1 \in Int /\ n - 1 \in Int /\ ~(0 > c - 1) /\ c - 1 - 0 + 1 = c
          /\ (IF 0 > n - 1 THEN 0 ELSE n - 1 - 0 + 1) = n
      OBVIOUS
    <2> QED BY <2>1, FS_Interval
  <1>6. \E i, j \in 0..(c - 1) : i # j /\ f[i] = f[j]
    <2> HIDE DEF f
    <2> QED BY <1>4, <1>5, FS_PigeonHole
  <1> QED BY <1>3, <1>6 DEF Filed

\* The slot of an id, in the first free slot from the home of its hash.
placed(t, c, h, x) == [t EXCEPT ![first_free(t, c, h)] = [hash |-> h, id |-> x]]

\* A record that goes into the first free slot from its home leaves such a
\* table, which says the record and what it said before.
LEMMA Place ==
  ASSUME NEW c \in Nat \ {0}, NEW t, Filed(t, c),
         free_slots(t) # {},
         NEW h \in 0..UINT32_MAX, NEW x \in Nat, \A i \in Used(t) : t[i].id # x
  PROVE  /\ Filed(placed(t, c, h, x), c)
         /\ Records(placed(t, c, h, x)) = Records(t) \cup {[hash |-> h, id |-> x]}
  <1> DEFINE r == [hash |-> h, id |-> x]
             p == first_free(t, c, h)
             u == placed(t, c, h, x)
  <1>u. u = [t EXCEPT ![p] = r]
    BY DEF placed
  <1> HIDE DEF u
  <1>0. h \in Nat /\ x # EMPTY_ID /\ EMPTY_ID = -1
    BY WidthAssumption DEF EMPTY_ID
  <1>1. DOMAIN t = 0..(c - 1) /\ free_slots(t) \in SUBSET (0..(c - 1))
    BY DEF Filed, Slots, free_slots
  <1>2. PICK d \in 0..(c - 1) :
           /\ p = (h + d) % c
           /\ p \in free_slots(t)
           /\ \A e \in 0..(c - 1) : (h + e) % c \in free_slots(t) => d <= e
    <2> DEFINE F == free_slots(t)
    <2>1. p = walk(c, h, F)
      BY DEF first_free
    <2>2. F \in SUBSET (0..(c - 1)) /\ F # {} /\ h \in Nat
      BY <1>0, <1>1
    <2> HIDE DEF F, p
    <2>3. \E d \in 0..(c - 1) :
            /\ walk(c, h, F) = (h + d) % c
            /\ (h + d) % c \in F
            /\ \A e \in 0..(c - 1) : (h + e) % c \in F => d <= e
      BY <2>2, WalkStops
    <2> QED BY <2>1, <2>3, Zenon DEF F
  <1>3. p \in 0..(c - 1) /\ t[p].id = EMPTY_ID
    BY <1>1, <1>2 DEF free_slots
  <1> HIDE DEF p
  <1>4. /\ r \in [hash : 0..UINT32_MAX, id : Nat \cup {EMPTY_ID}]
        /\ r.id = x /\ r.hash = h
    OBVIOUS
  <1> HIDE DEF r
  <1>5. /\ u \in Slots(c) /\ DOMAIN u = 0..(c - 1) /\ u[p] = r
        /\ \A i \in 0..(c - 1) : i # p => u[i] = t[i]
    BY <1>u, <1>1, <1>3, <1>4 DEF Filed, Slots
  <1>6. Used(u) = Used(t) \cup {p} /\ p \notin Used(t) /\ Used(t) \subseteq 0..(c - 1)
    BY <1>0, <1>1, <1>3, <1>4, <1>5 DEF Used
  <1>7. \A i \in 0..(c - 1) : u[i].id = EMPTY_ID => u[i] = Free
    BY <1>0, <1>4, <1>5 DEF Filed
  <1>8. \A i, j \in Used(u) : i # j => u[i].id # u[j].id
    <2>1. \A i \in Used(t) : u[i] = t[i] /\ i # p
      BY <1>5, <1>6
    <2> QED BY <1>4, <1>5, <1>6, <2>1 DEF Filed
  <1>9. ASSUME NEW i \in Used(t) PROVE Reached(u, c, i)
    <2>1. i \in 0..(c - 1) /\ u[i] = t[i] /\ t[i].hash \in Nat
      BY <1>5, <1>6, WidthAssumption DEF Filed, Slots
    <2>2. PICK b \in 0..(c - 1) : /\ (t[i].hash + b) % c = i
                                  /\ \A e \in 0..b : t[(t[i].hash + e) % c].id # EMPTY_ID
      BY DEF Filed, Reached
    <2>3. ASSUME NEW e \in 0..b PROVE u[(t[i].hash + e) % c].id # EMPTY_ID
      <3>1. (t[i].hash + e) % c \in 0..(c - 1)
        BY <2>1, WalkCovers, e \in 0..(c - 1)
      <3> QED BY <1>0, <1>4, <1>5, <2>2, <3>1
    <2> QED BY <2>1, <2>2, <2>3 DEF Reached
  <1>10. Reached(u, c, p)
    <2>1. ASSUME NEW e \in 0..d PROVE u[(h + e) % c].id # EMPTY_ID
      <3>1. (h + e) % c \in 0..(c - 1) /\ e \in 0..(c - 1)
        BY <1>0, WalkCovers, e \in 0..(c - 1)
      <3>2. CASE (h + e) % c = p
        BY <1>0, <1>4, <1>5, <3>2
      <3>3. CASE (h + e) % c # p
        <4>1. e # d
          BY <1>2, <3>3
        <4>2. ~(d <= e)
          BY <4>1
        <4>3. (h + e) % c \notin free_slots(t)
          BY <1>2, <3>1, <4>2
        <4> QED BY <1>1, <1>5, <3>1, <3>3, <4>3 DEF free_slots
      <3> QED BY <3>2, <3>3
    <2> QED BY <1>2, <1>4, <1>5, <2>1 DEF Reached
  <1>11. Records(u) = Records(t) \cup {r}
    <2>1. \A i \in Used(t) : u[i] = t[i]
      BY <1>5, <1>6
    <2> QED BY <1>5, <1>6, <2>1 DEF Records
  <1> QED BY <1>3, <1>5, <1>6, <1>7, <1>8, <1>9, <1>10, <1>11 DEF Filed, u, r

\* A rebuilt table is such a table and says what the old one said.
LEMMA Rebuild ==
  ASSUME NEW c \in Nat \ {0}, map.capacity \in Nat, Filed(map.slots, map.capacity),
         NEW n \in Nat, n < c, \A i \in Used(map.slots) : map.slots[i].id \in 0..(n - 1)
  PROVE  Filed(rebuilt(c), c) /\ Records(rebuilt(c)) = Records(map.slots)
  <1> DEFINE m == map.capacity
             s == map.slots
             V == Slots(c)
             Put(i, t) == IF s[i - 1].id = EMPTY_ID THEN t
                          ELSE [t EXCEPT ![first_free(t, c, s[i - 1].hash)] = s[i - 1]]
             Step == [i \in 1..m |-> [t \in V |-> Put(i, t)]]
             upto == CHOOSE f : f = [i \in 0..m |-> IF i = 0 THEN table_of(c) ELSE Put(i, f[i - 1])]
  <1>1. rebuilt(c) = upto[m]
    BY DEF rebuilt
  <1>2. /\ m \in Nat /\ DOMAIN s = 0..(m - 1) /\ Filed(s, m)
        /\ s \in [0..(m - 1) -> [hash : 0..UINT32_MAX, id : Nat \cup {EMPTY_ID}]]
        /\ \A i \in Used(s) : s[i].id \in 0..(n - 1)
    BY DEF Filed, Slots
  <1> HIDE DEF m, s
  <1>3. table_of(c) \in V
    BY FreshTable DEF Filed
  <1>4. \A i \in 1..m, t \in V : Put(i, t) \in V
    <2>1. \A i \in 1..m : i - 1 \in 0..(m - 1)
      BY <1>2
    <2>2. \A i \in 1..m : s[i - 1] \in [hash : 0..UINT32_MAX, id : Nat \cup {EMPTY_ID}]
      BY <1>2, <2>1
    <2> HIDE DEF Put
    <2>3. ASSUME NEW i \in 1..m, NEW t \in V PROVE Put(i, t) \in V
      BY <2>2, <2>3 DEF Put, Slots
    <2> QED BY <2>3
  <1> HIDE DEF V
  <1>5. Step \in [1..m -> [V -> V]]
    <2> HIDE DEF Put
    <2> QED BY <1>4
  <1>6. PICK g \in [0..m -> V] : IsStepwise(g, m, table_of(c), Step)
    <2> DEFINE b == table_of(c)
    <2>1. m \in Nat /\ b \in V
      BY <1>2, <1>3
    <2> HIDE DEF Step, b
    <2>2. \E f \in [0..m -> V] : IsStepwise(f, m, b, Step)
      BY <1>5, <2>1, StepwiseExists
    <2> QED BY <2>2 DEF b
  <1>7. \A i \in 1..m : g[i] = Put(i, g[i - 1])
    <2>1. \A i \in 1..m : g[i - 1] \in V
      BY <1>2
    <2> HIDE DEF Put
    <2> QED BY <1>6, <2>1 DEF IsStepwise
  <1> HIDE DEF Step
  <1>8. g = [i \in 0..m |-> IF i = 0 THEN table_of(c) ELSE Put(i, g[i - 1])]
    <2> HIDE DEF Put
    <2>1. \A i \in 0..m : g[i] = IF i = 0 THEN table_of(c) ELSE Put(i, g[i - 1])
      <3>1. g[0] = table_of(c)
        BY <1>6 DEF IsStepwise
      <3>2. \A i \in 0..m : i = 0 \/ (i # 0 /\ i \in 1..m)
        BY <1>2
      <3> QED BY <1>7, <3>1, <3>2
    <2> QED BY <1>6, <2>1
  <1>9. /\ DOMAIN upto = 0..m /\ upto[0] = table_of(c)
        /\ \A i \in 1..m : upto[i] = Put(i, upto[i - 1])
    <2> DEFINE Fixed(f) == f = [i \in 0..m |-> IF i = 0 THEN table_of(c) ELSE Put(i, f[i - 1])]
    <2>1. upto = CHOOSE f : Fixed(f)
      OBVIOUS
    <2>2. Fixed(g)
      BY <1>8
    <2> HIDE DEF upto
    <2>3. Fixed(upto)
      <3> HIDE DEF Fixed
      <3> QED BY <2>1, <2>2
    <2> HIDE DEF Put
    <2> QED BY <1>2, <2>3
  <1> HIDE DEF upto
  <1> DEFINE Said(i) == {s[j] : j \in {k \in Used(s) : k < i}}
             P == {i \in Nat : i <= m => Filed(upto[i], c) /\ Records(upto[i]) = Said(i)}
  <1>10. 0 \in P
    <2>1. Said(0) = {}
      BY <1>2 DEF Used
    <2> QED BY <1>9, <2>1, FreshTable
  <1>11. ASSUME NEW i \in P PROVE i + 1 \in P
    <2>0. i \in Nat /\ i + 1 \in Nat
      BY <1>11
    <2>1. SUFFICES ASSUME i + 1 <= m
                   PROVE Filed(upto[i + 1], c) /\ Records(upto[i + 1]) = Said(i + 1)
      BY <2>0
    <2> DEFINE t == upto[i]
    <2>2. Filed(t, c) /\ Records(t) = Said(i)
      <3>1. i <= m
        BY <1>2, <2>0, <2>1
      <3>2. i <= m => Filed(upto[i], c) /\ Records(upto[i]) = Said(i)
        BY <1>11
      <3> HIDE DEF Said
      <3> QED BY <3>1, <3>2
    <2>3. /\ i \in 0..(m - 1) /\ i + 1 \in 1..m
          /\ upto[i + 1] = Put(i + 1, t) /\ i + 1 - 1 = i
      <3>1. i + 1 \in 1..m /\ i + 1 - 1 = i /\ i \in 0..(m - 1)
        BY <1>2, <2>0, <2>1
      <3> HIDE DEF Put
      <3> QED BY <1>9, <3>1
    <2>4. upto[i + 1] = IF s[i].id = EMPTY_ID THEN t
                        ELSE [t EXCEPT ![first_free(t, c, s[i].hash)] = s[i]]
      BY <2>3
    <2> HIDE DEF t, Put
    <2>5. CASE s[i].id = EMPTY_ID
      <3>1. Said(i + 1) = Said(i)
        <4>1. {k \in Used(s) : k < i + 1} = {k \in Used(s) : k < i}
          BY <1>2, <2>0, <2>5 DEF Used
        <4> QED BY <4>1
      <3> HIDE DEF Said
      <3> QED BY <2>2, <2>4, <2>5, <3>1
    <2>6. CASE s[i].id # EMPTY_ID
      <3>1. i \in Used(s) /\ s[i] = [hash |-> s[i].hash, id |-> s[i].id]
            /\ s[i].hash \in 0..UINT32_MAX /\ s[i].id \in Nat
        BY <1>2, <2>3, <2>6 DEF Used
      <3>2. \A j \in Used(t) : t[j] \in Records(t)
        BY DEF Records
      <3>3. ASSUME NEW j \in Used(t) PROVE t[j].id \in 0..(n - 1) /\ t[j].id # s[i].id
        <4>1. PICK k \in Used(s) : k < i /\ t[j] = s[k]
          BY <2>2, <3>2
        <4>2. k # i
          BY <1>2, <2>0, <4>1 DEF Used
        <4> QED BY <1>2, <3>1, <4>1, <4>2 DEF Filed
      <3>4. free_slots(t) # {}
        BY <2>2, <3>3, SlotFree
      <3> DEFINE h == s[i].hash
                 x == s[i].id
                 u == placed(t, c, h, x)
      <3>5. h \in 0..UINT32_MAX /\ x \in Nat /\ \A j \in Used(t) : t[j].id # x
        BY <3>1, <3>3
      <3>6. s[i] = [hash |-> h, id |-> x]
        BY <3>1
      <3>7. upto[i + 1] = u
        BY <2>4, <2>6, <3>6 DEF placed
      <3> HIDE DEF h, x
      <3>8. Filed(u, c) /\ Records(u) = Records(t) \cup {[hash |-> h, id |-> x]}
        <4> HIDE DEF Said
        <4>1. Filed(t, c) /\ free_slots(t) # {}
          BY <2>2, <3>4
        <4> QED BY <4>1, <3>5, Place
      <3>9. Said(i + 1) = Said(i) \cup {s[i]}
        <4>1. {k \in Used(s) : k < i + 1} = {k \in Used(s) : k < i} \cup {i}
          BY <1>2, <2>0, <3>1 DEF Used
        <4> QED BY <4>1
      <3> HIDE DEF u, Said
      <3> QED BY <2>2, <3>6, <3>7, <3>8, <3>9
    <2> QED BY <2>5, <2>6
  <1>12. P = Nat
    <2>1. P \in SUBSET Nat
      OBVIOUS
    <2> HIDE DEF P
    <2> QED BY <1>10, <1>11, <2>1, NatSetInduction
  <1>13. Filed(upto[m], c) /\ Records(upto[m]) = Said(m)
    <2>1. m \in P
      <3> HIDE DEF P
      <3> QED BY <1>2, <1>12
    <2>2. m <= m
      BY <1>2
    <2> QED BY <2>1, <2>2
  <1>14. Said(m) = Records(s)
    <2>1. {k \in Used(s) : k < m} = Used(s)
      BY <1>2 DEF Used
    <2> QED BY <2>1 DEF Records
  <1> QED BY <1>1, <1>13, <1>14 DEF s

-----------------------------------------------------------------------------
(* The capacity of a table for so many keys.                               *)

\* Each exponent gives one of the capacities.
LEMMA PowIs == \A e \in 2..28 : Pow(e) \in Powers /\ Pow(e) \in Nat /\ Pow(e) >= 4
  BY PowersAre, PowersDouble DEF Pow

\* The doubling stops at a capacity that the keys asked for still fit, and that
\* is no larger than the largest.
LEMMA CapacityFor ==
  ASSUME NEW n \in Nat, n <= ARNM_KEY_MAP_MAX_KEYS
  PROVE  /\ capacity_for(n) \in Powers
         /\ capacity_for(n) <= ARNM_KEY_MAP_MAX_CAPACITY
         /\ n <= load_limit(capacity_for(n))
  <1> DEFINE Double(x) == 2 * x
             Step == [i \in 1..28 |-> [x \in Nat |-> Double(x)]]
             doubled == CHOOSE f : f = [e \in 0..28 |-> IF e = 0 THEN MIN_CAPACITY
                                                                ELSE 2 * f[e - 1]]
             least == CHOOSE k \in 0..28 : /\ load_limit(doubled[k]) >= n
                                           /\ \A m \in 0..(k - 1) : load_limit(doubled[m]) < n
  <1>1. capacity_for(n) = doubled[least]
    BY DEF capacity_for
  <1>2. PICK a \in 2..28, b \in 2..28 : MIN_CAPACITY = Pow(a) /\ ARNM_KEY_MAP_MAX_CAPACITY = Pow(b)
    BY KeyMapAssumption DEF Pow
  <1>3. MIN_CAPACITY \in Nat /\ Pow(a) <= Pow(b)
    BY <1>2, PowIs, KeyMapAssumption
  <1>4. PICK g \in [0..28 -> Nat] : IsStepwise(g, 28, MIN_CAPACITY, Step)
    <2>1. Step \in [1..28 -> [Nat -> Nat]] /\ 28 \in Nat
      OBVIOUS
    <2> HIDE DEF Step
    <2> QED BY <1>3, <2>1, StepwiseExists
  <1>5. g[0] = MIN_CAPACITY /\ \A i \in 1..28 : g[i] = 2 * g[i - 1]
    <2>1. \A i \in 1..28 : g[i - 1] \in Nat
      OBVIOUS
    <2> QED BY <1>4, <2>1 DEF IsStepwise
  <1> HIDE DEF Step
  <1>6. /\ doubled[0] = MIN_CAPACITY
        /\ \A i \in 1..28 : doubled[i] = 2 * doubled[i - 1]
    <2> DEFINE Fixed(f) == f = [e \in 0..28 |-> IF e = 0 THEN MIN_CAPACITY ELSE 2 * f[e - 1]]
    <2>1. Fixed(g)
      <3>1. \A i \in 0..28 : i = 0 \/ (i # 0 /\ i \in 1..28)
        OBVIOUS
      <3>2. \A i \in 0..28 : g[i] = IF i = 0 THEN MIN_CAPACITY ELSE 2 * g[i - 1]
        BY <1>5, <3>1
      <3> QED BY <1>4, <3>2
    <2>2. doubled = CHOOSE f : Fixed(f)
      OBVIOUS
    <2> HIDE DEF doubled
    <2>3. Fixed(doubled)
      <3> HIDE DEF Fixed
      <3> QED BY <2>1, <2>2
    <2> QED BY <2>3
  <1> HIDE DEF doubled
  <1>7. \A i \in Nat : a + i <= 28 => doubled[i] = Pow(a + i)
    <2> DEFINE P == {i \in Nat : a + i <= 28 => doubled[i] = Pow(a + i)}
    <2>1. 0 \in P
      <3>1. a + 0 = a
        OBVIOUS
      <3> QED BY <1>2, <1>6, <3>1
    <2>2. ASSUME NEW i \in P PROVE i + 1 \in P
      <3>0. i \in Nat
        BY <2>2
      <3>1. SUFFICES ASSUME a + (i + 1) <= 28 PROVE doubled[i + 1] = Pow(a + (i + 1))
        BY <3>0, i + 1 \in Nat
      <3>2. a + i \in 2..27 /\ a + (i + 1) = a + i + 1 /\ i + 1 \in 1..28 /\ i + 1 - 1 = i
        BY <3>0, <3>1
      <3>3. doubled[i] = Pow(a + i)
        BY <2>2, <3>2
      <3>4. Pow(a + i + 1) = 2 * Pow(a + i)
        <4>1. a + i \in 0..31
          BY <3>2
        <4> QED BY <4>1, PowerStep
      <3> QED BY <1>6, <3>2, <3>3, <3>4
    <2>3. P = Nat
      <3>1. P \in SUBSET Nat
        OBVIOUS
      <3> HIDE DEF P
      <3> QED BY <2>1, <2>2, <3>1, NatSetInduction
    <2> QED BY <2>3
  <1>8. a <= b
    <2>1. a \in 0..32 /\ b \in 0..32
      OBVIOUS
    <2> QED BY <1>3, <2>1, PowersGrow, PowIs
  <1> DEFINE fits == {k \in 0..28 : load_limit(doubled[k]) >= n}
  <1>9. b - a \in fits
    <2>1. b - a \in 0..28 /\ b - a \in Nat /\ a + (b - a) = b
      BY <1>8
    <2>2. doubled[b - a] = Pow(b)
      BY <1>7, <2>1
    <2>3. load_limit(Pow(b)) >= n
      BY <1>2, PowIs DEF ARNM_KEY_MAP_MAX_KEYS, load_limit
    <2> QED BY <2>1, <2>2, <2>3
  <1>10. PICK k \in fits : \A m \in fits : k <= m
    <2>1. fits \in SUBSET Nat /\ fits # {}
      BY <1>9
    <2> HIDE DEF fits
    <2> QED BY <2>1, LeastOf
  <1>11. k \in 0..28 /\ k <= b - a /\ load_limit(doubled[k]) >= n
    BY <1>9, <1>10
  <1>12. \A m \in 0..(k - 1) : load_limit(doubled[m]) < n
    <2>1. ASSUME NEW m \in 0..(k - 1) PROVE load_limit(doubled[m]) < n
      <3>1. m \in 0..28 /\ a + m \in 2..28 /\ m \in Nat /\ a + m <= 28
        BY <1>8, <1>11
      <3>2. doubled[m] = Pow(a + m)
        BY <1>7, <3>1
      <3>3. load_limit(doubled[m]) \in Int
        BY <3>1, <3>2, PowIs DEF load_limit
      <3>4. m \notin fits
        BY <1>10, <1>11
      <3> QED BY <3>1, <3>3, <3>4
    <2> QED BY <2>1
  <1>13. /\ least \in 0..28 /\ load_limit(doubled[least]) >= n
         /\ \A m \in 0..(least - 1) : load_limit(doubled[m]) < n
    BY <1>11, <1>12
  <1> HIDE DEF least
  <1>14. least <= b - a
    <2>1. SUFFICES ASSUME b - a < least PROVE FALSE
      BY <1>8, <1>13
    <2>2. b - a \in 0..(least - 1) /\ b - a \in Nat /\ a + (b - a) = b /\ a + (b - a) <= 28
      BY <1>8, <1>13, <2>1
    <2>3. doubled[b - a] = Pow(b)
      BY <1>7, <2>2
    <2>4. load_limit(Pow(b)) < n /\ load_limit(Pow(b)) \in Int
      BY <1>13, <2>2, <2>3, PowIs DEF load_limit
    <2> QED BY <1>9, <2>3, <2>4
  <1>15. a + least \in 2..28 /\ a + least <= b /\ least \in Nat /\ a + least <= 28
    BY <1>8, <1>13, <1>14
  <1>16. doubled[least] = Pow(a + least)
    BY <1>7, <1>15
  <1>17. Pow(a + least) <= Pow(b)
    <2>1. a + least \in 0..32 /\ b \in 0..32
      BY <1>15
    <2> QED BY <1>15, <2>1, PowersGrow, PowIs
  <1> QED BY <1>1, <1>2, <1>13, <1>15, <1>16, <1>17, PowIs

-----------------------------------------------------------------------------
(* The inductive invariant.                                                *)

\* What a table says of the keys: the id of each, under the key's hash.
Entries(hash, ks) == {[hash |-> hash[ks[i + 1]], id |-> i] : i \in 0..(Len(ks) - 1)}

\* The descriptor's fields; before init there is neither table nor bucket.
MapOK ==
  /\ map \in [hash : HashFunctions \cup {NULL}, key_size : Nat, capacity : Nat,
              slots : {map.slots}]
  /\ map.capacity \in {0} \cup {2^e : e \in 2..28}
  /\ map.capacity <= ARNM_KEY_MAP_MAX_CAPACITY
  /\ map.hash = NULL => map.capacity = 0 /\ room = 0

\* Each key once, and within what the buckets and the table hold; the index array has
\* a slot for each bucket.
KeysOK ==
  /\ keys \in Seq(Keys) /\ IsInjective(keys)
  /\ room \in Nat /\ room % BUCKET = 0
  /\ indexed \in Nat /\ indexed % BUCKET = 0
  /\ Len(keys) <= room /\ room <= indexed
  /\ Len(keys) <= load_limit(map.capacity)

\* The table is what its probe needs it to be, and says the ids of the keys.
TableOK ==
  /\ Filed(map.slots, map.capacity)
  /\ Records(map.slots) = Entries(map.hash, keys)

PromiseOK == promised \in Nat /\ promised <= room /\ promised <= load_limit(map.capacity)

IInv == MapOK /\ KeysOK /\ TableOK /\ PromiseOK

\* The largest capacity is one of the powers, as the smallest is.
LEMMA Capacities ==
  /\ MIN_CAPACITY \in Powers /\ ARNM_KEY_MAP_MAX_CAPACITY \in Powers
  /\ MIN_CAPACITY <= ARNM_KEY_MAP_MAX_CAPACITY
  /\ \A c \in {0} \cup {2^e : e \in 2..28} : c = 0 \/ c \in Powers
  /\ \A c \in Powers : c \in {0} \cup {2^e : e \in 2..28}
  /\ BUCKET \in Nat \ {0}
  <1>1. BUCKET \in Nat \ {0}
    BY KeyMapAssumption, WidthAssumption
  <1> QED BY <1>1, KeyMapAssumption, PowersExactly

\* The slots of the table name the keys, each under its hash.
LEMMA SlotsName ==
  ASSUME IInv, NEW i \in Used(map.slots)
  PROVE  /\ map.slots[i].id \in 0..(Len(keys) - 1)
         /\ map.slots[i].hash = map.hash[keys[map.slots[i].id + 1]]
  <1>1. map.slots[i] \in Entries(map.hash, keys)
    BY DEF IInv, TableOK, Records
  <1> QED BY <1>1 DEF Entries

\* Each key has its slot.
LEMMA KeyHasSlot ==
  ASSUME IInv, NEW id \in 0..(Len(keys) - 1)
  PROVE  \E i \in Used(map.slots) : /\ map.slots[i].id = id
                                    /\ map.slots[i].hash = map.hash[keys[id + 1]]
  <1>1. [hash |-> map.hash[keys[id + 1]], id |-> id] \in Records(map.slots)
    BY DEF IInv, TableOK, Entries
  <1> QED BY <1>1 DEF Records

\* The load limit leaves a slot free, so that every walk ends.
LEMMA WalksEnd ==
  ASSUME IInv, map.capacity # 0
  PROVE  /\ map.capacity \in Powers /\ map.capacity \in Nat \ {0}
         /\ Len(keys) \in Nat /\ Len(keys) < map.capacity
         /\ free_slots(map.slots) # {} /\ free_slots(map.slots) \subseteq 0..(map.capacity - 1)
  <1>1. map.capacity \in Powers
    BY Capacities DEF IInv, MapOK
  <1>2. Len(keys) \in Nat /\ Len(keys) <= load_limit(map.capacity)
    BY DEF IInv, KeysOK
  <1>3. map.capacity \in Nat \ {0} /\ Len(keys) < map.capacity
    BY <1>1, <1>2, PowersDouble DEF load_limit
  <1>4. Filed(map.slots, map.capacity)
    BY DEF IInv, TableOK
  <1>5. \A i \in Used(map.slots) : map.slots[i].id \in 0..(Len(keys) - 1)
    BY SlotsName
  <1>6. /\ free_slots(map.slots) # {}
        /\ free_slots(map.slots) \subseteq 0..(map.capacity - 1)
    BY <1>2, <1>3, <1>4, <1>5, SlotFree
  <1> QED BY <1>1, <1>2, <1>3, <1>6

\* A ready map hashes every key to 32 bits.
LEMMA HashOf ==
  ASSUME IInv, is_ready, NEW k \in Keys
  PROVE  map.hash[k] \in 0..UINT32_MAX /\ map.hash[k] \in Nat
  BY KeyMapAssumption, WidthAssumption DEF IInv, MapOK, is_ready

\* The probe of a key the map holds ends on its slot, that of any other key on
\* the free slot it would go into.
LEMMA Probe ==
  ASSUME IInv, map.capacity # 0, NEW k \in Keys
  PROVE  /\ k \in Range(keys) =>
              /\ map.slots[arnm_key_map_probe(k)].id \in 0..(Len(keys) - 1)
              /\ keys[map.slots[arnm_key_map_probe(k)].id + 1] = k
         /\ k \notin Range(keys) =>
              /\ arnm_key_map_probe(k) = first_free(map.slots, map.capacity, map.hash[k])
              /\ map.slots[arnm_key_map_probe(k)].id = EMPTY_ID
  <1> DEFINE c == map.capacity
             s == map.slots
             h == map.hash[k]
             free == free_slots(s)
             filed == {i \in DOMAIN s \ free : s[i].hash = h /\ keys[s[i].id + 1] = k}
  <1>0. is_ready
    BY DEF IInv, MapOK, is_ready
  <1>1. /\ c \in Nat \ {0} /\ h \in Nat /\ free # {} /\ free \subseteq 0..(c - 1)
        /\ Filed(s, c) /\ DOMAIN s = 0..(c - 1) /\ DOMAIN keys = 1..Len(keys)
        /\ Len(keys) \in Nat
    <2>1. Filed(s, c) /\ DOMAIN keys = 1..Len(keys)
      BY DEF IInv, TableOK, KeysOK
    <2>2. c \in Nat \ {0} /\ free # {} /\ free \subseteq 0..(c - 1) /\ Len(keys) \in Nat
      BY WalksEnd
    <2>3. h \in Nat
      BY <1>0, HashOf
    <2>4. DOMAIN s = 0..(c - 1)
      BY <2>1 DEF Filed, Slots
    <2> QED BY <2>1, <2>2, <2>3, <2>4
  <1>2. arnm_key_map_probe(k) = walk(c, h, free \cup filed)
    BY DEF arnm_key_map_probe
  <1>3. \A i \in Used(s) : /\ s[i].id \in 0..(Len(keys) - 1)
                           /\ s[i].hash = map.hash[keys[s[i].id + 1]]
    BY SlotsName
  <1>4. ASSUME NEW id \in 0..(Len(keys) - 1)
        PROVE  \E i \in Used(s) : s[i].id = id /\ s[i].hash = map.hash[keys[id + 1]]
    BY KeyHasSlot
  <1> HIDE DEF c, s, free
  <1>5. Used(s) = DOMAIN s \ free /\ EMPTY_ID = -1
    BY DEF Used, free, free_slots, EMPTY_ID
  <1>6. CASE k \in Range(keys)
    <2>1. PICK id \in 0..(Len(keys) - 1) : keys[id + 1] = k
      <3>1. PICK j \in 1..Len(keys) : keys[j] = k
        BY <1>1, <1>6 DEF Range
      <3>2. j - 1 \in 0..(Len(keys) - 1) /\ j - 1 + 1 = j
        BY <1>1, <3>1
      <3> QED BY <3>1, <3>2
    <2>2. PICK i \in Used(s) : s[i].id = id /\ s[i].hash = map.hash[keys[id + 1]]
      BY <1>4
    <2>3. s[i].hash = h /\ i \in filed
      BY <1>5, <2>1, <2>2
    <2>4. PICK d \in 0..(c - 1) : /\ (h + d) % c = i
                                  /\ \A e \in 0..d : s[(h + e) % c].id # EMPTY_ID
      BY <1>1, <2>2, <2>3 DEF Filed, Reached
    <2> DEFINE stops == free \cup filed
    <2>5. stops \in SUBSET (0..(c - 1)) /\ stops # {} /\ i \in stops
      BY <1>1, <2>3
    <2> HIDE DEF stops, h
    <2>6. PICK f \in 0..(c - 1) :
             /\ walk(c, h, stops) = (h + f) % c
             /\ (h + f) % c \in stops
             /\ \A e \in 0..(c - 1) : (h + e) % c \in stops => f <= e
      BY <1>1, <2>5, WalkStops
    <2>7. f <= d
      BY <2>4, <2>5, <2>6
    <2>8. s[(h + f) % c].id # EMPTY_ID
      <3>1. f \in 0..d
        BY <2>7
      <3> QED BY <2>4, <3>1
    <2> DEFINE p == (h + f) % c
    <2>9. p \in filed
      <3>1. p \notin free
        BY <2>8 DEF free, free_slots
      <3> QED BY <2>6, <3>1 DEF stops
    <2>10. p \in Used(s) /\ keys[s[p].id + 1] = k
      BY <1>5, <2>9
    <2>11. arnm_key_map_probe(k) = p
      BY <1>2, <2>6 DEF stops
    <2> HIDE DEF p
    <2>12. s[p].id \in 0..(Len(keys) - 1)
      BY <1>3, <2>10
    <2> QED BY <1>6, <2>10, <2>11, <2>12 DEF s
  <1>7. CASE k \notin Range(keys)
    <2>1. filed = {}
      <3>1. ASSUME NEW i \in filed PROVE FALSE
        <4>1. i \in Used(s) /\ keys[s[i].id + 1] = k
          BY <1>5, <3>1
        <4>2. s[i].id + 1 \in 1..Len(keys)
          BY <1>1, <1>3, <4>1
        <4>3. keys[s[i].id + 1] \in Range(keys)
          BY <1>1, <4>2 DEF Range
        <4> QED BY <1>7, <4>1, <4>3
      <3> QED BY <3>1
    <2>2. arnm_key_map_probe(k) = walk(c, h, free)
      <3>1. free \cup filed = free
        BY <2>1
      <3> HIDE DEF filed, h
      <3> QED BY <1>2, <3>1
    <2> HIDE DEF h
    <2>3. walk(c, h, free) \in free
      <3>1. free \in SUBSET (0..(c - 1))
        BY <1>1
      <3> QED BY <1>1, <3>1, WalkStops
    <2>4. s[walk(c, h, free)].id = EMPTY_ID
      BY <2>3 DEF free, free_slots
    <2> QED BY <1>7, <2>2, <2>4 DEF first_free, c, s, h, free
  <1> QED BY <1>6, <1>7

\* The map finds exactly the keys it was given.
LEMMA HasKey ==
  ASSUME IInv, NEW k \in Keys
  PROVE  /\ has_key(k) <=> k \in Range(keys)
         /\ has_key(k) => /\ map.slots[arnm_key_map_probe(k)].id \in 0..(Len(keys) - 1)
                          /\ keys[map.slots[arnm_key_map_probe(k)].id + 1] = k
  <1>1. CASE map.capacity = 0
    <2>1. Len(keys) \in Nat /\ Len(keys) <= 0 /\ DOMAIN keys = 1..Len(keys)
      BY <1>1 DEF IInv, KeysOK, load_limit
    <2>2. Range(keys) = {}
      BY <2>1 DEF Range
    <2> QED BY <1>1, <2>2 DEF has_key
  <1>2. CASE map.capacity # 0
    <2>1. k \in Range(keys) => /\ map.slots[arnm_key_map_probe(k)].id \in 0..(Len(keys) - 1)
                               /\ keys[map.slots[arnm_key_map_probe(k)].id + 1] = k
      BY <1>2, Probe
    <2>2. k \notin Range(keys) => map.slots[arnm_key_map_probe(k)].id = EMPTY_ID
      BY <1>2, Probe
    <2>3. \A x \in 0..(Len(keys) - 1) : x # EMPTY_ID
      BY DEF EMPTY_ID
    <2> QED BY <1>2, <2>1, <2>2, <2>3 DEF has_key
  <1> QED BY <1>1, <1>2

\* A map with the same keys over a table no smaller than this one's.
Carries(m) ==
  /\ m \in [hash : {map.hash}, key_size : {map.key_size}, capacity : Powers, slots : {m.slots}]
  /\ m.capacity <= ARNM_KEY_MAP_MAX_CAPACITY
  /\ map.capacity <= m.capacity
  /\ Filed(m.slots, m.capacity)
  /\ Records(m.slots) = Entries(map.hash, keys)

\* Growing the table gives such a map.
LEMMA Grown ==
  ASSUME IInv, NEW c \in Powers, c <= ARNM_KEY_MAP_MAX_CAPACITY, map.capacity < c
  PROVE  Carries(with_table(c)) /\ with_table(c).capacity = c
         /\ with_table(c).slots = rebuilt(c)
  <1>1. c \in Nat \ {0}
    BY PowersDouble
  <1>2. /\ map.capacity \in Nat /\ Filed(map.slots, map.capacity) /\ Len(keys) \in Nat
        /\ Len(keys) <= load_limit(map.capacity)
        /\ Records(map.slots) = Entries(map.hash, keys)
        /\ map \in [hash : HashFunctions \cup {NULL}, key_size : Nat, capacity : Nat,
                    slots : {map.slots}]
    BY DEF IInv, MapOK, TableOK, KeysOK
  <1>3. Len(keys) < c
    <2>1. load_limit(map.capacity) <= map.capacity
      BY <1>2 DEF load_limit
    <2> QED BY <1>1, <1>2, <2>1 DEF load_limit
  <1>4. \A i \in Used(map.slots) : map.slots[i].id \in 0..(Len(keys) - 1)
    BY SlotsName
  <1>5. Filed(rebuilt(c), c) /\ Records(rebuilt(c)) = Records(map.slots)
    BY <1>1, <1>2, <1>3, <1>4, Rebuild
  <1>6. /\ with_table(c).capacity = c /\ with_table(c).slots = rebuilt(c)
        /\ with_table(c).hash = map.hash /\ with_table(c).key_size = map.key_size
        /\ with_table(c) \in [hash : {map.hash}, key_size : {map.key_size}, capacity : Powers,
                              slots : {with_table(c).slots}]
    BY <1>2 DEF with_table
  <1> HIDE DEF with_table
  <1>7. map.capacity <= c
    BY <1>1, <1>2
  <1> QED BY <1>2, <1>5, <1>6, <1>7 DEF Carries

\* The map itself is one, once it has a table.
LEMMA CarriesItself ==
  ASSUME IInv, map.capacity # 0
  PROVE  Carries(map)
  <1>1. map.capacity \in Powers
    BY WalksEnd
  <1>2. map \in [hash : {map.hash}, key_size : {map.key_size}, capacity : Powers, slots : {map.slots}]
    BY <1>1 DEF IInv, MapOK
  <1>3. map.capacity <= map.capacity
    BY DEF IInv, MapOK
  <1> QED BY <1>2, <1>3 DEF IInv, MapOK, TableOK, Carries

\* With the keys unchanged, it may take the map's place.
LEMMA CarriesOn ==
  ASSUME IInv, is_ready, Carries(map'), keys' = keys,
         room' \in Nat, room' % BUCKET = 0, room <= room',
         indexed' \in Nat, indexed' % BUCKET = 0, room' <= indexed',
         promised' \in Nat, promised' <= room', promised' <= load_limit(map'.capacity)
  PROVE  IInv'
  <1>1. /\ map'.capacity \in Powers /\ map'.capacity <= ARNM_KEY_MAP_MAX_CAPACITY
        /\ map'.hash = map.hash /\ map'.key_size = map.key_size /\ map.capacity <= map'.capacity
        /\ map' \in [hash : {map.hash}, key_size : {map.key_size}, capacity : Powers,
                     slots : {map'.slots}]
    BY DEF Carries
  <1>2. map'.capacity \in {0} \cup {2^e : e \in 2..28} /\ map'.capacity \in Nat
    BY <1>1, Capacities, PowersDouble
  <1>3. MapOK'
    <2>1. map' \in [hash : HashFunctions \cup {NULL}, key_size : Nat, capacity : Nat,
                    slots : {map'.slots}]
      BY <1>1, <1>2 DEF IInv, MapOK
    <2> QED BY <1>1, <1>2, <2>1 DEF IInv, MapOK, is_ready
  <1>4. load_limit(map.capacity) <= load_limit(map'.capacity)
    BY <1>1, <1>2 DEF load_limit, IInv, MapOK
  <1>5. KeysOK'
    <2>1. Len(keys) \in Nat /\ load_limit(map.capacity) \in Int /\ load_limit(map'.capacity) \in Int
          /\ room \in Nat
      <3>1. map.capacity \in Nat
        BY DEF IInv, MapOK
      <3>2. Len(keys) \in Nat /\ room \in Nat
        BY DEF IInv, KeysOK
      <3>3. \A c \in Nat : load_limit(c) \in Int
        BY DEF load_limit
      <3> QED BY <1>2, <3>1, <3>2, <3>3
    <2>2. Len(keys) <= room' /\ Len(keys) <= load_limit(map'.capacity)
      BY <1>4, <2>1 DEF IInv, KeysOK
    <2> QED BY <1>1, <2>2 DEF IInv, KeysOK
  <1>6. TableOK'
    BY <1>1 DEF Carries, TableOK
  <1> QED BY <1>3, <1>5, <1>6 DEF IInv, PromiseOK

\* A new key goes into the table after it went into the vector; when the vector
\* refuses, a table and an index that grew for it stay.  A promised one takes nothing.
LEMMA Stored ==
  ASSUME IInv, is_ready, NEW k \in Keys, k \notin Range(keys),
         NEW m, Carries(m), Len(keys) < load_limit(m.capacity),
         store(k, m, first_free(m.slots, m.capacity, map.hash[k]))
  PROVE  /\ IInv'
         /\ Len(keys) < promised => /\ answer'.kind = "INSERTED"
                                    /\ map'.capacity = m.capacity
                                    /\ UNCHANGED <<room, indexed>>
  <1> DEFINE c == m.capacity
             h == map.hash[k]
             n == Len(keys)
             index == first_free(m.slots, c, h)
  <1>1. /\ m \in [hash : {map.hash}, key_size : {map.key_size}, capacity : Powers, slots : {m.slots}]
        /\ c \in Powers /\ c \in Nat \ {0} /\ m.hash = map.hash /\ m.key_size = map.key_size
        /\ Filed(m.slots, c) /\ Records(m.slots) = Entries(map.hash, keys)
        /\ c <= ARNM_KEY_MAP_MAX_CAPACITY /\ map.capacity <= c
    BY PowersDouble DEF Carries
  <1>2. /\ keys \in Seq(Keys) /\ n \in Nat /\ room \in Nat /\ indexed \in Nat
        /\ map.capacity \in Nat /\ n <= room /\ room <= indexed
        /\ promised \in Nat /\ promised <= room /\ promised <= load_limit(map.capacity)
        /\ room % BUCKET = 0 /\ indexed % BUCKET = 0 /\ IsInjective(keys)
    BY DEF IInv, MapOK, KeysOK, PromiseOK
  <1>3. /\ load_limit(map.capacity) <= load_limit(c) /\ load_limit(c) \in Int
        /\ load_limit(map.capacity) \in Int
    BY <1>1, <1>2 DEF load_limit
  <1>4. h \in 0..UINT32_MAX
    BY HashOf
  <1> DEFINE wider == IF is_index_due THEN indexed + INDEX_STEP * BUCKET ELSE indexed
  <1>w. /\ wider \in Nat /\ wider % BUCKET = 0 /\ room <= wider
        /\ n = room => room + BUCKET <= wider /\ (room + BUCKET) % BUCKET = 0
        /\ n < room => wider = indexed
    <2>1. BUCKET \in Nat \ {0} /\ INDEX_STEP \in Nat \ {0}
      BY Capacities, KeyMapAssumption
    <2>2. CASE is_index_due
      <3>1. /\ indexed + INDEX_STEP * BUCKET \in Nat
            /\ (indexed + INDEX_STEP * BUCKET) % BUCKET = 0
            /\ indexed + BUCKET <= indexed + INDEX_STEP * BUCKET
        BY <1>2, <2>1, StepMultiple
      <3>2. n = room /\ room = indexed /\ wider = indexed + INDEX_STEP * BUCKET
        BY <2>2 DEF is_index_due
      <3>3. (room + BUCKET) % BUCKET = 0
        <4>1. 1 \in Nat \ {0} /\ 1 * BUCKET = BUCKET
          BY <2>1
        <4>2. (room + 1 * BUCKET) % BUCKET = 0
          BY <1>2, <2>1, <4>1, StepMultiple
        <4> QED BY <4>1, <4>2
      <3> HIDE DEF wider, n
      <3> QED BY <1>2, <2>1, <3>1, <3>2, <3>3
    <2>3. CASE ~is_index_due
      <3>1. wider = indexed /\ (n = room => room < indexed)
        BY <1>2, <2>3 DEF is_index_due
      <3>2. room < indexed => room + BUCKET <= indexed /\ (room + BUCKET) % BUCKET = 0
        BY <1>2, <2>1, NextMultiple
      <3> HIDE DEF wider, n
      <3> QED BY <1>2, <3>1, <3>2
    <2> QED BY <2>2, <2>3
  <1> HIDE DEF wider
  <1>5. ASSUME n = room, map' = m, UNCHANGED <<keys, room, promised>>,
               indexed' \in {indexed, wider}
        PROVE  IInv' /\ ~(n < promised)
    <2>1. promised <= load_limit(c) /\ room <= room /\ ~(n < promised)
      BY <1>2, <1>3, <1>5
    <2>2. indexed' \in Nat /\ indexed' % BUCKET = 0 /\ room' <= indexed'
      BY <1>2, <1>5, <1>w
    <2>3. IInv'
      BY <1>1, <1>2, <1>5, <2>1, <2>2, CarriesOn
    <2> QED BY <2>1, <2>3
  <1>6. CASE /\ map' = [m EXCEPT !.slots[index] = [hash |-> m.hash[k], id |-> n]]
             /\ keys' = Append(keys, k)
             /\ room' = (IF n < room THEN room ELSE room + BUCKET)
             /\ indexed' = wider
             /\ answer' = Answer(k, "INSERTED", n)
             /\ UNCHANGED promised
    <2>1. /\ map' \in [hash : {map.hash}, key_size : {map.key_size}, capacity : Powers,
                       slots : {map'.slots}]
          /\ map'.hash = map.hash /\ map'.key_size = map.key_size /\ map'.capacity = c
          /\ map'.slots = placed(m.slots, c, h, n)
      BY <1>1, <1>6 DEF placed
    <2>2. /\ keys' \in Seq(Keys) /\ Len(keys') = n + 1 /\ IsInjective(keys')
          /\ keys'[n + 1] = k /\ \A i \in 1..n : keys'[i] = keys[i]
      <3>1. /\ keys' \in Seq(Keys) /\ Len(keys') = n + 1
            /\ keys'[n + 1] = k /\ \A i \in 1..n : keys'[i] = keys[i]
        BY <1>2, <1>6
      <3>2. \A i \in 1..n : keys[i] # k
        BY <1>2 DEF Range
      <3>3. \A i, j \in 1..n : keys[i] = keys[j] => i = j
        BY <1>2 DEF IsInjective
      <3>4. DOMAIN keys' = 1..(n + 1)
        BY <3>1
      <3>5. \A i \in 1..(n + 1) : i \in 1..n \/ i = n + 1
        BY <1>2
      <3> HIDE DEF n
      <3>6. \A i, j \in 1..(n + 1) : keys'[i] = keys'[j] => i = j
        BY <3>1, <3>2, <3>3, <3>5
      <3> QED BY <3>1, <3>4, <3>6 DEF IsInjective
    <2>3. Filed(map'.slots, c) /\ Records(map'.slots) = Entries(map.hash, keys)
                                                        \cup {[hash |-> h, id |-> n]}
      <3>1. \A i \in Used(m.slots) : m.slots[i].id \in 0..(n - 1)
        <4>1. \A i \in Used(m.slots) : m.slots[i] \in Entries(map.hash, keys)
          BY <1>1 DEF Records
        <4> QED BY <4>1 DEF Entries
      <3>2. n < c
        BY <1>1, <1>2, <1>3 DEF load_limit
      <3>3. free_slots(m.slots) # {}
        BY <1>1, <1>2, <3>1, <3>2, SlotFree
      <3>4. \A i \in Used(m.slots) : m.slots[i].id # n
        BY <1>2, <3>1
      <3> DEFINE t == m.slots
      <3>5. Filed(t, c) /\ free_slots(t) # {} /\ \A i \in Used(t) : t[i].id # n
        BY <1>1, <3>3, <3>4
      <3> HIDE DEF t, c, h, n
      <3>6. /\ Filed(placed(t, c, h, n), c)
            /\ Records(placed(t, c, h, n)) = Records(t) \cup {[hash |-> h, id |-> n]}
        BY <1>1, <1>2, <1>4, <3>5, Place
      <3> QED BY <1>1, <2>1, <3>6 DEF t
    <2>4. Entries(map.hash, keys') = Entries(map.hash, keys) \cup {[hash |-> h, id |-> n]}
      <3>1. 0..(Len(keys') - 1) = 0..(n - 1) \cup {n} /\ n \notin 0..(n - 1)
        BY <1>2, <2>2
      <3>2. \A i \in 0..(n - 1) : keys'[i + 1] = keys[i + 1]
        BY <1>2, <2>2
      <3>3. map.hash[keys'[n + 1]] = h
        BY <2>2
      <3> HIDE DEF h, n
      <3>4. Entries(map.hash, keys') = {[hash |-> map.hash[keys'[i + 1]], id |-> i] : i \in 0..(n - 1)}
                                         \cup {[hash |-> h, id |-> n]}
        BY <3>1, <3>3 DEF Entries
      <3>5. {[hash |-> map.hash[keys'[i + 1]], id |-> i] : i \in 0..(n - 1)}
              = {[hash |-> map.hash[keys[i + 1]], id |-> i] : i \in 0..(n - 1)}
        BY <3>2
      <3> QED BY <3>4, <3>5 DEF Entries, n
    <2>5. /\ room' \in Nat /\ room' % BUCKET = 0 /\ n + 1 <= room' /\ room <= room'
          /\ indexed' \in Nat /\ indexed' % BUCKET = 0 /\ room' <= indexed'
      <3>1. BUCKET \in Nat \ {0}
        BY Capacities
      <3>2. CASE n < room
        BY <1>2, <1>6, <1>w, <3>2
      <3>3. CASE ~(n < room)
        <4>1. n = room /\ room' = room + BUCKET /\ indexed' = wider
          BY <1>2, <1>6, <3>3
        <4>2. /\ room + BUCKET <= wider /\ (room + BUCKET) % BUCKET = 0
              /\ wider \in Nat /\ wider % BUCKET = 0
          BY <1>w, <4>1
        <4>3. room' % BUCKET = 0 /\ room' <= indexed'
          BY <4>1, <4>2
        <4>4. room + BUCKET \in Nat /\ room + 1 <= room + BUCKET /\ room <= room + BUCKET
          BY <1>2, <3>1
        <4> HIDE DEF n
        <4> QED BY <4>1, <4>2, <4>3, <4>4
      <3> QED BY <3>2, <3>3
    <2>11. n < promised => UNCHANGED <<room, indexed>>
      BY <1>2, <1>6, <1>w
    <2> HIDE DEF n, c, h
    <2>6. MapOK'
      <3>1. c \in {0} \cup {2^e : e \in 2..28} /\ c \in Nat
        BY <1>1, Capacities
      <3>2. map' \in [hash : HashFunctions \cup {NULL}, key_size : Nat, capacity : Nat,
                      slots : {map'.slots}]
        BY <2>1, <3>1 DEF IInv, MapOK
      <3> QED BY <1>1, <2>1, <3>1, <3>2 DEF IInv, MapOK, is_ready
    <2>7. KeysOK'
      <3>1. n + 1 <= load_limit(c)
        BY <1>2, <1>3 DEF n, c
      <3> QED BY <1>2, <2>1, <2>2, <2>5, <3>1 DEF KeysOK
    <2>8. TableOK'
      BY <2>1, <2>3, <2>4 DEF TableOK
    <2>9. PromiseOK'
      <3>1. promised' = promised /\ promised <= room' /\ promised <= load_limit(c)
        BY <1>2, <1>3, <1>6, <2>5
      <3> QED BY <1>2, <2>1, <3>1 DEF PromiseOK
    <2>10. answer'.kind = "INSERTED" /\ map'.capacity = m.capacity
      BY <1>6, <2>1 DEF Answer, c
    <2> QED BY <2>6, <2>7, <2>8, <2>9, <2>10, <2>11 DEF IInv, n
  <1>7. CASE is_index_due /\ map' = m /\ UNCHANGED <<keys, room, promised>> /\ indexed' = indexed
    BY <1>5, <1>7 DEF is_index_due
  <1>8. CASE n = room /\ map' = m /\ UNCHANGED <<keys, room, promised>> /\ indexed' = wider
    BY <1>5, <1>8
  <1> HIDE DEF c, h
  <1> QED BY <1>6, <1>7, <1>8 DEF store, not_stored, wider, c, h

-----------------------------------------------------------------------------
(* Every call keeps the invariant.                                         *)

\* With the map as it was, buckets may come and a promise may be made good.
LEMMA SameMap ==
  ASSUME IInv, map' = map, keys' = keys,
         room' \in Nat, room' % BUCKET = 0, room <= room',
         indexed' \in Nat, indexed' % BUCKET = 0, room' <= indexed',
         promised' \in Nat, promised' <= room', promised' <= load_limit(map.capacity),
         is_ready \/ room' = room
  PROVE  IInv'
  <1>1. Len(keys) \in Nat /\ room \in Nat /\ Len(keys) <= room'
    BY DEF IInv, KeysOK
  <1>2. KeysOK'
    BY <1>1 DEF IInv, KeysOK
  <1>3. MapOK' /\ TableOK'
    BY DEF IInv, MapOK, TableOK, is_ready
  <1> QED BY <1>2, <1>3 DEF IInv, PromiseOK

\* A refused call changes nothing.
LEMMA Unchanged ==
  ASSUME IInv, UNCHANGED mapVars
  PROVE  IInv'
  BY DEF IInv, MapOK, KeysOK, TableOK, PromiseOK, mapVars

\* The map without a key, over a table of the capacity it names.
LEMMA Emptied ==
  ASSUME map' \in [hash : HashFunctions \cup {NULL}, key_size : Nat, capacity : Nat,
                   slots : {map'.slots}],
         map'.capacity \in {0} \cup {2^e : e \in 2..28},
         map'.capacity <= ARNM_KEY_MAP_MAX_CAPACITY,
         map'.slots = table_of(map'.capacity),
         map'.hash = NULL => map'.capacity = 0 /\ room' = 0,
         keys' = << >>, room' \in Nat, room' % BUCKET = 0,
         indexed' \in Nat, indexed' % BUCKET = 0, room' <= indexed',
         promised' \in Nat, promised' <= room', promised' <= load_limit(map'.capacity)
  PROVE  IInv'
  <1>1. Filed(map'.slots, map'.capacity) /\ Records(map'.slots) = {}
    <2> DEFINE c == map'.capacity
    <2>1. c \in Nat /\ map'.slots = table_of(c)
      OBVIOUS
    <2> HIDE DEF c
    <2>2. Filed(table_of(c), c) /\ Records(table_of(c)) = {}
      BY <2>1, FreshTable
    <2> QED BY <2>1, <2>2 DEF c
  <1>2. Len(keys') = 0 /\ keys' \in Seq(Keys) /\ IsInjective(keys')
    BY DEF IsInjective
  <1>3. Entries(map'.hash, keys') = {}
    BY <1>2 DEF Entries
  <1>4. 0 <= load_limit(map'.capacity)
    BY DEF load_limit
  <1>5. KeysOK'
    BY <1>2, <1>4 DEF KeysOK
  <1>6. TableOK'
    BY <1>1, <1>3 DEF TableOK
  <1> QED BY <1>5, <1>6 DEF IInv, MapOK, PromiseOK

\* Before init there is nothing to be wrong.
LEMMA InvInit == Init => IInv
  <1> SUFFICES ASSUME Init PROVE IInv
    OBVIOUS
  <1>1. 0 \in Nat /\ Filed(table_of(0), 0) /\ Records(table_of(0)) = {}
    BY FreshTable
  <1>2. /\ map.hash = NULL /\ map.key_size = 0 /\ map.capacity = 0 /\ map.slots = table_of(0)
        /\ map \in [hash : HashFunctions \cup {NULL}, key_size : Nat, capacity : Nat,
                    slots : {map.slots}]
        /\ keys = << >> /\ room = 0 /\ indexed = 0 /\ promised = 0 /\ Len(keys) = 0
    BY DEF Init, EmptyMap
  <1>3. 0 % BUCKET = 0
    <2>1. BUCKET \in Nat \ {0}
      BY Capacities
    <2>2. (BUCKET * 0 + 0) % BUCKET = 0 /\ BUCKET * 0 + 0 = 0
      BY <2>1
    <2> QED BY <2>2
  <1>4. MapOK
    BY <1>2, Capacities, PowersDouble DEF MapOK
  <1>5. KeysOK
    <2>1. IsInjective(keys) /\ keys \in Seq(Keys)
      BY <1>2 DEF IsInjective
    <2> QED BY <1>2, <1>3, <2>1 DEF KeysOK, load_limit
  <1>6. TableOK
    BY <1>1, <1>2 DEF TableOK, Entries
  <1> QED BY <1>2, <1>4, <1>5, <1>6 DEF IInv, PromiseOK, load_limit

\* The number of buckets for a count of keys, in keys.
LEMMA Rounded ==
  ASSUME NEW n \in Nat
  PROVE  /\ rounded_to_buckets(n) \in Nat /\ n <= rounded_to_buckets(n)
         /\ rounded_to_buckets(n) % BUCKET = 0
  <1> DEFINE b == BUCKET
             q == (n + b - 1) \div b
             r == (n + b - 1) % b
  <1>0. b \in Nat \ {0}
    BY Capacities
  <1>1. /\ q \in Nat /\ r \in 0..(b - 1) /\ n + b - 1 = b * q + r
    <2> HIDE DEF b
    <2>1. n + b - 1 \in Nat
      BY <1>0
    <2> DEFINE x == n + b - 1
    <2> HIDE DEF x
    <2>2. x \in Nat => x \div b \in Nat /\ x % b \in 0..(b - 1) /\ x = (b * (x \div b)) + (x % b)
      BY <1>0
    <2> QED BY <2>1, <2>2 DEF x
  <1>2. rounded_to_buckets(n) = q * b
    BY DEF rounded_to_buckets
  <1> HIDE DEF q, r, b
  <1>3. q * b = b * q /\ b * q \in Nat
    BY <1>0, <1>1
  <1>4. n <= b * q
    BY <1>0, <1>1, <1>3
  <1>5. (b * q + 0) % b = 0 /\ b * q + 0 = b * q
    BY <1>0, <1>1
  <1> QED BY <1>2, <1>3, <1>4, <1>5 DEF b

\* Init keeps it: it starts an empty map, or changes nothing.
LEMMA InvInitMap ==
  ASSUME IInv, init_map
  PROVE  IInv'
  <1>1. CASE Refuse(NOBODY, INVALID_PARAM)
    BY <1>1, Unchanged DEF Refuse
  <1>2. CASE /\ \E f \in HashFunctions, size \in KeySizes : map' = EmptyMap(f, size)
             /\ keys' = << >> /\ promised' = 0
             /\ answer' = Answer(NOBODY, "DONE", 0)
             /\ UNCHANGED <<room, indexed>>
    <2>1. PICK f \in HashFunctions, size \in KeySizes : map' = EmptyMap(f, size)
      BY <1>2
    <2>2. size \in Nat
      BY KeyMapAssumption
    <2>3. /\ map'.hash = f /\ map'.key_size = size /\ map'.capacity = 0
          /\ map'.slots = table_of(map'.capacity)
          /\ map' \in [hash : HashFunctions \cup {NULL}, key_size : Nat, capacity : Nat,
                       slots : {map'.slots}]
      BY <2>1, <2>2 DEF EmptyMap
    <2>4. /\ room' = 0 /\ room % BUCKET = 0 /\ indexed' = 0 /\ indexed % BUCKET = 0
          /\ keys' = << >> /\ promised' = 0
      BY <1>2 DEF init_map, IInv, KeysOK
    <2>5. 0 <= ARNM_KEY_MAP_MAX_CAPACITY /\ load_limit(0) = 0
      BY Capacities, PowersDouble DEF load_limit
    <2>6. /\ room' = 0 /\ room' % BUCKET = 0 /\ promised' <= room'
          /\ indexed' = 0 /\ indexed' % BUCKET = 0 /\ room' <= indexed'
          /\ promised' <= load_limit(map'.capacity)
      BY <1>2, <2>2, <2>3, <2>4, <2>5 DEF init_map
    <2> QED BY <2>2, <2>3, <2>4, <2>5, <2>6, Emptied
  <1> QED BY <1>1, <1>2 DEF init_map

\* Reserve keeps it, and keeps what it grants.
LEMMA InvReserve ==
  ASSUME IInv, NEW n \in Counts, arnm_key_map_reserve(n)
  PROVE  /\ IInv'
         /\ keys' = keys /\ \E r \in Refusals \cup {"DONE"} : answer' = Answer(NOBODY, r, 0)
  <1> DEFINE rounded == rounded_to_buckets(n)
             wanted == IF rounded > room THEN rounded ELSE room
             wider == IF rounded > indexed THEN rounded ELSE indexed
             c == capacity_for(n)
  <1>0. n \in Nat
    BY KeyMapAssumption
  <1>1. /\ room \in Nat /\ room % BUCKET = 0 /\ room <= indexed
        /\ indexed \in Nat /\ indexed % BUCKET = 0
        /\ promised \in Nat /\ promised <= room /\ promised <= load_limit(map.capacity)
        /\ map.capacity \in Nat
    BY DEF IInv, MapOK, KeysOK, PromiseOK
  <1>2. rounded \in Nat /\ n <= rounded /\ rounded % BUCKET = 0
    BY <1>0, Rounded
  <1>3. ASSUME NEW r \in Refusals, Refuse(NOBODY, r)
        PROVE  IInv' /\ keys' = keys /\ answer' = Answer(NOBODY, r, 0)
    BY <1>3, Unchanged DEF Refuse, mapVars
  <1>4. CASE /\ is_ready /\ n <= ARNM_KEY_MAP_MAX_KEYS
             /\ \/ /\ wanted > room
                   /\ room' \in {r \in room..(wanted - 1) : r % BUCKET = 0}
                   /\ indexed' = wider
                   /\ answer' = Answer(NOBODY, OUT_OF_MEMORY, 0)
                   /\ UNCHANGED <<map, keys, promised>>
                \/ /\ c > map.capacity
                   /\ room' = wanted
                   /\ indexed' = wider
                   /\ answer' = Answer(NOBODY, OUT_OF_MEMORY, 0)
                   /\ UNCHANGED <<map, keys, promised>>
                \/ /\ map' = (IF c > map.capacity THEN with_table(c) ELSE map)
                   /\ room' = wanted /\ indexed' = wider
                   /\ promised' = (IF n > promised THEN n ELSE promised)
                   /\ answer' = Answer(NOBODY, "DONE", 0)
                   /\ UNCHANGED keys
    <2> HIDE DEF rounded, c
    <2>1. /\ wanted \in Nat /\ wanted % BUCKET = 0 /\ room <= wanted /\ n <= wanted
          /\ wider \in Nat /\ wider % BUCKET = 0 /\ wanted <= wider
      BY <1>0, <1>1, <1>2, <1>4
    <2> HIDE DEF wanted, wider
    <2>2. CASE /\ wanted > room
               /\ room' \in {r \in room..(wanted - 1) : r % BUCKET = 0}
               /\ indexed' = wider
               /\ answer' = Answer(NOBODY, OUT_OF_MEMORY, 0)
               /\ UNCHANGED <<map, keys, promised>>
      <3>1. /\ room' \in Nat /\ room' % BUCKET = 0 /\ room <= room'
            /\ indexed' \in Nat /\ indexed' % BUCKET = 0 /\ room' <= indexed'
            /\ promised' = promised /\ promised <= room' /\ map' = map /\ keys' = keys
        BY <1>1, <2>1, <2>2
      <3>2. IInv'
        BY <1>1, <1>4, <3>1, SameMap
      <3> QED BY <2>2, <3>1, <3>2 DEF Refusals
    <2>3. CASE /\ room' = wanted
               /\ indexed' = wider
               /\ answer' = Answer(NOBODY, OUT_OF_MEMORY, 0)
               /\ UNCHANGED <<map, keys, promised>>
      <3>1. /\ room' \in Nat /\ room' % BUCKET = 0 /\ room <= room'
            /\ indexed' \in Nat /\ indexed' % BUCKET = 0 /\ room' <= indexed'
            /\ promised' = promised /\ promised <= room' /\ map' = map /\ keys' = keys
        BY <1>1, <2>1, <2>3
      <3>2. IInv'
        BY <1>1, <1>4, <3>1, SameMap
      <3> QED BY <2>3, <3>1, <3>2 DEF Refusals
    <2>4. CASE /\ map' = (IF c > map.capacity THEN with_table(c) ELSE map)
               /\ room' = wanted /\ indexed' = wider
               /\ promised' = (IF n > promised THEN n ELSE promised)
               /\ answer' = Answer(NOBODY, "DONE", 0)
               /\ UNCHANGED keys
      <3>1. /\ c \in Powers /\ c <= ARNM_KEY_MAP_MAX_CAPACITY /\ n <= load_limit(c) /\ c \in Nat
        BY <1>0, <1>4, CapacityFor, PowersDouble DEF c
      <3>2. /\ room' \in Nat /\ room' % BUCKET = 0 /\ room <= room'
            /\ indexed' \in Nat /\ indexed' % BUCKET = 0 /\ room' <= indexed'
            /\ promised' \in Nat /\ promised' <= room'
        BY <1>0, <1>1, <2>1, <2>4
      <3>3. CASE c > map.capacity
        <4>1. map' = with_table(c) /\ map.capacity < c
          BY <1>1, <2>4, <3>1, <3>3
        <4>2. Carries(with_table(c)) /\ with_table(c).capacity = c
          BY <3>1, <4>1, Grown
        <4>3. Carries(map')
          <5>1. map' = with_table(c)
            BY <4>1
          <5> HIDE DEF with_table
          <5>2. /\ map' \in [hash : {map.hash}, key_size : {map.key_size}, capacity : Powers,
                             slots : {map'.slots}]
                /\ map'.capacity <= ARNM_KEY_MAP_MAX_CAPACITY /\ map.capacity <= map'.capacity
                /\ Filed(map'.slots, map'.capacity)
                /\ Records(map'.slots) = Entries(map.hash, keys)
            BY <4>2, <5>1 DEF Carries
          <5> QED BY <5>2 DEF Carries
        <4>4. load_limit(map.capacity) <= load_limit(c)
          BY <1>1, <3>1, <4>1 DEF load_limit
        <4>5. promised' <= load_limit(map'.capacity)
          <5>1. load_limit(map.capacity) \in Int /\ load_limit(c) \in Int
            BY <1>1, <3>1 DEF load_limit
          <5>2. promised <= load_limit(c)
            BY <1>1, <4>4, <5>1
          <5>3. promised' <= load_limit(c)
            BY <2>4, <3>1, <5>2
          <5> QED BY <4>1, <4>2, <5>3
        <4>6. IInv'
          BY <1>4, <2>4, <3>2, <4>3, <4>5, CarriesOn
        <4> QED BY <2>4, <4>6
      <3>4. CASE ~(c > map.capacity)
        <4>1. map' = map /\ keys' = keys
          BY <2>4, <3>4
        <4>2. load_limit(c) <= load_limit(map.capacity)
          BY <1>1, <3>1, <3>4 DEF load_limit
        <4>3. promised' <= load_limit(map.capacity)
          <5>1. load_limit(map.capacity) \in Int /\ load_limit(c) \in Int
            BY <1>1, <3>1 DEF load_limit
          <5> QED BY <1>0, <1>1, <2>4, <3>1, <4>2, <5>1
        <4>4. IInv'
          BY <1>4, <3>2, <4>1, <4>3, SameMap
        <4> QED BY <2>4, <4>4
      <3> QED BY <3>3, <3>4
    <2> QED BY <1>4, <2>2, <2>3, <2>4
  <1>5. CASE \E r \in Refusals : Refuse(NOBODY, r)
    BY <1>3, <1>5
  <1>6. /\ INVALID_PARAM \in Refusals /\ INVALID_STATE \in Refusals
        /\ OVERFLOW \in Refusals /\ OUT_OF_MEMORY \in Refusals
    BY DEF Refusals
  <1> HIDE DEF rounded, c
  <1> QED BY <1>4, <1>5, <1>6 DEF arnm_key_map_reserve, larger, rounded, c

\* Clear keeps the table and the promise, and forgets every key.
LEMMA InvClear ==
  ASSUME IInv, arnm_key_map_clear
  PROVE  IInv'
  <1>1. /\ map' = clear_slots /\ keys' = << >> /\ room' = room /\ indexed' = indexed
        /\ promised' = promised
    BY DEF arnm_key_map_clear
  <1>2. /\ map'.hash = map.hash /\ map'.key_size = map.key_size /\ map'.capacity = map.capacity
        /\ map'.slots = table_of(map'.capacity)
        /\ map' \in [hash : HashFunctions \cup {NULL}, key_size : Nat, capacity : Nat,
                     slots : {map'.slots}]
    BY <1>1 DEF clear_slots, IInv, MapOK
  <1> QED BY <1>1, <1>2, Emptied DEF IInv, MapOK, KeysOK, PromiseOK

\* Free keeps only what init was given.
LEMMA InvFree ==
  ASSUME IInv, arnm_key_map_free
  PROVE  IInv'
  <1>1. /\ map' = EmptyMap(map.hash, map.key_size) /\ keys' = << >> /\ room' = 0
        /\ indexed' = 0 /\ promised' = 0
    BY DEF arnm_key_map_free
  <1>2. /\ map'.hash = map.hash /\ map'.key_size = map.key_size /\ map'.capacity = 0
        /\ map'.slots = table_of(map'.capacity)
        /\ map' \in [hash : HashFunctions \cup {NULL}, key_size : Nat, capacity : Nat,
                     slots : {map'.slots}]
    BY <1>1 DEF EmptyMap, IInv, MapOK
  <1>3. 0 <= ARNM_KEY_MAP_MAX_CAPACITY /\ load_limit(0) = 0
    BY Capacities, PowersDouble DEF load_limit
  <1>4. 0 % BUCKET = 0
    <2>1. BUCKET \in Nat \ {0}
      BY Capacities
    <2>2. (BUCKET * 0 + 0) % BUCKET = 0 /\ BUCKET * 0 + 0 = 0
      BY <2>1
    <2> QED BY <2>2
  <1>5. /\ room' \in Nat /\ room' % BUCKET = 0
        /\ indexed' \in Nat /\ indexed' % BUCKET = 0 /\ room' <= indexed'
        /\ promised' \in Nat /\ promised' <= room' /\ promised' <= load_limit(map'.capacity)
    BY <1>1, <1>2, <1>3, <1>4
  <1> QED BY <1>1, <1>2, <1>3, <1>5, Emptied

\* A call about a key that is not refused room and takes none.
TakesNothing ==
  /\ answer'.kind \notin {OVERFLOW, OUT_OF_MEMORY}
  /\ map'.capacity = map.capacity
  /\ UNCHANGED <<room, indexed>>

\* A new key, over a table that grew for it or one with room: the invariant, and
\* a key that a reserve was granted for takes nothing.
LEMMA InsertAbsent ==
  ASSUME IInv, is_ready, NEW k \in Keys, k \notin Range(keys),
         insert_absent(k, IF map.capacity = 0 THEN 0 ELSE arnm_key_map_probe(k))
  PROVE  IInv' /\ (Len(keys) < promised => TakesNothing)
  <1> DEFINE c == map.capacity
             doubled == IF c = 0 THEN MIN_CAPACITY ELSE 2 * c
             is_due == Len(keys) >= load_limit(c)
  <1>1. /\ c \in Nat /\ (c = 0 \/ c \in Powers) /\ c <= ARNM_KEY_MAP_MAX_CAPACITY
        /\ Len(keys) \in Nat /\ Len(keys) <= load_limit(c) /\ load_limit(c) \in Int
    BY Capacities DEF IInv, MapOK, KeysOK, load_limit
  <1>2. is_due => ~(Len(keys) < promised)
    <2>1. promised \in Nat /\ promised <= load_limit(c)
      BY DEF IInv, PromiseOK
    <2> QED BY <1>1, <2>1
  <1>3. CASE is_due /\ (Refuse(k, OVERFLOW) \/ Refuse(k, OUT_OF_MEMORY))
    BY <1>2, <1>3, Unchanged DEF Refuse
  <1>4. CASE /\ is_due /\ ~at_max_capacity
             /\ store(k, with_table(doubled),
                      first_free(rebuilt(doubled), doubled, map.hash[k]))
    <2>1. doubled \in Powers /\ doubled <= ARNM_KEY_MAP_MAX_CAPACITY /\ c < doubled
      <3>1. CASE c = 0
        BY <3>1, Capacities, PowersDouble
      <3>2. CASE c # 0
        <4>1. c \in Powers /\ c < ARNM_KEY_MAP_MAX_CAPACITY
          BY <1>1, <1>4, <3>2, Capacities, PowersDouble DEF at_max_capacity
        <4>2. c \in Nat /\ c >= 4 /\ 2 * c \in Powers /\ 2 * c <= ARNM_KEY_MAP_MAX_CAPACITY
          BY <4>1, Capacities, PowersDouble
        <4> QED BY <3>2, <4>2
      <3> QED BY <3>1, <3>2
    <2>2. Len(keys) < load_limit(doubled)
      <3>1. load_limit(c) < load_limit(doubled)
        <4>1. CASE c = 0
          BY <2>1, <4>1, PowersDouble DEF load_limit
        <4>2. CASE c # 0
          BY <1>1, <2>1, <4>2, PowersDouble DEF load_limit
        <4> QED BY <4>1, <4>2
      <3>2. load_limit(doubled) \in Int
        BY <2>1, PowersDouble DEF load_limit
      <3> QED BY <1>1, <3>1, <3>2
    <2>3. is_due /\ store(k, with_table(doubled),
                          first_free(rebuilt(doubled), doubled, map.hash[k]))
      BY <1>4
    <2> HIDE DEF doubled
    <2>4. /\ Carries(with_table(doubled)) /\ with_table(doubled).capacity = doubled
          /\ with_table(doubled).slots = rebuilt(doubled)
      BY <2>1, Grown
    <2> DEFINE m == with_table(doubled)
    <2>5. store(k, m, first_free(m.slots, m.capacity, map.hash[k]))
      <3> HIDE DEF m
      <3>1. store(k, m, first_free(rebuilt(doubled), doubled, map.hash[k]))
        BY <2>3 DEF m
      <3>2. m.slots = rebuilt(doubled) /\ m.capacity = doubled
        BY <2>4 DEF m
      <3> QED BY <3>1, <3>2, Zenon
    <2>6. Carries(m) /\ Len(keys) < load_limit(m.capacity)
      BY <2>2, <2>4
    <2> HIDE DEF m
    <2>7. IInv'
      BY <2>5, <2>6, Stored
    <2> QED BY <1>2, <2>3, <2>7
  <1>5. CASE ~is_due /\ store(k, map, IF map.capacity = 0 THEN 0 ELSE arnm_key_map_probe(k))
    <2>1. c # 0 /\ Len(keys) < load_limit(c)
      BY <1>1, <1>5 DEF load_limit
    <2>2. arnm_key_map_probe(k) = first_free(map.slots, map.capacity, map.hash[k])
      BY <2>1, Probe
    <2>3. Carries(map)
      BY <2>1, CarriesItself
    <2>4. store(k, map, first_free(map.slots, map.capacity, map.hash[k]))
      <3>1. store(k, map, arnm_key_map_probe(k))
        BY <1>5, <2>1
      <3> QED BY <2>2, <3>1, Zenon
    <2>5. /\ IInv'
          /\ Len(keys) < promised => /\ answer'.kind = "INSERTED"
                                     /\ map'.capacity = map.capacity
                                     /\ UNCHANGED <<room, indexed>>
      BY <2>1, <2>3, <2>4, Stored
    <2> QED BY <2>5 DEF TakesNothing, OVERFLOW, OUT_OF_MEMORY
  <1> QED BY <1>3, <1>4, <1>5 DEF insert_absent

\* Every call keeps the invariant, and a call about a key takes nothing as long as
\* a promise covers the next key.
LEMMA InvCall ==
  ASSUME IInv, Next
  PROVE  /\ IInv'
         /\ answer'.key \in Keys /\ Len(keys) < promised => TakesNothing
  <1>0. \A r : Answer(NOBODY, r, 0).key \notin Keys
    BY KeyMapAssumption DEF Answer
  <1>1. CASE init_map
    <2>1. IInv'
      BY <1>1, InvInitMap
    <2>2. answer'.key \notin Keys
      BY <1>0, <1>1 DEF init_map, Refuse
    <2> QED BY <2>1, <2>2
  <1>2. ASSUME NEW n \in Counts, arnm_key_map_reserve(n)
        PROVE  IInv' /\ answer'.key \notin Keys
    BY <1>0, <1>2, InvReserve
  <1>3. CASE arnm_key_map_clear
    <2>1. IInv'
      BY <1>3, InvClear
    <2>2. answer'.key \notin Keys
      BY <1>0, <1>3 DEF arnm_key_map_clear
    <2> QED BY <2>1, <2>2
  <1>4. CASE arnm_key_map_free
    <2>1. IInv'
      BY <1>4, InvFree
    <2>2. answer'.key \notin Keys
      BY <1>0, <1>4 DEF arnm_key_map_free
    <2> QED BY <2>1, <2>2
  <1>k. ASSUME NEW k \in Keys, UNCHANGED mapVars, NEW id,
               \/ answer' = Answer(k, INVALID_STATE, 0)
               \/ answer' = Answer(k, "FOUND", id)
               \/ answer' = Answer(k, "ABSENT", 0)
        PROVE  IInv' /\ TakesNothing
    <2>1. answer'.kind \notin {OVERFLOW, OUT_OF_MEMORY}
      BY <1>k DEF Answer, INVALID_STATE, OVERFLOW, OUT_OF_MEMORY
    <2> QED BY <1>k, <2>1, Unchanged DEF TakesNothing, mapVars
  <1>5. ASSUME NEW k \in Keys, arnm_key_map_get_or_insert(k)
        PROVE  IInv' /\ (Len(keys) < promised => TakesNothing)
    <2>1. CASE Refuse(k, INVALID_STATE)
      BY <1>k, <2>1 DEF Refuse
    <2>2. CASE /\ answer' = Answer(k, "FOUND", map.slots[arnm_key_map_probe(k)].id)
               /\ UNCHANGED mapVars
      BY <1>k, <2>2
    <2>3. CASE /\ is_ready /\ ~has_key(k)
               /\ insert_absent(k, IF map.capacity = 0 THEN 0 ELSE arnm_key_map_probe(k))
      <3>1. k \notin Range(keys)
        BY <2>3, HasKey
      <3> QED BY <2>3, <3>1, InsertAbsent
    <2> QED BY <1>5, <2>1, <2>2, <2>3 DEF arnm_key_map_get_or_insert
  <1>6. ASSUME NEW k \in Keys, arnm_key_map_find(k)
        PROVE  IInv' /\ TakesNothing
    BY <1>6, <1>k DEF arnm_key_map_find
  <1> QED BY <1>1, <1>2, <1>3, <1>4, <1>5, <1>6 DEF Next

\* So does a step in which nothing happens.
LEMMA InvNext ==
  ASSUME IInv, [Next]_vars
  PROVE  IInv'
  <1>1. CASE Next
    BY <1>1, InvCall
  <1>2. CASE UNCHANGED vars
    BY <1>2, Unchanged DEF vars, mapVars
  <1> QED BY <1>1, <1>2

-----------------------------------------------------------------------------
(* What the runs check, for every key set, hash and size.                  *)

\* The invariant says what the run checks of every state.
LEMMA Reachable ==
  ASSUME IInv
  PROVE  SlotsReachable
  <1> DEFINE c == map.capacity
             s == map.slots
  <1>1. /\ DOMAIN s = 0..(c - 1) /\ Filed(s, c) /\ c \in Nat
        /\ \A i \in Used(s) : s[i].hash \in Nat
    <2>1. Filed(s, c) /\ c \in Nat
      BY DEF IInv, MapOK, TableOK
    <2>2. s \in [0..(c - 1) -> [hash : 0..UINT32_MAX, id : Nat \cup {EMPTY_ID}]]
      BY <2>1 DEF Filed, Slots
    <2> HIDE DEF s, c
    <2>3. \A i \in Used(s) : s[i].hash \in Nat
      BY <2>2, WidthAssumption DEF Used
    <2> QED BY <2>1, <2>2, <2>3
  <1>2. \A i \in DOMAIN s : i \in Used(s) <=> s[i].id # EMPTY_ID
    BY DEF Used
  <1>3. \A i \in Used(s) : s[i].id \in 0..(Len(keys) - 1)
    BY SlotsName
  <1>4. TypeOK
    BY <1>1, <1>2, <1>3 DEF TypeOK, IInv, MapOK, KeysOK, Filed
  <1>5. AlwaysAFreeSlot
    <2>1. SUFFICES ASSUME c # 0 PROVE \E i \in DOMAIN s : s[i].id = EMPTY_ID
      BY DEF AlwaysAFreeSlot
    <2>2. free_slots(s) # {}
      BY <2>1, WalksEnd
    <2> QED BY <2>2 DEF free_slots
  <1>6. ASSUME NEW id \in 0..(Len(keys) - 1)
        PROVE  \E i \in DOMAIN s : s[i].id = id /\ s[i].hash = map.hash[keys[id + 1]]
    <2>1. \E i \in Used(s) : s[i].id = id /\ s[i].hash = map.hash[keys[id + 1]]
      BY KeyHasSlot
    <2> QED BY <2>1 DEF Used
  <1>7. \A i, j \in DOMAIN s : i # j /\ s[i].id # EMPTY_ID => s[i].id # s[j].id
    BY <1>1, <1>2 DEF Filed
  <1>8. \A i \in DOMAIN s : s[i].id # EMPTY_ID =>
          \E d \in 0..(c - 1) : /\ (s[i].hash + d) % c = i
                                /\ \A e \in 0..d : s[(s[i].hash + e) % c].id # EMPTY_ID
    <2>1. \A i \in Used(s) : Reached(s, c, i)
      BY <1>1 DEF Filed
    <2> QED BY <1>2, <2>1 DEF Reached
  <1> QED BY <1>4, <1>5, <1>6, <1>7, <1>8 DEF SlotsReachable

\* IInv holds in every state of the specification.
THEOREM Inductive == Spec => []IInv
  <1>1. IInv /\ [Next]_vars => IInv'
    BY InvNext
  <1> QED BY <1>1, InvInit, PTL DEF Spec

\* Every key is filed once, under its hash, where a probe arrives, and a slot
\* stays free for the probes to end on: after any inserts, growth and refusals
\* (arnm_key_map_probe, arnm_key_map_rebuild, insert_absent).
THEOREM KeysReachable == Spec => []SlotsReachable
  <1>1. IInv => SlotsReachable
    BY Reachable
  <1> QED BY <1>1, Inductive, PTL

\* What arnm_key_map_reserve granted stays granted until free, and is as good as
\* it reads: below the promised count arnm_key_map_get_or_insert refuses no key for
\* want of room, and takes neither a bucket, nor a slot of the index, nor a larger
\* table (insert_absent, arnm_bvec_grow).
THEOREM PromisesKept == Spec => RoomAsPromised
  <1> DEFINE Kept == /\ ReserveHolds'
                     /\ answer'.key \in Keys /\ Len(keys) < promised =>
                          /\ answer'.kind \notin {OVERFLOW, OUT_OF_MEMORY}
                          /\ map'.capacity = map.capacity
                          /\ UNCHANGED <<room, indexed>>
  <1>1. IInv /\ [Next]_vars => [Kept]_vars
    <2>1. SUFFICES ASSUME IInv, Next PROVE Kept
      OBVIOUS
    <2>2. ReserveHolds'
      BY <2>1, InvNext DEF IInv, PromiseOK, ReserveHolds
    <2>3. answer'.key \in Keys /\ Len(keys) < promised => TakesNothing
      BY <2>1, InvCall
    <2> QED BY <2>2, <2>3 DEF TakesNothing
  <1> QED BY <1>1, Inductive, PTL DEF Spec, RoomAsPromised

-----------------------------------------------------------------------------
(* The map implements KeyIds.                                              *)

\* The id of a key is the one place the key has.
LEMMA IdIs ==
  ASSUME IInv, NEW id \in 0..(Len(keys) - 1)
  PROVE  keys[id + 1] \in Abstract!Held /\ Abstract!IdOf(keys[id + 1]) = id
  <1>1. DOMAIN keys = 1..Len(keys) /\ IsInjective(keys) /\ Len(keys) \in Nat
    BY DEF IInv, KeysOK
  <1>2. id + 1 \in DOMAIN keys
    BY <1>1
  <1>3. \A i, j \in DOMAIN keys : keys[i] = keys[j] => i = j
    BY <1>1 DEF IsInjective
  <1> DEFINE p == CHOOSE i \in DOMAIN keys : keys[i] = keys[id + 1]
  <1>4. p \in DOMAIN keys /\ keys[p] = keys[id + 1]
    BY <1>2
  <1> HIDE DEF p
  <1>5. p = id + 1
    BY <1>2, <1>3, <1>4
  <1>6. p - 1 = id
    BY <1>5
  <1>7. Abstract!IdOf(keys[id + 1]) = p - 1
    BY DEF Abstract!IdOf, p
  <1>8. keys[id + 1] \in Abstract!Held
    BY <1>2 DEF Abstract!Held
  <1> QED BY <1>6, <1>7, <1>8

\* Each call does to the ids what KeyIds says, or leaves them alone.
LEMMA StepRefines ==
  ASSUME IInv, [Next]_vars
  PROVE  [Abstract!Next]_<<keys, answer>>
  <1>0. Abstract!Held = Range(keys)
    BY DEF Abstract!Held, Range
  <1>1. \A key, kind, id : Abstract!Answer(key, kind, id) = Answer(key, kind, id)
    BY DEF Abstract!Answer, Answer
  <1>2. ASSUME answer' \in {Answer(NOBODY, r, 0) : r \in Refusals \cup {"DONE"}},
               keys' = keys \/ keys' = << >>
        PROVE  Abstract!Next
    BY <1>1, <1>2 DEF Abstract!Next, Abstract!Manage, Abstract!Quiet
  <1>3. ASSUME NEW r \in Refusals, Refuse(NOBODY, r) PROVE Abstract!Next
    BY <1>2, <1>3 DEF Refuse, mapVars
  <1>4. CASE init_map
    BY <1>2, <1>3, <1>4 DEF init_map, Refusals
  <1>5. ASSUME NEW n \in Counts, arnm_key_map_reserve(n) PROVE Abstract!Next
    BY <1>2, <1>5, InvReserve
  <1>6. CASE arnm_key_map_clear
    BY <1>2, <1>6 DEF arnm_key_map_clear
  <1>7. CASE arnm_key_map_free
    BY <1>2, <1>7 DEF arnm_key_map_free
  <1>8. ASSUME NEW k \in Keys, NEW r \in Refusals, k \notin Range(keys),
               answer' = Answer(k, r, 0), keys' = keys
        PROVE  Abstract!Next
    BY <1>0, <1>1, <1>8 DEF Abstract!Next, Abstract!Insert
  <1>9. ASSUME NEW k \in Keys, k \notin Range(keys),
               answer' = Answer(k, "INSERTED", Len(keys)), keys' = Append(keys, k)
        PROVE  Abstract!Next
    BY <1>0, <1>1, <1>9 DEF Abstract!Next, Abstract!Insert
  <1>10. ASSUME NEW k \in Keys, k \notin Range(keys), NEW m, NEW i, store(k, m, i)
         PROVE  Abstract!Next
    BY <1>8, <1>9, <1>10 DEF store, not_stored, Refusals
  <1>11. ASSUME NEW k \in Keys, arnm_key_map_get_or_insert(k) PROVE Abstract!Next
    <2>1. CASE ~is_ready /\ Refuse(k, INVALID_STATE)
      <3>1. k \notin Range(keys)
        <4>1. map.capacity = 0
          BY <2>1 DEF is_ready, IInv, MapOK
        <4> QED BY <4>1, HasKey DEF has_key
      <3> QED BY <1>8, <2>1, <3>1 DEF Refuse, mapVars, Refusals
    <2>2. CASE /\ has_key(k)
               /\ answer' = Answer(k, "FOUND", map.slots[arnm_key_map_probe(k)].id)
               /\ UNCHANGED mapVars
      <3> DEFINE id == map.slots[arnm_key_map_probe(k)].id
      <3>1. id \in 0..(Len(keys) - 1) /\ keys[id + 1] = k
        BY <2>2, HasKey
      <3>2. answer' = Answer(k, "FOUND", id) /\ keys' = keys
        BY <2>2 DEF mapVars
      <3> HIDE DEF id
      <3>3. k \in Abstract!Held /\ Abstract!IdOf(k) = id
        BY <3>1, IdIs
      <3> QED BY <1>1, <3>2, <3>3 DEF Abstract!Next, Abstract!Insert
    <2>3. CASE /\ ~has_key(k)
               /\ insert_absent(k, IF map.capacity = 0 THEN 0 ELSE arnm_key_map_probe(k))
      <3>1. k \notin Range(keys)
        BY <2>3, HasKey
      <3>2. ASSUME NEW r \in Refusals, Refuse(k, r) PROVE Abstract!Next
        BY <1>8, <3>1, <3>2 DEF Refuse, mapVars
      <3> QED BY <1>10, <2>3, <3>1, <3>2 DEF insert_absent, Refusals
    <2> QED BY <1>11, <2>1, <2>2, <2>3 DEF arnm_key_map_get_or_insert
  <1>12. ASSUME NEW k \in Keys, arnm_key_map_find(k) PROVE Abstract!Next
    <2>1. CASE has_key(k)
      <3> DEFINE id == map.slots[arnm_key_map_probe(k)].id
      <3>1. id \in 0..(Len(keys) - 1) /\ keys[id + 1] = k
        BY <2>1, HasKey
      <3>2. answer' = Answer(k, "FOUND", id) /\ keys' = keys
        BY <1>12, <2>1 DEF arnm_key_map_find, mapVars
      <3> HIDE DEF id
      <3>3. k \in Abstract!Held /\ Abstract!IdOf(k) = id
        BY <3>1, IdIs
      <3> QED BY <1>1, <3>2, <3>3 DEF Abstract!Next, Abstract!Find
    <2>2. CASE ~has_key(k)
      <3>1. k \notin Abstract!Held
        BY <1>0, <2>2, HasKey
      <3>2. answer' = Answer(k, "ABSENT", 0) /\ keys' = keys
        BY <1>12, <2>2 DEF arnm_key_map_find, mapVars
      <3> QED BY <1>1, <3>1, <3>2 DEF Abstract!Next, Abstract!Find
    <2> QED BY <2>1, <2>2
  <1>13. CASE UNCHANGED vars
    BY <1>13 DEF vars, mapVars
  <1> QED BY <1>4, <1>5, <1>6, <1>7, <1>11, <1>12, <1>13 DEF Next

\* First come, first numbered ids: every answer of the map, over collisions,
\* wrapped probes, growth and refusals, is one KeyIds gives
\* (arnm_key_map_get_or_insert, arnm_key_map_find).
THEOREM MapIsKeyIds == Spec => IsKeyIds
  <1>1. Init => Abstract!Init
    BY DEF Init, Abstract!Init, Abstract!Quiet, Abstract!Answer, Answer
  <1>2. IInv /\ [Next]_vars => [Abstract!Next]_<<keys, answer>>
    BY StepRefines
  <1> QED BY <1>1, <1>2, Inductive, PTL DEF Spec, IsKeyIds, Abstract!Spec

=============================================================================
