------------------------------- MODULE KeyMap -------------------------------
(***************************************************************************)
(* arnm_key_map (src/key_map.c, include/arnm/key_map.h): an open addressed *)
(* table of slots (hash, id) with linear probing, grown by placing every   *)
(* slot again, beside a vector that holds each key at its id.              *)
(*                                                                         *)
(* A key is an opaque value.  The hash is a function from keys to 32 bit   *)
(* values picked by the init call, and different keys may share a value.   *)
(* The key vector is BucketVector seen from here: a sequence, the elements *)
(* its buckets and its index array have room for, and a refusal at either. *)
(***************************************************************************)
EXTENDS ArenaOps, Sequences

CONSTANTS Keys, NOBODY,      \* NOBODY: the key of a call that is about none
          HashFunctions,     \* what the two inits place keys by
          MIN_CAPACITY, ARNM_KEY_MAP_MAX_CAPACITY,
          BUCKET,            \* keys one bucket of the vector holds
          KeySizes,          \* bytes of a key, as the inits accept them
          INDEX_STEP,        \* slots the vector's index array grows by on an insert
          ARNM_BVEC_MAX_INDEX_CAPACITY,
          Counts             \* key counts asked of reserve

ASSUME KeyMapAssumption ==
  /\ NOBODY \notin Keys
  /\ \A f \in HashFunctions : f \in [Keys -> 0..UINT32_MAX]
  /\ \E e \in 2..28 : MIN_CAPACITY = 2^e
  /\ \E e \in 2..28 : ARNM_KEY_MAP_MAX_CAPACITY = 2^e
  /\ MIN_CAPACITY <= ARNM_KEY_MAP_MAX_CAPACITY
  /\ BUCKET \in 1..UINT32_MAX
  /\ KeySizes \subseteq Nat \ {0}
  /\ INDEX_STEP \in Nat \ {0} /\ ARNM_BVEC_MAX_INDEX_CAPACITY \in Nat
  /\ Counts \subseteq Nat

VARIABLES map,       \* hash (NULL before init), bytes of a key, capacity and slots
          keys,      \* the key vector's elements
          room,      \* elements its buckets hold
          indexed,   \* elements of as many buckets as its index array has slots for
          promised,  \* largest key count a reserve has granted since the memory went
          answer

mapVars == <<map, keys, room, indexed, promised>>
vars == <<map, keys, room, indexed, promised, answer>>

EMPTY_ID == -1          \* ARNM_KEY_MAP_EMPTY_ID, which no key receives

Free == [hash |-> UINT32_MAX, id |-> EMPTY_ID]

Answer(key, kind, id) == [key |-> key, kind |-> kind, id |-> id]

Refuse(key, r) == answer' = Answer(key, r, 0) /\ UNCHANGED mapVars

table_of(capacity) == [i \in 0..(capacity - 1) |-> Free]

EmptyMap(hash, key_size) ==
  [hash |-> hash, key_size |-> key_size, capacity |-> 0, slots |-> table_of(0)]

Init ==
  /\ map = EmptyMap(NULL, 0) /\ keys = << >> /\ room = 0 /\ indexed = 0 /\ promised = 0
  /\ answer = Answer(NOBODY, "DONE", 0)

is_ready == map.hash # NULL

-----------------------------------------------------------------------------
(* The table.                                                              *)

load_limit(capacity) == capacity - capacity \div 4

ARNM_KEY_MAP_MAX_KEYS == load_limit(ARNM_KEY_MAP_MAX_CAPACITY)

\* The first slot from the home of hash on, wrapping, that is one of stops.
walk(capacity, hash, stops) ==
  LET at(d) == (hash + d) % capacity
      steps == {d \in 0..(capacity - 1) : at(d) \in stops}
  IN at(CHOOSE d \in steps : \A e \in steps : d <= e)

free_slots(slots) == {i \in DOMAIN slots : slots[i].id = EMPTY_ID}

first_free(slots, capacity, hash) == walk(capacity, hash, free_slots(slots))

\* Mutant: a key taken for found by its hash alone.
probe_by_hash(k) ==
  walk(map.capacity, map.hash[k],
       free_slots(map.slots) \cup {i \in DOMAIN map.slots : map.slots[i].hash = map.hash[k]})

\* The slot of the key, or the free slot that says it is not there.
arnm_key_map_probe(k) ==
  LET filed == {i \in DOMAIN map.slots \ free_slots(map.slots) :
                  map.slots[i].hash = map.hash[k] /\ keys[map.slots[i].id + 1] = k}
  IN walk(map.capacity, map.hash[k], free_slots(map.slots) \cup filed)

\* Mutant: slots kept where they were in the smaller table.
rebuilt_in_place(capacity) ==
  [i \in 0..(capacity - 1) |-> IF i < map.capacity THEN map.slots[i] ELSE Free]

\* Every occupied slot, in table order, into the first free slot from its home.
rebuilt(capacity) ==
  LET upto[i \in 0..map.capacity] ==
        IF i = 0 THEN table_of(capacity)
        ELSE LET old == map.slots[i - 1] IN
             IF old.id = EMPTY_ID THEN upto[i - 1]
             ELSE [upto[i - 1] EXCEPT ![first_free(upto[i - 1], capacity, old.hash)] = old]
  IN upto[map.capacity]

with_table(capacity) == [map EXCEPT !.capacity = capacity, !.slots = rebuilt(capacity)]

\* Mutant: capacity for the key count itself.
capacity_for_loose(key_count) ==
  CHOOSE c \in {MIN_CAPACITY * 2^e : e \in 0..20} :
    /\ c >= key_count
    /\ c = MIN_CAPACITY \/ c \div 2 < key_count

\* Doubling from MIN_CAPACITY until the load limit reaches key_count.
capacity_for(key_count) ==
  LET doubled[e \in 0..28] == IF e = 0 THEN MIN_CAPACITY ELSE 2 * doubled[e - 1]
      e == CHOOSE n \in 0..28 : /\ load_limit(doubled[n]) >= key_count
                                /\ \A m \in 0..(n - 1) : load_limit(doubled[m]) < key_count
  IN doubled[e]

-----------------------------------------------------------------------------
(* The map itself.                                                         *)

\* Both inits; the caller's arguments are the vector's to refuse.  The header
\* forbids it on a map that holds memory.
init_map ==
  /\ map.capacity = 0 /\ indexed = 0
  /\ \/ Refuse(NOBODY, INVALID_PARAM)
     \/ /\ \E f \in HashFunctions, size \in KeySizes : map' = EmptyMap(f, size)
        /\ keys' = << >> /\ promised' = 0
        /\ answer' = Answer(NOBODY, "DONE", 0)
        /\ UNCHANGED <<room, indexed>>

rounded_to_buckets(n) == ((n + BUCKET - 1) \div BUCKET) * BUCKET

larger(a, b) == IF a > b THEN a ELSE b

most_indexed == ARNM_BVEC_MAX_INDEX_CAPACITY * BUCKET

\* What arnm_bvec_reserve admits: bytes that fit the width, and buckets its index can name.
addressable(n) ==
  /\ n <= (UINT32_MAX - (BUCKET - 1)) \div map.key_size
  /\ rounded_to_buckets(n) <= most_indexed

\* The vector first, its index before its buckets; what it took stays even when
\* the table is refused.
arnm_key_map_reserve(n) ==
  LET wanted == larger(rounded_to_buckets(n), room)
      wider == larger(rounded_to_buckets(n), indexed)
  IN
  \/ n = 0 /\ Refuse(NOBODY, INVALID_PARAM)
  \/ n # 0 /\ ~is_ready /\ Refuse(NOBODY, INVALID_STATE)
  \/ /\ n # 0 /\ is_ready
     /\ n > ARNM_KEY_MAP_MAX_KEYS \/ ~addressable(n)
     /\ Refuse(NOBODY, OVERFLOW)
  \/ /\ n # 0 /\ is_ready /\ n <= ARNM_KEY_MAP_MAX_KEYS /\ addressable(n)
     /\ \/ wider > indexed /\ Refuse(NOBODY, OUT_OF_MEMORY)    \* the index is refused
        \/ /\ wanted > room                \* a bucket is refused, some are in
           /\ room' \in {r \in room..(wanted - 1) : r % BUCKET = 0}
           /\ indexed' = wider
           /\ answer' = Answer(NOBODY, OUT_OF_MEMORY, 0)
           /\ UNCHANGED <<map, keys, promised>>
        \/ /\ capacity_for(n) > map.capacity    \* the table is refused
           /\ room' = wanted /\ indexed' = wider
           /\ answer' = Answer(NOBODY, OUT_OF_MEMORY, 0)
           /\ UNCHANGED <<map, keys, promised>>
        \/ /\ map' = IF capacity_for(n) > map.capacity THEN with_table(capacity_for(n)) ELSE map
           /\ room' = wanted /\ indexed' = wider
           /\ promised' = larger(n, promised)
           /\ answer' = Answer(NOBODY, "DONE", 0)
           /\ UNCHANGED keys

clear_slots == [map EXCEPT !.slots = table_of(map.capacity)]

arnm_key_map_clear ==
  /\ map' = clear_slots /\ keys' = << >>
  /\ answer' = Answer(NOBODY, "DONE", 0)
  /\ UNCHANGED <<room, indexed, promised>>

\* Hash, key size and allocator stay: the map can be filled again.
arnm_key_map_free ==
  /\ map' = EmptyMap(map.hash, map.key_size) /\ keys' = << >>
  /\ room' = 0 /\ indexed' = 0 /\ promised' = 0
  /\ answer' = Answer(NOBODY, "DONE", 0)

-----------------------------------------------------------------------------
(* Keys.                                                                   *)

\* The next key needs a bucket that the index array has no slot for.
is_index_due == Len(keys) = room /\ room = indexed

\* The index grows by its step or not at all: a last part of a step is never used.
index_at_limit == indexed + INDEX_STEP * BUCKET > most_indexed

\* The vector takes no key; a table and an index that grew for it stay.
not_stored(k, m, reason) ==
  /\ answer' = Answer(k, reason, 0)
  /\ map' = m
  /\ UNCHANGED <<keys, room, promised>>

\* The key goes into the vector before the slot of m names it.
store(k, m, index) ==
  LET wider == IF is_index_due THEN indexed + INDEX_STEP * BUCKET ELSE indexed IN
  \/ /\ is_index_due /\ index_at_limit
     /\ not_stored(k, m, OVERFLOW)
     /\ UNCHANGED indexed
  \/ /\ is_index_due /\ ~index_at_limit    \* the index is refused
     /\ not_stored(k, m, OUT_OF_MEMORY)
     /\ UNCHANGED indexed
  \/ /\ Len(keys) = room /\ ~(is_index_due /\ index_at_limit)    \* the bucket is refused
     /\ not_stored(k, m, OUT_OF_MEMORY)
     /\ indexed' = wider
  \/ /\ ~(is_index_due /\ index_at_limit)
     /\ map' = [m EXCEPT !.slots[index] = [hash |-> m.hash[k], id |-> Len(keys)]]
     /\ keys' = Append(keys, k)
     /\ room' = IF Len(keys) < room THEN room ELSE room + BUCKET
     /\ indexed' = wider
     /\ answer' = Answer(k, "INSERTED", Len(keys))
     /\ UNCHANGED promised

at_max_capacity == map.capacity >= ARNM_KEY_MAP_MAX_CAPACITY

\* The table grows before anything is written.
insert_absent(k, index) ==
  LET is_due == Len(keys) >= load_limit(map.capacity)
      doubled == IF map.capacity = 0 THEN MIN_CAPACITY ELSE 2 * map.capacity
  IN
  \/ is_due /\ at_max_capacity /\ Refuse(k, OVERFLOW)
  \/ is_due /\ ~at_max_capacity /\ Refuse(k, OUT_OF_MEMORY)
  \/ /\ is_due /\ ~at_max_capacity
     /\ store(k, with_table(doubled), first_free(rebuilt(doubled), doubled, map.hash[k]))
  \/ ~is_due /\ store(k, map, index)

has_key(k) == map.capacity # 0 /\ map.slots[arnm_key_map_probe(k)].id # EMPTY_ID

\* The typed copies of ARNM_KEY_MAP_DEFINE run the same steps.
arnm_key_map_get_or_insert(k) ==
  \/ ~is_ready /\ Refuse(k, INVALID_STATE)
  \/ /\ is_ready /\ has_key(k)
     /\ answer' = Answer(k, "FOUND", map.slots[arnm_key_map_probe(k)].id)
     /\ UNCHANGED mapVars
  \/ /\ is_ready /\ ~has_key(k)
     /\ insert_absent(k, IF map.capacity = 0 THEN 0 ELSE arnm_key_map_probe(k))

arnm_key_map_find(k) ==
  /\ answer' = IF has_key(k)
               THEN Answer(k, "FOUND", map.slots[arnm_key_map_probe(k)].id)
               ELSE Answer(k, "ABSENT", 0)
  /\ UNCHANGED mapVars

Next ==
  \/ init_map
  \/ \E n \in Counts : arnm_key_map_reserve(n)
  \/ arnm_key_map_clear
  \/ arnm_key_map_free
  \/ \E k \in Keys : arnm_key_map_get_or_insert(k)
  \/ \E k \in Keys : arnm_key_map_find(k)

Spec == Init /\ [][Next]_vars

-----------------------------------------------------------------------------
(* Properties.                                                             *)

Refusals == {INVALID_PARAM, INVALID_STATE, OVERFLOW, OUT_OF_MEMORY}

\* The table and its keys: capacity a power of two or none, slots over exactly
\* that many, ids inside the key vector, a slot of its index for each bucket.
TypeOK ==
  /\ map.hash \in HashFunctions \cup {NULL}
  /\ map.capacity \in {0} \cup {2^e : e \in 2..28}
  /\ map.capacity <= ARNM_KEY_MAP_MAX_CAPACITY
  /\ DOMAIN map.slots = 0..(map.capacity - 1)
  /\ \A i \in DOMAIN map.slots :
       map.slots[i] = Free \/ map.slots[i].id \in 0..(Len(keys) - 1)
  /\ keys \in Seq(Keys) /\ Len(keys) <= room /\ room <= indexed

\* A walk always ends: whatever was inserted, grown or refused on the way, a
\* slot stays free, so the loops of probe, rebuild and insert terminate.
AlwaysAFreeSlot ==
  map.capacity # 0 => \E i \in DOMAIN map.slots : map.slots[i].id = EMPTY_ID

\* Beside the types: one slot for each key, filed under the key's own hash,
\* reachable from its home without crossing a free slot, and every walk ends.
SlotsReachable ==
  /\ TypeOK
  /\ AlwaysAFreeSlot
  /\ \A id \in 0..(Len(keys) - 1) :
       \E i \in DOMAIN map.slots : map.slots[i].id = id /\ map.slots[i].hash = map.hash[keys[id + 1]]
  /\ \A i, j \in DOMAIN map.slots :
       i # j /\ map.slots[i].id # EMPTY_ID => map.slots[i].id # map.slots[j].id
  /\ \A i \in DOMAIN map.slots : map.slots[i].id # EMPTY_ID =>
       \E d \in 0..(map.capacity - 1) :
         /\ (map.slots[i].hash + d) % map.capacity = i
         /\ \A e \in 0..d : map.slots[(map.slots[i].hash + e) % map.capacity].id # EMPTY_ID

\* "so that no insert up to that count allocates": what a reserve granted, the
\* table and the key buckets still have room for, whatever came after.
ReserveHolds == promised <= room /\ promised <= load_limit(map.capacity)

\* A step keeps that promise, and it is as good as it reads: below the promised
\* count no key is refused room, and a new one takes neither a bucket, nor a slot
\* of the index, nor a larger table.
RoomAsPromised ==
  [][ /\ ReserveHolds'
      /\ answer'.key \in Keys /\ Len(keys) < promised =>
           /\ answer'.kind \notin {OVERFLOW, OUT_OF_MEMORY}
           /\ map'.capacity = map.capacity
           /\ UNCHANGED <<room, indexed>> ]_vars

Abstract == INSTANCE KeyIds

\* The map is a table of first come, first numbered ids: hash collisions,
\* wrapped probes, growth and refusals never show in an answer.
IsKeyIds == Abstract!Spec
=============================================================================
