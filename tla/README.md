# A TLA+ model of arnm

arnm is a C11 library of allocators and of containers built on them: arenas that
only bump an index, chains and pools of arenas, a ring, a bucket vector, a hash
map, a compressed bitmap, and a JSON reader and writer that take all their memory
from these. It is single threaded ("nothing here is thread safe") and has no
scheduler: every step is a call of the client. What is hard about it is not
interleaving of threads but long sequences of legal calls, refusals of the
allocator below in the middle of an operation, 32 bit sizes at their edge, and
intrusive data structures that live inside the memory they manage.

The modules here model the allocators, the three containers directly on them, the
compressed set with its operations and queries, the JSON reader and writer with the
memory they live in, and the text routines below them. TLC checks them on small
instances. TLAPS proves for every size what TLC finds true of the single arena and
the JSON memory in it, the chain of arenas, all the pools, the ring, the bucket
vector, the key map, the JSON writer (its tree, its text and what it hands over), the
UTF-8 scan and the reads of the JSON reader.

## 1. Inventory

| component | state | operations | hard behaviour |
|---|---|---|---|
| single arena, host allocator (`memory.c`, `memory_intern.h`) | a handle: type, block, bump index, capacity, refused bytes | create, init, borrow, reset, release, reinit, destroy, alloc, free, realloc, clone | only the block at the tail can be freed or resized in place; sizes round to 8 and can leave the width; the handle changes type over its life |
| multi arena (`memory.c`) | a vector of arenas, the options, the marker `first_open` | create, borrow, reserve, shrink, alloc, free, realloc, reset, release, destroy | the scan skips what the marker passed, so the marker has to come back when a block does; a fresh arena can be taken and then not be stored |
| fixed ring | slots, capacity, head, size | init, emplace, push, pop, copy, clear, free, get | wrap at a capacity that is no power of two, in 32 bits |
| bucket vector | index array, buckets, tail, counters | init, reserve, grow, push, pop, get, copy, clear, shrink, free | the index array moves and the buckets must not; refusals between the two; behind an arena memory comes back only newest first |
| dynamic arena pool | free list through the arenas' own bytes, counters | init, reserve, alloc, free, release, destroy | the link lies where the client writes once the arena is lent |
| graded arena pool | a ladder of dynamic pools and one word of bits | init, alloc, free, grade_at, capacity_for, release, destroy | bit arithmetic finds the rung; all or nothing on release |
| fixed arena pool | one block of descriptors and buffers | init, alloc, free, release, destroy | recognising an address that is not one of its own |
| graded block pool | a chain of arenas, a cursor, a free list per grade | init, alloc, free, realloc, by size or by exponent, reset, release | cutting the rest of an arena into grades; reset below live lists |
| key map | table of (hash, id), key vector | init, reserve, get_or_insert, find, key_of, clear, free | probing over collisions, growth between probe and store, termination of the walk |
| roaring bitmap, its operations and queries | sparse values or containers, each array or words | add, and, or, andnot, range, counting, paging | change of form under refusal; word edges |
| JSON memory bridge (`json_memory.h`) | a context per document: the run of bytes it occupies, whether that run is broken, whether an arena kept bytes | alloc, realloc and free for yyjson, release of a whole run | sizes kept in front of blocks that were resized; a run taken back in one step beside blocks of others |
| JSON writer | a tree, a stack of open containers, the first error, a count of elements | begin, adders, open, close, clear error, write, release, destroy | first refusal kept until cleared; depth limit; a refusal at any draw inside a call |
| JSON reader | a document and the parser's error | parse, parse in situ, read object, read array, release, destroy | a field table as bits of one word; nulls, repeated names, the first refusal |
| utf8, converter | none | scan of a run of bytes; numbers, hex, base64, uuid to text and back | the boundaries of the encodings; a decode over its own text; buffers one cell too short |
| memory block and byte buffer | pointer, size, fill index | reserve, append, realloc | |
| duration, timer, result codes, hash, bit and byte helpers | none | pure functions, a clock | |
| yyjson | third party | | |

The containers take memory through `arnm_alloc`, `arnm_realloc` and `arnm_free`
on any handle, so what each can rely on is what a handle promises: disjoint
blocks, and the answer `ARNM_WARNING_ARENA_MEMORY_NOT_RECLAIMED` when a block was
not the tail. The multi arena keeps its arenas in a bucket vector; the graded
arena pool is made of dynamic pools; the graded block pool stands on a multi arena
and the roaring bitmap on the graded block pool; the key map keeps its keys in a
bucket vector; JSON documents live in a handle of the caller's, beside blocks of
anybody else who uses that handle.

## 2. Modules

`ArenaOps` holds what all of them share: rounding to 8, `ARNM_MAX_ALLOC_SIZE`, the
descriptor of a single arena, `bump`, the tail test. `UINT32_MAX` is a constant,
so a width of a few bits puts every overflow within reach. A host block is an
opaque name and an address a name and an offset, because distinctness is all that
malloc promises. A handler that answers an error and touches nothing is `Refuse`.

| module | models | state beside the code's own fields |
|---|---|---|
| `Arena` | one handle in host, owned, borrowed and released mode | `host`: blocks malloc handed out; `live`: blocks the client holds; `stranded`: bytes below the index nobody holds |
| `MultiArena` | the chain | `host`, `live` as above |
| `FixedRing`, refining `BoundedQueue` | the ring, index arithmetic in 32 bits | `taken`: bytes of the block; `out`: what a copy wrote |
| `BucketVector`, refining `SequenceStore` | the vector, over the host or over an arena shared with a neighbour | `held`, `others`: host blocks, the neighbour's blocks; `cells`: contents of buckets |
| `DynamicArenaPool` | a family of pools over one host | `link`: first bytes of each arena; `lent`: arenas out |
| `GradedArenaPool`, extending it | the ladder, the client who uses a rung through `grade_at`, and the client whose pools stand alone | |
| `FixedArenaPool` | the pool in one block | `block`, `used`, `link`, `lent` |
| `GradedBlockPool` | the grades, their lists and the cursor | `taken`, `opened`: arenas of the chain below; `lent` |
| `Pools` | the three kinds of pool side by side, one of them at work in a behaviour | `which` |
| `KeyMap`, refining `KeyIds` | the table and the key vector: `keys`, `room` of its buckets, `indexed`: room its index array has slots for | `promised`: what reserve granted; `answer` |
| `RoaringBitmap` | one set as a value: both forms, adding, building, reading, the blocks it takes | |
| `RoaringOps`, extending it, refining `ValueSets` | several sets over one block pool: add, and, or, andnot, copy of a range, free | `lent`: blocks out of the pool, counted for each exponent; `answer` |
| `RoaringQuery`, extending it | count, page and listing of a query, as operators over the sets | |
| `JsonMemory`, extending `Arena` | what a reader or writer takes from an allocator and gives back, call by call, among others who use it | `phase`, `then`, `pending`: where the running operation stands; `others`; `answer` and `kept_before`: what a release said and what it found |
| `JsonWriter`, refining `JsonText` | the writer: tree, stack, first error, and the text laid down from them | `out`: what the last write handed over |
| `JsonReader` | the walk over an object against a table of fields, the fill from an array, as operators | |
| `Utf8` | the scan, one action a turn of a loop | |
| `Converter` | numbers, hex, base64 and uuid, as operators over buffers of cells | |
| `ArenaProofs`, `PoolProofs`, `BucketVectorProofs`, `KeyMapProofs`, `JsonWriterProofs` | the theorems about the module each is named for; `ArenaProofs` covers `JsonMemory`, `PoolProofs` the pools of every kind | |
| `MultiArenaAndRoaringProofs` | the theorems about the chain and about the compressed sets (`RoaringOps`), which share nothing but `DataLemmas` | |
| `RingAndTextProofs` | the theorems about three components that share nothing else: `FixedRing`, `Utf8` and `JsonReader` | |
| `DataLemmas` | what the proofs share: induction over the naturals and over finite sets, sums, lists without repetition, sequences joined, powers of two | |
| `MC...` | the instances TLC checks | |

An action has the name of the C function and is the whole function: a call with
several outcomes is a disjunction, one disjunct for each return. Answers of the
memory below that the code cannot influence (malloc fails, a push into a vector
is refused) are nondeterministic. Clients keep the contract of the headers: they
name the size a block was handed out with, give back what they hold, drop blocks
at a reset. Where the code defends itself against a broken contract (a foreign
address, a return to a pool with nothing out) the client breaks it.

An operation that calls the allocator several times is several actions in
`JsonMemory`, one for each call, since each may be refused and the state between
two of them is where a block could be lost. The library is single threaded, so
while `phase` is not `idle` the other users of the allocator do not move.

Five abstractions carry weight. In `MultiArena` the vector of descriptors is a
function whose push may be refused; `BucketVector` models that vector. In
`GradedBlockPool` the chain below hands out whole arenas and reuses its own after
a reset; in `RoaringOps` the block pool grants a number of blocks and then
refuses; in `KeyMap` the key vector is a sequence, the room its buckets give and
the buckets its index array can name, which `reserve` grows by what is needed and an
insert by the vector's step; in `JsonWriter` each call finds some number of draws granted and the
rest refused, which `JsonMemory` makes of the bytes. In each the part that is
assumed is what another module checks.

yyjson itself is external: `JsonWriter` knows that a container lists its members
and that a node, once taken, keeps its place; `JsonMemory` knows the order in which
a document gives its chunks back; `JsonReader` knows that an object is a sequence
of names and values.

Definitions marked `Mutant` are deliberate faults. Each passing property has one:
`PROJECT.json` names the definition it replaces and the property that must then
fail, so that no property holds merely by the shape of the model.

## 3. Runs

| run | what is checked | bounds |
|---|---|---|
| `arena` | `EveryByteAccounted`, `NoSharedBytes`, `JsonBlocksAccounted`, `RunAccounts`, `ReleaseTellsTruth` | largest size 72, four host blocks, one blob; a client who puts the handle through every mode, or a reader or writer on a host or an arena of 72 bytes: documents of up to three chunks, one of 56 bytes so that on the host the sum of a run leaves the width and is given up, two blocks of others, a text that grows once and shrinks |
| `multi_arena` | `BlocksDisjoint`, `BlocksOwned`, `NoOpenArenaBehindMarker`, `NoHostLeak`, `OptionsRespected`, `OpensOnlyWhenFull` | arenas of one to four units of 8 bytes, two host blocks and one lent; four option sets, with a ceiling, without, with defaults, refused |
| `fixed_ring` | `BlockHoldsSlots`, `IsBoundedQueue` | one to four slots, two values; element sizes up to the largest and above |
| `bucket_vector` | `BlocksAreItsOwn` (with the code's own `StateAlwaysValid`), `StableAddresses`, `FreeUnwindsArena`, `IsSequence` | index of at most three slots, buckets of two (and sizes that are refused), sizes up to 71, two values, three host blocks or an arena of 40 bytes with a neighbour |
| `pools` | `ArenasAccounted`, `ArrivesFresh`, `SmallestGradeThatFits`, `ArenasFindHome` of the ladder and its dynamic pools; `FixedBlockHoldsArenas`; `GradedBlocksDisjoint`, `GradedEveryByteServes` | three pools, alone or as the rungs 8, 16, 32 of a six bit ladder; nine ladders, most refused; three arenas, counter limit 3. A fixed pool of up to four arenas in seven bits, addresses on, between and outside descriptors. Graded blocks in six bits, three arenas, three blocks out |
| `key_map` | `SlotsReachable` (a free slot is always left), `RoomAsPromised`, `IsKeyIds` | tables of 4 and 8 slots, seven keys of three hashes, two hash functions; buckets of two keys, an index of at most three slots that an insert grows by two, two key sizes, the larger of which limits a reserve to three keys by its bytes |
| `roaring` | `BlocksAccounted` (with `FormHolds`), `ReadsAgree`, `QueriesAgree`, `IsValueSets` | three keys of six low parts in words of two bits; an array of at most four values, a sparse set of at most two, a union counted in bits from four values on; the pool grants none, one, two or all blocks of a call; six ranges, eight queries, four pages |
| `json_writer` | `StackIsPath`, `ElementsMatchDocument`, `WrittenIsJson`, `IsJsonText` | depth limit 3, four nodes, one name and none; blocks that fit a text and blocks that do not; up to four draws granted in a call |
| `text` | `LongestValidPrefix`, `ScansEnd`; `ConvertersAgree`; `ReadObjectAgrees`, `ReadArrayAgrees` | runs of up to seven bytes from every edge of the lead and continuation ranges, words of three bytes; numbers to 2047 in buffers of none to six cells; bytes, base64 to eight characters, hex to three, every uuid with one character changed; objects of up to three members against tables of up to two fields, arrays of up to three elements, every value against every type |
| `fixed_ring_wide` | `ElementsHaveOwnSlots` violated | 16 slots of one byte, largest size 23 |
| `bucket_vector_limit` | `OverflowOnlyAtLimit` violated | as `bucket_vector`, default step above the remaining room |
| `graded_arena_pool_released` | `ReleasedGradeIsUsable` violated | as the ladder of `pools` |

Several runs hold more than one system: `arena` starts either with a client or with
a reader or writer on the handle, `pools` with one of three kinds of pool, `text`
with one call. What starts is chosen in `Init` and stays, so a behaviour is one
system's; the modules are not coupled by it.

The bounds are enough for every branch of every operation to be taken (TLC
reports that each action and disjunct fires) and for the structures to fill,
empty and fill again: arenas close and reopen, the ring wraps several times, the
index regrows and tightens, tables double to their limit, a document's run is
broken by a neighbour's block and by a resize and begins anew. Structures that are
one step longer repeat the same cases; that they do is what the theorems of section 5
add for the systems they cover. In `json_writer`
three levels and four nodes let a container be closed, a second be opened beside
it and a third be refused at the limit, with every draw refused on the way. In
`roaring` two operand sets pass through every form, sparse, arrays and bitmap, in
every order of the two; they rest while a result of an operation stands, and
queries are asked while they stand alone. Its `VIEW` leaves out `answer`, which no
action reads. No run takes much more than two minutes.
Host blocks, arenas, keys of equal hash and element values are interchangeable and
are declared symmetric; no liveness property is checked under symmetry.

Fairness is assumed in one place. Nothing in the library has to happen by itself
between calls: it is single threaded and each step is a call of the client, so the
other specifications state none. Within a call the code runs on until it returns,
and that is the weak fairness of `Scan` in `text`: a scan whose loop can take
another turn takes it. Under it `ScansEnd` says that every scan returns, whatever
the bytes. The probe of the key map, the other loop whose end is not evident, is
one atomic lookup in the model; that it ends is the safety property that a free
slot is left (`AlwaysAFreeSlot`, part of `SlotsReachable`).

`text` disables the deadlock check, because a call that has answered is the end of
its behaviour. No other run does: some call is always possible.

## 4. Disagreements between code and text

Shown by a run:

- `fixed_ring_wide`: in a ring of more than 2^31 slots `head + index` wraps and
  another element's address comes back, where the header says the sum "passes the
  end at most once" (`fixed_ring.h:301`) and the contract says nothing wraps.
- `bucket_vector_limit`: `grow` answers overflow up to one step below
  `ARNM_BVEC_MAX_INDEX_CAPACITY`, where `bucket_vector.h:243` says the array is at it.
- `graded_arena_pool_released`: a rung released through `grade_at` answers
  `ARNM_ERROR_NOT_INITIALIZED`, where `graded_arena_pool.h:316` calls it usable.

Met while modelling, and modelled as the code has it:

- the step of `bucket_vector_limit` shows in the key map, which always leaves it at 8:
  an insert that needs a slot past an index of 8184 answers an overflow, where
  `key_map.h:241` names a full map or a full vector, while a reserve of one key more
  is granted, up to 8191 buckets, and the insert after it goes through. `KeyMap` has
  the step (`index_at_limit`), and `RoomAsPromised` holds across it;
- a released arena over a borrowed block keeps its pointer and answers
  `ARNM_ERROR_OUT_OF_MEMORY` (`memory.c:61`), where `memory.h:187` names
  `ARNM_ERROR_INVALID_STATE` for a released arena;
- `first_open` walks back when a block is handed back to an earlier arena
  (`memory.c:248`), where `memory_intern.h:44` says it "only walks forward";
- when `add` is refused after a sparse set at its limit was turned into containers
  (`roaring_bitmap.c:157`), the set keeps the new form, where `roaring_bitmap.h`
  promises "Unchanged on failure" and `roaring_bitmap.c:17` calls a set sparse
  exactly while it is small. Its values are unchanged: `IsValueSets`;
- an arena of a graded block pool that was capped at the largest allocation ends
  in bytes no grade takes (`graded_block_pool.c:93`), where
  `graded_block_pool.h:60` says nothing is left behind. `EveryByteServes` accounts
  for exactly these bytes;
- a member that is null is passed over before its entry's type and target are
  looked at (`json_reader.c:467`), where `json_reader.h:602` has a matched entry of
  type `NONE`, and one without a target, refused;
- a copying parse takes the input, its padding and a header of 8 bytes in one
  block, so the last 8 lengths `ARNM_JSON_READER_MAX_INPUT_SIZE` admits
  (`json_reader.h:118`) can only answer `ARNM_ERROR_OUT_OF_MEMORY`;
- a length refused by `begin_parse` (`json_reader.c:218`) lets the old document go
  and leaves the status at success: the reader has neither document nor error;
- of two warnings `arnm_json_reader_destroy` prefers the document's and
  `arnm_json_writer_destroy` (`json_writer.c:519`) the storage's; `destroyed` in
  `JsonMemory` keeps both. A document of a reader over an arena always ends in the
  warning where its text was copied: the values lie above the copy, and the copy is
  given back first.

## 5. Theorems

Every theorem holds for all values of its module's constants: any width, any set of
blocks, keys or elements, any sizes asked for. In most modules `IInv` is the inductive
invariant, `Inductive` (or `TypeCorrect`) says that it always holds, and the
properties of the runs follow from it. TLC checked each `IInv` on the runs' instances
before it was proved. Most are stated over explicit values rather than over the
variables: a call that allocates, moves and gives back passes through states that
are none of the system's, and is proved by putting the lemma of one step behind the
lemma of the next.

### The single arena and JSON memory: `ArenaProofs`

For a client that puts a handle through every mode, and for a reader or writer that
shares a host or an arena with anybody (`EitherSpec`):

| theorem | statement |
|---|---|
| `Inductive` | `EitherSpec => []IInv` |
| `BytesAccounted` | `EitherSpec => []EveryByteAccounted` |
| `SharesNoBytes` | `EitherSpec => []NoSharedBytes` |
| `HeadersAccountForBlocks` | `EitherSpec => []JsonBlocksAccounted` |
| `RunIsTheDocument` | `EitherSpec => []RunAccounts` |
| `TellsTheTruth` | `EitherSpec => []ReleaseTellsTruth` |

`IInv` has two levels. `AllocatorOK` knows nothing of JSON: blocks are disjoint and
below the index, and the index is the sum of what is held (`Held`) plus what is
stranded; on the host each block has a name of its own. The lemmas `AllocDone`,
`FreeDone` and `ReallocDone` are all that the operations above it use. `JsonOK` says
what a document adds: every block has one holder (`HoldersOK`), what is held between
two calls of one operation is what that operation still knows about (`DocumentOK`),
and what the run and the warning about it amount to (`RunOK`, `AnswerOK`). A run can
be taken back in one step only because it is contiguous, and that is an argument
about sums: disjoint blocks between its first byte and the index, whose sizes add up
to that distance, leave no room for anybody else's (`Packing` in `DataLemmas`).

Two facts came out of the proof. The run of an idle writer is never broken in an
arena, but it can be on the host, where the sum of a document's blocks can leave 32
bits and the code gives the run up; `RunAccounts` says so. And a resize has to refuse
by the payload, as an allocation does (`JSON_BLOCK_MAX_PAYLOAD`), or the size with its
header would leave the width.

### The chain: `MultiArenaAndRoaringProofs`

| theorem | statement |
|---|---|
| `TypeCorrect` | `Spec => []TypeOK` |
| `Disjointness` | `Spec => []BlocksDisjoint` |
| `Ownership` | `Spec => []BlocksOwned` |
| `MarkerSound` | `Spec => []NoOpenArenaBehindMarker` |
| `HostConserved` | `Spec => []NoHostLeak` |
| `OptionsHold` | `Spec => []OptionsRespected` |
| `OpensLast` | `Spec => OpensOnlyWhenFull` |

None of these is inductive alone. That blocks stay disjoint needs that each lies
below the index of its arena; that needs that no two arenas share a block, which
needs that the owned ones are exactly the blocks taken from the host; and that a
tail block can be handed back needs that every reserved size is a non-zero
multiple of 8. `IInv` is the conjunction of `ChainOK` (the arenas), `LiveOK` (the
client's blocks), `OptionsOK` (what validate let through), `MarkerOK` and
`ShapeOK` (ceiling and threshold). `arnm_realloc` takes a block elsewhere and
then hands the old one back, so its proof composes the lemma of the first step
with the lemma of the second through a chain that is no state of the system.

### The pools: `PoolProofs`

For dynamic pools that stand alone and for the ladder (`GradedSpec`), and for the
fixed pool and the graded blocks as the run has them (`AnySpec`):

| theorem | statement |
|---|---|
| `Inductive` | `GradedSpec => []IInv` |
| `NothingLost` | `GradedSpec => []ArenasAccounted` |
| `LendsFresh` | `GradedSpec => ArrivesFresh` |
| `GradeServes` | `GradedSpec => []SmallestGradeThatFits` |
| `ComesHome` | `GradedSpec => []ArenasFindHome` |
| `FixedPoolHolds` | `AnySpec => []FixedBlockHoldsArenas` |
| `BlocksApartHolds` | `AnySpec => []GradedBlocksDisjoint` |
| `BytesServeHolds` | `AnySpec => []GradedEveryByteServes` |

The list of a pool runs through memory the client writes to, so the invariant names
it: there is a sequence of arenas without repetition that the head and the links
spell out (`Chain`), as long as the pool counts; the sequences of different pools and
what is lent are disjoint, and together they are what the host gave (`Shelves`).
Every operation is then one on sequences. What the walk of a list reaches, a
recursively defined function, is shown to be that sequence (`WalkMeets`).

For the ladder `IInv` adds that some accepted list of rungs is behind the word of
bits (`Rungs`). `RungCount` proves, by stepping the exponent, that the number of bits
below a power is the number of rungs below it; the two lookups follow. Powers are
computed exponent by exponent, so the word is assumed to have 4 to 32 bits; the
code's has 32.

The free list of the fixed pool is a `Chain` over the slots no client has
(`FixedInv`). What is delicate is its size: it is computed twice, in 32 bits, by init
and by release, so that the block holds its buffers and goes back whole rests on the
test of the product (`total_fits`) having come first. That an address the client
brings and `belongs_to` lets in is a descriptor's is an argument about multiples
below a bound, for any size of a descriptor.

Neither property of the graded blocks is inductive. `BlocksInv` says that the struct
is sound over the blocks out and the arenas taken (`Sane`): the blocks on the lists
and those out lie apart, in arenas taken, of grades of the pool and below the cursor
(`Places`), each list is of one grade and names nothing twice (`Listed`), the cursor
stands on a multiple of the smallest grade, and the counters weigh the two sets of
blocks. It adds that the bytes told are those of the arenas (`Filled`), and that
options `validate` let through are behind a pool with a chain (`Ready`). Alloc is cut,
take or split of a struct that is none of the system's, so the lemma of each is stated
over a record: `TakeSane`, `CutSane`, `FreeSane`. The split of an arena's rest writes
several lists at once; `SplitSane` proves it as a strip of blocks cut and given back
one after another, `SplitCurrentSane` steps it through the grades, and `RestIs` says
what is left: because every grade divides the next (`PowersDivide`), less than the
smallest. That remainder is the same in each arena, the capacity modulo the smallest
grade, which is why `EveryByteServes` can name what is lost by the number of arenas
alone. The two sums in it, of bytes and of list lengths, are folds of the library and
are shown to be the sums of `DataLemmas` (`BytesAreWeight`, `LengthsAreSum`).

### The ring: `RingAndTextProofs`

| theorem | statement |
|---|---|
| `TypeCorrect` | `NoWrap => (Spec => []TypeOK)` |
| `RingIsBoundedQueue` | `NoWrap => (Spec => IsBoundedQueue)` |
| `BlockHolds` | `Spec => []BlockHoldsSlots` |

`NoWrap` says that no capacity exceeds half the 32 bit range. It is necessary: run
`fixed_ring_wide` is the counterexample without it. The step simulation rests on
`GetLemma` (below the bound `get` is a single wrap) and `SlotsDistinct`.

### The bucket vector: `BucketVectorProofs`

Over the host and over an arena shared with a neighbour:

| theorem | statement |
|---|---|
| `Inductive` | `Spec => []IInv` |
| `OwnsItsBlocks` | `Spec => []BlocksAreItsOwn` |
| `ElementsStay` | `Spec => StableAddresses` |
| `Unwinds` | `Spec => FreeUnwindsArena` |
| `VectorIsSequence` | `Spec => IsSequence` |

`Good(d, m, h, O, c)` says of a descriptor, an allocator, the host's and the
neighbour's blocks and the cells that the counters name the last element
(`Counted`), the index array holds the allocated buckets and no others (`Indexed`),
all blocks are apart (`ArenaOwns`, `HostOwns`), and the cells are those of the
buckets. A grow that regrows the index, takes a bucket and opens it is three of these
in a row, and each may be refused: the lemma of each holds of the descriptor the one
before it left. `Extends` and `Agrees` carry the elements along. For each action one
lemma concludes `Outcome`: the invariant after the step, no element moved, and the
step is one of `SequenceStore`. The statement of `StableAddresses` and that of the
refinement thus come out of the same case analysis.

Two functions the module takes from the community library are recursive, the
concatenation of the buckets in a copy and the fold by which free hands the blocks
back. Each is shown to be the function that satisfies its equation (`Flattened`,
`OfferedInTurn`), and its value follows by induction on the number of buckets. That
free unwinds an arena rests on the order of that fold: newest first, so each block
offered is the topmost one (`FreeOrder`, `Nested`).

`BvecAssumption` has one conjunct that matters: the largest element times the
largest bucket is a block the allocator can give. In the code it is: an element has
at most 65535 bytes and a bucket at most 2^15 elements, which is below 2^31. With
sizes for which it is not, rounding a bucket up to 8 would leave the width.

### The key map: `KeyMapProofs`

For every set of keys and every hash:

| theorem | statement |
|---|---|
| `Inductive` | `Spec => []IInv` |
| `KeysReachable` | `Spec => []SlotsReachable` |
| `PromisesKept` | `Spec => RoomAsPromised` |
| `MapIsKeyIds` | `Spec => IsKeyIds` |

`IInv` says that the table is filed (each entry lies where a walk from its hash meets
no free slot before it: `Filed`), that it holds exactly the entries of the keys
(`TableOK`), that keys, buckets and index fit each other and the load (`KeysOK`), and
that what a reserve promised is within both (`PromiseOK`). `RoomAsPromised` says of
every step that the promise stays, and that below it a call about a key neither is
refused room nor takes any: no bucket, no slot of the index, no larger table. It needs
both halves of the invariant, since the table, the buckets and the index each have a
limit of their own; that buckets and index are whole multiples of a bucket is what
shows that a bucket without a slot is never taken (`NextMultiple`, `StepMultiple`). A free slot is left
because the load is below the capacity, which needs a count of slots against keys.
Growing files every entry again, one by one: after each step the entries so far are
filed (`Rebuild`), whatever the order in which they come. Capacities are powers of two
from 2^2 to 2^28, the range of the code's.

### The writer: `JsonWriterProofs`

For every set of names, every depth limit and every number of nodes, whatever draws
are refused:

| theorem | statement |
|---|---|
| `TypeCorrect` | `Spec => []TypeOK` |
| `PathHolds` | `Spec => []StackIsPath` |
| `CountHolds` | `Spec => []ElementsMatchDocument` |
| `WrittenHolds` | `Spec => []WrittenIsJson` |
| `IsJsonTextHolds` | `Spec => IsJsonText` |

`StackIsPath` says that each open container is the last member of the one below
it. It is not inductive: a new member is hung on the container on top, and that it
leaves the containers below alone needs that no node is on the stack twice.
`Ascends` supplies it, each node on the stack having been taken after the one
below, and `Tree`, that a member is taken after its container, is what keeps it
when a level is entered. `Sound` is the conjunction, stated over a record because a
call passes through the document begun by a first field and the field taken before
its level is entered. Two facts came out of it. The error "No container is open" is
dead: `Refused` shows it is never recorded, a document always having its root on the
stack. And the depth limit must be at least two (`WriterAssumption`): an open looks
at the depth before the field has begun a document (`json_writer.c:875`), so with a
limit of one it would enter a level past its array. The code's limit is 16.

The other three are about the text, which the model lays down from the tree by a
recursive function. `TInv` strengthens `Sound` by what the text needs: each node has
one place in the tree (`Unique`), members are named exactly in objects (`Keyed`), the
count is that of the tree (`Counted`), a fault has its field (`Clean`), and what was
handed over is the tree laid down and closed (`Handed`). The text is that of the open
containers, each up to its last member, one inside the other; `Said` and `Kinds` name
it and the containers open, and a lemma for each call says what becomes of the two.
A step of `JsonText` is then the same step on `Said`, and each action of the writer,
refused at any draw, is one of these or a stutter (`Step`). For the count, the nodes
named and the nodes opened are counted as sets, and a field adds to each what it adds
to the counter.

`WrittenIsJson` reads the marks with a stack of its own. By induction on the nodes from
the last to the first, since members are taken after their container, every node's
text read where a value may stand leaves the reader as it was, one value further
(`NodesRead`); the reading is the recursive function of the property
(`ReadingIsRecursive`).

### The scan and the reads: `RingAndTextProofs`

| theorem | statement |
|---|---|
| `LongestPrefixHolds` | `TextSpec => []LongestValidPrefix` |
| `ObjectRead` | `ObjectPromise` for every object and every table of entries |
| `WalksAgree` | `TextSpec => []ReadObjectAgrees` |
| `ArrayRead` | `ArrayPromise` for every array, element type, room and buffer |
| `FillsAgree` | `TextSpec => []ReadArrayAgrees` |

The scan is proved for any set of texts (`Texts` is a constant) and any width of a
word. The code looks at a lead, the range its table gives the byte after it, and
continuations; the property speaks of code points. `ScalarIsShaped` joins the two: a
run of one to four bytes is the shortest encoding of a scalar value exactly if its
bytes have the shape the table asks for. A prefix is valid if it divides into such
encodings, which the property says with a recursive function; that it exists is
`WholeExists`. A lead fixes the width of what it begins (`OneWidth`), so of two valid
prefixes the shorter is followed by a whole encoding (`GoesOn`): where none follows,
the prefix is the longest one. `ScanInv` adds to the property that the index stands
behind a valid prefix after every turn of every loop, for which a word without a high
bit is as many encodings of one byte (`AsciiRun`).

A walk and a fill are folds over the members. `FoldInTurn` takes a fold turn by turn:
what holds of nothing read and is kept by each member holds at the end. Both are
stated for all inputs a parsed document and a caller can make, and the property of the
run follows for the inputs of the run (`InputsAreGood`). `FieldReads` comes first: the
conversion of one value refuses exactly what the header says, and leaves the target as
it was or zeroed when it does.

After k members a fill holds what stands before a cut, which lies behind the k-th
member or at the first value the type cannot take: the cells are the values that are not null, in order
(`FillAt`, kept by `FillStep`).

The walk keeps two words of bits and never counts, while the header promises entries
of a repeated name in order. What the words say is `Visits`: the bit of entry i is set
when as many members of its name have come by as there are entries of that name up to
i. `EntryFound` concludes that the first open entry of a name is the one the next
member of that name belongs to, an argument that counts members against entries
(`CountReaches`, `CountGrows`). A member finds no entry, or reads one, or is refused
and ends the walk: `IdleStep`, `ReadStep` and `BalkStep` keep `WalkAt`, from which
`WalkKeepsPromise` reads the answer off: every entry met before the first refusal is
found and converted, that refusal is the answer, and none behind it is touched.

### The compressed sets: `MultiArenaAndRoaringProofs`

| theorem | statement |
|---|---|
| `BlocksAreAccounted` | `RoaringSpec => []BlocksAccounted` |
| `RoaringIsValueSets` | `RoaringSpec => IsValueSets` |

Both hold for every number of handles, any numbers added, any ranges, any size of a
key, a word and an array, and a pool that may refuse at any block. `RoaringInv` says
that each set is in order (`IsGood`: sparse with its values ascending, or a directory
whose keys ascend and whose containers have the kind, the count and the block of what
they hold) and that the pool has lent exactly what all sets together name. It is
stronger than `BlocksAccounted` where the merges need it: a container is never empty,
its low parts lie in the key, words have the one block a bitmap has.

A call is a function from a step to a step and refuses in the middle, so what it keeps
is said of any step: `Working(s, base)` holds while the set under construction is in
order and the pool has lent `base` and what that set names. For a call on one handle,
`base` is what the others name (`OthersAre`, `Exchanged`). It is carried outwards in
four stages:

- a container emitted joins the set behind what is there, or the call is refused and
  the block it took is given back (`PushIs`, `EmitIs`, `EmitArrayIs`, `EmitWordsIs`);
- the merge of one key, whatever the kinds of its two containers, emits the set
  algebra of their low parts, cut to the range (`AndIs`, `OrIs`, `AndnotIs`);
- a merge is a fold over the keys. `KeyFold` takes it turn by turn: after each key
  the set is what was asked for below it; a refusal stops every later turn;
- `finish` gives back everything after a refusal (`FinishIs`, `FreeIs`), which is why
  a refused operation has changed no set.

The sparse paths are beside that (`ValuesResultIs`, `SparseFilterIs`), and the add
(`AddIs`) has a case for each change of form. `StepMaps` joins them: a step keeps
`RoaringInv` and is a step of `ValueSets`. A refused add can leave another form behind
(section 4), and that is seen here too: `IsGood` allows a directory of few values, and
only what the sets hold is the same.

### Assumptions, and what is only model checked

The assumptions are those of the modules: the values of the width are a
multiple of 8 and more than 8, and for the ladder a power of two; sizes and capacities lie in it; names
of host blocks, lent blocks, what a client leaves in a buffer, and `NULL` are different; the null key is no
name. TLC evaluates each of them on the run of its module. `PoolsAssumption` adds that the
fixed pool's width is a multiple of 8 too, and that the defaults of the graded blocks
are not zero (`graded_block_pool.h:108`), an option of zero standing for the default.
`RoaringAssumption` relates the sizes the code fixes: a key is a whole number of words,
an array at its limit and a sparse set at its limit each fit a bitmap's block, two
sparse sets fit one array, an entry of the directory is as large as the first block
and no smaller than a value. `OpsAssumption` says that the handles are finite in number
and that a client adds numbers and asks with handles and ranges.

Induction over data is possible in one form only. The library's induction theorems
take a predicate and cannot be instantiated here, but well-foundedness stated about
sets can: `NatSetInduction` and `FiniteSetInduction` of `DataLemmas` are induction for
a set of naturals and a set of finite sets. With them a recursive function is treated
as a fixed point: it exists because it can be built step by step
(`StepwiseExists`), so `CHOOSE` satisfies its equation, and what it computes follows
by induction over that. Sums (`SumAdd`, `SumTotal`), the walk of a list, the
rebuilding of a table, the fold of a free and the concatenation of a copy are done
this way. The provers cannot see `RECURSIVE` operators; the modules declare none.

Only model checked: what is read from the compressed sets (`ReadsAgree`,
`QueriesAgree`), where ranks, pages and listings would each need its own argument about
positions in several sorted sequences at once; the converters (`ConvertersAgree`), where
the property compares seven routines with a definition for each input, so that a proof
is an induction over the input for every one of them. Liveness (`ScansEnd`) and
`ENABLED` are beyond the prover. The three runs that expect a violation state what a
header says and the code does not do.

## 6. Not modelled

- Contents of memory, other than where an algorithm reads them back (links, slots,
  keys, text); `arnm_clone`, which is an allocation and a copy; queries that only
  read a field.
- Hash rounds: `KeyMap` takes any function. Timer, duration, result names: I/O and
  tables. Bit tests and unaligned loads: single words without state.
- Memory block and byte buffer, but for `arnm_memory_block_realloc` behind a
  written text: a pointer, a size and a fill index over calls that are modelled.
- yyjson: third party. So are its grammar, its number formatting and the message
  and position it reports of a text it refuses.
- In the JSON memory: lengths above 4 GiB, which no caller can name; sizes that grow
  a block in the middle of a run, and the answer that a chain is not taken, neither
  of which a single handle reaches.
- In the dynamic pool: the arenas a reserve has made when the host refuses it one,
  which it gives back before it returns. In the operations on roaring bitmaps: the
  cursors of a merge, of which the result, its form and the blocks it draws are modelled.
- In the writer: the size hints of its pools, the estimate of the text's size (the
  count it is made from is modelled) and write flags it does not know.
- In the reader: null pointers for the table or the output, and what a refused
  parse keeps of the parser's error.
- In the converter: inputs whose text would pass 4 GiB; words of 64 bits, which are
  scaled to 2048, so that the rungs of the ladder and both wrapping ends are reached;
  and the calls that are told a string size other than the exact one.

## 7. Plan

1. Theorems: `ReadsAgree` from `RoaringInv`, one reading call at a time;
   `ConvertersAgree`, routine by routine.
2. The byte buffer over a handle, if it gains a decision of its own.
3. A document in a multi arena: `JsonMemory` over `MultiArena`, whose tail is not
   where a single arena has it.

Every hazard is listed in `PROJECT.json` with the line where it bites and the
properties that would catch it.
