----------------------------- MODULE JsonMemory -----------------------------
(***************************************************************************)
(* The memory of a JSON reader or writer (src/json_memory.h, and the parts *)
(* of json_writer.c and json_reader.c that take and give back), over one   *)
(* allocator of Arena that others use as well.                             *)
(*                                                                         *)
(* yyjson frees without a size, so each of its blocks carries its size in  *)
(* a header in front.  A document is a run of blocks that come back at     *)
(* once where the arena still ends at the run, and one by one where it     *)
(* does not.  Each step is one call on the allocator; between two calls of *)
(* one operation (phase # "idle") nobody else gets to the allocator.       *)
(***************************************************************************)
EXTENDS Arena, Sequences, SequencesExt

CONSTANTS Roles,            \* {"writer", "reader"}, or one of them
          Handles,          \* what the allocator is: HOST, EXTERNAL
          Capacity,         \* bytes of the arena
          STATE_SIZE,       \* ARNM_JSON_WRITER_SIZE, ARNM_JSON_READER_SIZE
          DOC_SIZE,         \* sizeof(yyjson_mut_doc), or a first value buffer
          ChunkSizes,       \* payloads of the chunks yyjson asks for
          TextSizes,        \* bytes of the written text while it grows
          OtherSizes,       \* blocks of the allocator's other users
          MaxChunks,        \* bound: chunks of one document
          MaxOthers         \* bound: blocks of the others

HEADER == 8                 \* sizeof(json_block_header)

JSON_BLOCK_MAX_PAYLOAD == ARNM_MAX_ALLOC_SIZE - HEADER

ASSUME JsonAssumption ==
  /\ Roles \subseteq {"writer", "reader"}
  /\ Handles \subseteq {HOST, EXTERNAL}
  /\ EXTERNAL \in Handles => Blobs # {}
  /\ Capacity \in 0..UINT32_MAX /\ Capacity % 8 = 0
  /\ STATE_SIZE \in 0..UINT32_MAX
  /\ DOC_SIZE \in Nat /\ ChunkSizes \subseteq Nat
  /\ TextSizes \subseteq 1..ARNM_MAX_ALLOC_SIZE
  /\ OtherSizes \subseteq 0..UINT32_MAX
  /\ MaxOthers \in Nat
  /\ NULL \notin [data : HostBlocks \cup Blobs, off : 0..UINT32_MAX]
  /\ NULL \notin [data : HostBlocks \cup Blobs, off : 0..UINT32_MAX, size : 0..UINT32_MAX]
  /\ NULL \notin Results

VARIABLES role,         \* what holds the document
          context,      \* json_alc_context: kept (arena_kept_bytes), broken, span
          header,       \* address -> total_size in front of each block of yyjson
          doc,          \* its first block and its chunks, newest first
          state,        \* the block of the reader or writer itself, or NULL
          buffer,       \* the text being written, or NULL
          others,       \* blocks of the allocator's other users
          phase,        \* what the running operation does next
          then,         \* what follows once the document is gone
          pending,      \* blocks still to be given back
          answer,       \* what the last release or destroy answered, or NULL
          kept_before   \* bytes stranded in the arena when it began

holder == <<role, state, buffer, others>>
all_vars == <<vars, holder, context, header, doc, phase, then, pending, answer, kept_before>>

-----------------------------------------------------------------------------
NO_DOC == [first |-> NULL, strings |-> <<>>, values |-> <<>>]

address(b) == [data |-> b.data, off |-> b.off]

\* the block a header makes of an address: what arnm_free is told
named(a) == Block(a.data, a.off, header[a])

doc_blocks(d) == ({d.first} \ {NULL}) \cup Range(d.strings) \cup Range(d.values)

chunks(d) == Len(d.strings) + Len(d.values)

fresh_context == [kept |-> FALSE, broken |-> FALSE, span |-> 0]

span_reset(c) == [c EXCEPT !.span = 0, !.broken = FALSE]

\* the block the allocator handed out in this step
taken == CHOOSE b \in live' : b \notin live

-----------------------------------------------------------------------------
(* The headered hooks.                                                     *)

\* Mutant: the run counts what was asked for, not what the arena charges.
charged_unaligned(c, total) == [c EXCEPT !.span = @ + total]

\* a sum that would not fit gives the run up
charged(c, total) ==
  IF arnm_align8_u32(total) > UINT32_MAX - c.span THEN [c EXCEPT !.broken = TRUE]
  ELSE [c EXCEPT !.span = @ + arnm_align8_u32(total)]

\* The allocation itself; what it answers is in result'.
json_block_alloc(size) ==
  IF size > JSON_BLOCK_MAX_PAYLOAD
  THEN Refuse(OUT_OF_MEMORY) /\ UNCHANGED <<context, header>>
  ELSE /\ arnm_alloc(size + HEADER)
       /\ IF result' = SUCCESS
          THEN /\ context' = charged(context, size + HEADER)
               /\ header' = [a \in DOMAIN header \cup {address(taken)} |->
                               IF a = address(taken) THEN size + HEADER ELSE header[a]]
          ELSE UNCHANGED <<context, header>>

\* The size in front follows the allocation, not the request: where nothing
\* changed it stays.
json_block_realloc(a, size) ==
  IF size > JSON_BLOCK_MAX_PAYLOAD
  THEN Refuse(OUT_OF_MEMORY) /\ UNCHANGED <<context, header>>
  ELSE /\ arnm_realloc(named(a), size + HEADER)
       /\ context' = [context EXCEPT !.broken = TRUE]
       /\ header' = IF live' = live THEN header
                    ELSE [x \in (DOMAIN header \ {a}) \cup {address(taken)} |->
                            IF x = address(taken) THEN size + HEADER ELSE header[x]]

\* Mutant: the warning of one block is forgotten at the next that comes back.
disposed_last_wins(c, answered, total) ==
  IF answered = NOT_RECLAIMED THEN [c EXCEPT !.kept = TRUE]
  ELSE [c EXCEPT !.kept = FALSE,
                 !.span = IF arnm_align8_u32(total) > @ THEN 0 ELSE @ - arnm_align8_u32(total)]

\* Bytes the arena keeps are still covered by the run.
disposed(c, answered, total) ==
  IF answered = NOT_RECLAIMED THEN [c EXCEPT !.kept = TRUE]
  ELSE [c EXCEPT !.span = IF arnm_align8_u32(total) > @ THEN 0 ELSE @ - arnm_align8_u32(total)]

\* yyjson drops the block whatever the allocator answers
json_block_dispose(a) ==
  /\ arnm_free(named(a))
  /\ live' = live \ {named(a)}
  /\ context' = disposed(context, result', header[a])
  /\ header' = [x \in DOMAIN header \ {a} |-> header[x]]

\* Mutant: any allocator is asked for the whole run.
span_named_anywhere(c, first) == first # NULL /\ c.span # 0 /\ ~c.broken

\* Whether there is a run that one arnm_free could take.
span_named(c, first) ==
  /\ first # NULL /\ c.span # 0 /\ ~c.broken
  /\ is_arena

\* arnm_free of the pair: host mode frees the one block at the address
span_reclaimable(b) ==
  is_default_alloc \/ is_single_arena_reclaimable(b, arnm_align8_u32(b.size), memory)

\* Every block of the document in one arnm_free.
json_alc_release_span ==
  LET start == Block(doc.first.data, doc.first.off, context.span) IN
  /\ span_named(context, doc.first)
  /\ span_reclaimable(start)
  /\ IF is_default_alloc
     THEN /\ host' = host \ {start.data} /\ live' = live \ {named(doc.first)}
          /\ UNCHANGED memory
     ELSE /\ memory' = bump(memory, -context.span)
          /\ live' = {b \in live : address(b) \notin doc_blocks(doc)}
          /\ UNCHANGED host
  /\ result' = SUCCESS /\ UNCHANGED stranded
  /\ context' = span_reset(context)
  /\ header' = [x \in DOMAIN header \ doc_blocks(doc) |-> header[x]]

span_comes_back ==
  /\ role = "writer"
  /\ span_named(context, doc.first)
  /\ span_reclaimable(Block(doc.first.data, doc.first.off, context.span))

-----------------------------------------------------------------------------
(* Letting a document go: dispose_document of the writer and the reader.   *)

\* yyjson_mut_doc_free: the string pool, the value pool, the document; and
\* yyjson_doc_free: the copy of the text (a string chunk here), the values.
in_release_order(d) == d.strings \o d.values \o << d.first >>

\* The document goes, then the operation carries on with `next`.
dispose_document(next) ==
  /\ kept_before' = stranded
  /\ answer' = SUCCESS
  /\ IF doc = NO_DOC
     THEN /\ phase' = next
          /\ UNCHANGED <<vars, context, header, doc, pending, then>>
     ELSE IF span_comes_back
     THEN /\ json_alc_release_span
          /\ doc' = NO_DOC
          /\ phase' = next
          /\ UNCHANGED <<pending, then>>
     ELSE /\ context' = [context EXCEPT !.kept = FALSE]
          /\ pending' = in_release_order(doc)
          /\ phase' = "free" /\ then' = next
          /\ UNCHANGED <<vars, header, doc>>
  /\ UNCHANGED holder

\* what is left of a document being given back is dropped with its last block
free_next ==
  /\ phase = "free" /\ pending # <<>>
  /\ json_block_dispose(Head(pending))
  /\ pending' = Tail(pending)
  /\ UNCHANGED <<holder, phase, then, doc, answer, kept_before>>

\* The answer of the writer and of the reader; the writer starts a new run.
document_gone ==
  /\ phase = "free" /\ pending = <<>>
  /\ doc' = NO_DOC
  /\ answer' = IF answer = NULL THEN NULL
               ELSE IF context.kept THEN NOT_RECLAIMED ELSE SUCCESS
  /\ context' = IF role = "writer" THEN span_reset(context) ELSE context
  /\ phase' = then
  /\ then' = "idle"
  /\ UNCHANGED <<vars, holder, header, pending, kept_before>>

-----------------------------------------------------------------------------
(* The operations.                                                         *)

idle == phase = "idle"

quiet == UNCHANGED <<then, pending>>        \* nothing is being given back

\* no call that answers for a document
unanswered == answer' = NULL /\ kept_before' = 0

JsonInit ==
  /\ role \in Roles
  /\ memory \in {arnm_intern(type, IF type = HOST THEN NULL ELSE CHOOSE d \in Blobs : TRUE,
                             IF type = HOST THEN 0 ELSE Capacity) : type \in Handles}
  /\ host = {} /\ live = {} /\ stranded = 0 /\ result = SUCCESS
  /\ context = fresh_context /\ header = <<>> /\ doc = NO_DOC
  /\ state = NULL /\ buffer = NULL /\ others = {}
  /\ phase = "idle" /\ then = "idle" /\ pending = <<>>
  /\ answer = NULL /\ kept_before = 0

create ==
  /\ idle /\ state = NULL
  /\ arnm_alloc(STATE_SIZE)
  /\ state' = IF result' = SUCCESS THEN taken ELSE NULL
  /\ context' = fresh_context
  /\ unanswered
  /\ UNCHANGED <<role, buffer, others, header, doc, phase>> /\ quiet

release == idle /\ state # NULL /\ dispose_document("idle")

destroy == idle /\ state # NULL /\ dispose_document("storage")

\* The warning outlives a success, whichever half it comes from.
destroyed(document, storage) ==
  IF role = "writer" THEN (IF storage # SUCCESS THEN storage ELSE document)
  ELSE (IF document = NOT_RECLAIMED THEN document ELSE storage)

storage_freed ==
  /\ phase = "storage"
  /\ arnm_free(state)
  /\ live' = live \ {state}
  /\ state' = NULL
  /\ answer' = destroyed(answer, result')
  /\ phase' = "idle"
  /\ UNCHANGED <<role, buffer, others, context, header, doc, kept_before>> /\ quiet

(* The writer: a document, its root in a first chunk, further chunks.      *)

begin_document == idle /\ state # NULL /\ role = "writer" /\ dispose_document("document")

document_taken ==
  /\ phase = "document"
  /\ json_block_alloc(DOC_SIZE)
  /\ IF result' = SUCCESS
     THEN doc' = [NO_DOC EXCEPT !.first = address(taken)] /\ phase' = "root"
     ELSE doc' = NO_DOC /\ phase' = "idle"
  /\ unanswered
  /\ UNCHANGED holder /\ quiet

\* a document without a root is let go again
root_taken ==
  /\ phase = "root"
  /\ \E size \in ChunkSizes :
       /\ json_block_alloc(size)
       /\ IF result' = SUCCESS
          THEN doc' = [doc EXCEPT !.values = << address(taken) >>] /\ phase' = "idle"
          ELSE doc' = doc /\ phase' = "rootless"
  /\ UNCHANGED <<holder, answer, kept_before>> /\ quiet

rootless == phase = "rootless" /\ dispose_document("idle")

\* a pool that ran out chains one more chunk
pool_grown ==
  /\ idle /\ role = "writer" /\ doc # NO_DOC /\ chunks(doc) < MaxChunks
  /\ \E size \in ChunkSizes, pool \in {"strings", "values"} :
       /\ json_block_alloc(size)
       /\ doc' = IF result' = SUCCESS
                 THEN [doc EXCEPT ![pool] = << address(taken) >> \o @] ELSE doc
  /\ unanswered
  /\ UNCHANGED <<holder, phase>> /\ quiet

(* The reader: a copy of the text, a buffer of values that grows.          *)

begin_parse == idle /\ state # NULL /\ role = "reader" /\ dispose_document("copy")

\* a length no parse could carry is refused once the old document is gone; in
\* situ nothing is copied
copy_taken ==
  /\ phase = "copy"
  /\ \/ /\ Refuse(INVALID_PARAM)
        /\ doc' = NO_DOC /\ phase' = "idle"
        /\ UNCHANGED <<context, header>>
     \/ /\ doc' = NO_DOC /\ phase' = "values"
        /\ UNCHANGED <<vars, context, header>>
     \/ \E size \in TextSizes :
          /\ json_block_alloc(size)
          /\ IF result' = SUCCESS
             THEN doc' = [NO_DOC EXCEPT !.strings = << address(taken) >>] /\ phase' = "values"
             ELSE doc' = NO_DOC /\ phase' = "idle"
  /\ unanswered
  /\ UNCHANGED holder /\ quiet

undone(blocks) == pending' = blocks /\ phase' = "free" /\ UNCHANGED then

values_taken ==
  /\ phase = "values"
  /\ json_block_alloc(DOC_SIZE)
  /\ IF result' = SUCCESS
     THEN /\ doc' = [doc EXCEPT !.first = address(taken)]
          /\ phase' = "parsing"
          /\ quiet
     ELSE undone(doc.strings) /\ UNCHANGED doc
  /\ UNCHANGED <<holder, answer, kept_before>>

values_grown ==
  /\ phase = "parsing"
  /\ \E size \in ChunkSizes :
       /\ size + HEADER > header[doc.first]
       /\ json_block_realloc(doc.first, size)
       /\ IF result' \in {SUCCESS, NOT_RECLAIMED}
          THEN /\ doc' = [doc EXCEPT !.first = IF live' = live THEN @ ELSE address(taken)]
               /\ UNCHANGED phase /\ quiet
          ELSE undone(<< doc.first >> \o doc.strings) /\ UNCHANGED doc
  /\ UNCHANGED <<holder, answer, kept_before>>

parse_ends ==
  /\ phase = "parsing"
  /\ \/ phase' = "idle" /\ quiet
     \/ undone(<< doc.first >> \o doc.strings)       \* not JSON
  /\ unanswered
  /\ UNCHANGED <<vars, holder, context, header, doc>>

(* The written text: one block of the caller's, without a header.          *)

write ==
  /\ idle /\ role = "writer" /\ doc # NO_DOC /\ Cardinality(others) < MaxOthers
  /\ \E size \in TextSizes : arnm_alloc(size)
  /\ buffer' = IF result' = SUCCESS THEN taken ELSE NULL
  /\ phase' = IF result' = SUCCESS THEN "serialize" ELSE "idle"
  /\ unanswered
  /\ UNCHANGED <<role, state, others, context, header, doc>> /\ quiet

\* the serializer asks for more room where the guess falls short
buffer_grown ==
  /\ phase = "serialize"
  /\ \E size \in TextSizes :
       size > buffer.size /\ arnm_realloc(buffer, size)
  /\ buffer' = IF live' = live THEN buffer ELSE taken
  /\ phase' = IF result' \in {SUCCESS, NOT_RECLAIMED} THEN phase ELSE "unwritten"
  /\ UNCHANGED <<role, state, others, context, header, doc, answer, kept_before>> /\ quiet

unwritten ==
  /\ phase \in {"serialize", "unwritten"}
  /\ arnm_free(buffer)
  /\ live' = live \ {buffer}
  /\ buffer' = NULL
  /\ phase' = "idle"
  /\ UNCHANGED <<role, state, others, context, header, doc, answer, kept_before>> /\ quiet

\* The slack goes home while the block is still at the tail, and the size the
\* caller is given is the size the allocator knows.
text_written ==
  /\ phase = "serialize"
  /\ \E needed \in TextSizes :
       /\ needed <= buffer.size
       /\ arnm_realloc(buffer, needed)
       /\ result' = NOT_RECLAIMED => live' = live
       /\ others' = others \cup
            {[buffer EXCEPT !.size = IF result' = SUCCESS THEN needed ELSE @,
                            !.data = IF live' = live THEN @ ELSE taken.data,
                            !.off  = IF live' = live THEN @ ELSE taken.off]}
  /\ buffer' = NULL
  /\ phase' = "idle"
  /\ UNCHANGED <<role, state, context, header, doc, answer, kept_before>> /\ quiet

(* Others on the same allocator.                                           *)

other_takes ==
  /\ idle /\ Cardinality(others) < MaxOthers
  /\ \E size \in OtherSizes : arnm_alloc(size)
  /\ others' = others \cup (live' \ live)
  /\ unanswered
  /\ UNCHANGED <<role, state, buffer, context, header, doc, phase>> /\ quiet

other_gives ==
  /\ idle
  /\ \E b \in others : arnm_free(b)
  /\ others' = others \cap live'
  /\ unanswered
  /\ UNCHANGED <<role, state, buffer, context, header, doc, phase>> /\ quiet

JsonNext ==
  \/ create \/ release \/ destroy \/ storage_freed
  \/ free_next \/ document_gone
  \/ begin_document \/ document_taken \/ root_taken \/ rootless \/ pool_grown
  \/ begin_parse \/ copy_taken \/ values_taken \/ values_grown \/ parse_ends
  \/ write \/ buffer_grown \/ unwritten \/ text_written
  \/ other_takes \/ other_gives

JsonSpec == JsonInit /\ [][JsonNext]_all_vars

-----------------------------------------------------------------------------
(* Properties.                                                             *)

json_blocks == doc_blocks(doc) \cap DOMAIN header

\* the bytes an arena charges for a set of blocks
Held(S) == SumFunctionOnSet([b \in S |-> Reserved(b)], S)

\* Every block the allocator holds is somebody's, under the size the allocator
\* knows it by: yyjson's by the header in front, the written text by the size
\* it was handed over with.  None is lost, by a run taken back in host mode
\* either (json_block_header, json_alc_release_span, arnm_memory_block).
BlocksAccounted ==
  /\ live = others \cup {named(a) : a \in DOMAIN header}
              \cup ({state, buffer} \ {NULL})
  /\ DOMAIN header \subseteq doc_blocks(doc) \cup Range(pending)

\* No two users of the allocator share a byte, and nothing in use lies past
\* the index: a run given back at once takes no neighbour with it.
NothingShared ==
  /\ \A b, c \in live : b # c => ~Overlap(b, c)
  /\ is_arena => \A b \in live : b.off + Reserved(b) <= memory.last_index

\* The run of a writer's document is the sum the arena charges for its blocks
\* (json_alc_context.span_size), so that it can neither take too much nor
\* miss the tail, and only a host can hand out more than the sum can say; and
\* a document is let go block by block only where the arena does not end at
\* its run.
RunAccounts ==
  role = "writer" =>
    LET charge == Held({named(a) : a \in json_blocks})
    IN  /\ idle /\ ~context.broken => context.span = charge
        /\ idle /\ is_arena => ~context.broken
        /\ is_arena /\ pending # <<>> /\ pending = in_release_order(doc)
             => memory.last_index # doc.first.off + charge

\* A release or a destroy answers the warning exactly when an arena kept bytes
\* it was giving back (json_reader.h, json_writer.h).
ReleaseTellsTruth ==
  idle /\ answer # NULL => (answer = NOT_RECLAIMED <=> stranded > kept_before)
=============================================================================
