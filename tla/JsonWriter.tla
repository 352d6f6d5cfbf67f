----------------------------- MODULE JsonWriter -----------------------------
(***************************************************************************)
(* The JSON writer (src/json_writer.c): a tree built field by field under  *)
(* a stack of open containers, the first refusal kept until it is cleared, *)
(* and the text laid down from the tree at the write.                      *)
(*                                                                         *)
(* yyjson's tree is external: a node is numbered in the order it is taken, *)
(* and a container lists its members.  Where the memory comes from is      *)
(* JsonMemory's concern; here each call finds an allocator that grants     *)
(* some number of draws and refuses the rest.                              *)
(***************************************************************************)
EXTENDS Naturals, Sequences, SequencesExt, ArenaOps

CONSTANTS Keys,             \* field names
          NO_KEY,           \* the NULL key
          Sizes,            \* bytes handed to the hex and base64 adders
          MAX_DEPTH,        \* ARNM_JSON_WRITER_MAX_DEPTH
          MaxNodes          \* bound: nodes the value pool ever grants

\* Two levels at the least: an open looks at the depth before the field it takes
\* has begun a document, and enters the level above that root.
ASSUME WriterAssumption ==
  /\ MAX_DEPTH \in Nat /\ MAX_DEPTH > 1
  /\ MaxNodes \in Nat \ {0}
  /\ Sizes \subseteq Nat
  /\ NO_KEY \notin Keys

VARIABLES writer,           \* json_writer_state
          out               \* the text the last write handed over, or <<>>

vars == <<writer, out>>

-----------------------------------------------------------------------------
(* Nodes.                                                                  *)

Containers == {"object", "array"}
Scalars    == {"plain", "nonfinite"}   \* nonfinite: infinity and NaN, which have no text

node(type) == [type |-> type, members |-> <<>>]

NO_DOC == <<>>              \* doc == NULL

(* What the messages recorded in place of a field name are.                *)
NONE              == ""
ELEMENT           == "[]"
MISSING_KEY       == "Missing key for object container"
KEY_ON_ARRAY      == "Not null key for array container"
CLOSE_TOO_OFTEN   == "arnm_json_writer_close was called too often"
NO_CONTAINER_OPEN == "No container is open"

RESOURCE_SIZE_EXCEED == "ERROR_RESOURCE_SIZE_EXCEED"

field_name(key) == IF key = NO_KEY THEN ELEMENT ELSE key

-----------------------------------------------------------------------------
(* The state behind a writer, and the helpers every handler is made of.    *)

uninitialized ==
  [magic |-> FALSE, as_null |-> FALSE, doc |-> NO_DOC, depth |-> 0, elements |-> 0,
   status |-> SUCCESS, error_field |-> NONE, stack |-> [level \in 1..MAX_DEPTH |-> 0]]

\* Mutant: the last refusal is kept.
record_last_error(s, result, field) == [s EXCEPT !.status = result, !.error_field = field]

\* the first refusal is the one that stays
record_error(s, result, field) ==
  IF s.status # SUCCESS THEN s ELSE [s EXCEPT !.status = result, !.error_field = field]

dispose_document(s) == [s EXCEPT !.depth = 0, !.doc = NO_DOC]

begin_document(s, type, draws) ==
  LET clean == [dispose_document(s) EXCEPT !.status = SUCCESS, !.error_field = NONE]
  IN  IF draws < 2                          \* the document, then its root
      THEN record_error(clean, OUT_OF_MEMORY, NONE)
      ELSE [clean EXCEPT !.doc = << node(type) >>, !.stack[1] = 1, !.depth = 1,
                         !.elements = 1]

\* The first field opens an object; what is left of the draws afterwards.
started(s, draws) == IF s.doc = NO_DOC THEN begin_document(s, "object", draws) ELSE s
left(s, draws)    == IF s.doc # NO_DOC THEN draws ELSE IF draws < 2 THEN 0 ELSE draws - 2

top(s) == s.stack[s.depth]

\* Mutant: the key is not counted.
member_uncounted(s, key, type) ==
  LET member == [key |-> key, node |-> Len(s.doc) + 1]
      joined == Append(s.doc[top(s)].members, member)
  IN  [s EXCEPT !.doc = Append([s.doc EXCEPT ![top(s)].members = joined], node(type)),
                !.elements = @ + 1]

\* one draw for the key and the value, or for the element alone
member_added(s, key, type) ==
  LET member == [key |-> key, node |-> Len(s.doc) + 1]
      joined == Append(s.doc[top(s)].members, member)
  IN  [s EXCEPT !.doc = Append([s.doc EXCEPT ![top(s)].members = joined], node(type)),
                !.elements = @ + (IF key = NO_KEY THEN 1 ELSE 2)]

\* Mutant: a name is taken by an array as well.
refusal_any_key(s, key, draws) ==
  IF s.doc[top(s)].type = "object" /\ key = NO_KEY
  THEN [result |-> INVALID_PARAM, field |-> MISSING_KEY]
  ELSE IF draws = 0 \/ Len(s.doc) = MaxNodes
  THEN [result |-> OUT_OF_MEMORY, field |-> field_name(key)]
  ELSE [result |-> SUCCESS, field |-> NONE]

\* why field() turns a call away, in the order it looks
refusal(s, key, draws) ==
  IF s.depth = 0
  THEN [result |-> INVALID_STATE, field |-> NO_CONTAINER_OPEN]
  ELSE IF s.doc[top(s)].type = "object" /\ key = NO_KEY
  THEN [result |-> INVALID_PARAM, field |-> MISSING_KEY]
  ELSE IF s.doc[top(s)].type = "array" /\ key # NO_KEY
  THEN [result |-> INVALID_PARAM, field |-> KEY_ON_ARRAY]
  ELSE IF draws = 0 \/ Len(s.doc) = MaxNodes
  THEN [result |-> OUT_OF_MEMORY, field |-> field_name(key)]
  ELSE [result |-> SUCCESS, field |-> NONE]

\* the state after field(), its slot tagged as the caller does right behind it
field(s, key, type, draws) ==
  LET open == started(s, draws)
      no   == refusal(open, key, left(s, draws))
  IN  IF s.status # SUCCESS THEN s
      ELSE IF open.doc = NO_DOC THEN open
      ELSE IF no.result # SUCCESS THEN record_error(open, no.result, no.field)
      ELSE member_added(open, key, type)

\* field() answered a slot rather than NULL
field_given(s, key, draws) ==
  LET open == started(s, draws)
  IN  /\ s.status = SUCCESS
      /\ open.doc # NO_DOC
      /\ refusal(open, key, left(s, draws)).result = SUCCESS

\* Text drawn from the string pool first, the field taken after it.
field_of_text(s, key, draws) ==
  LET open == started(s, draws)
      rest == left(s, draws)
  IN  IF s.status # SUCCESS THEN s
      ELSE IF open.doc = NO_DOC THEN open
      ELSE IF rest = 0 THEN record_error(open, OUT_OF_MEMORY, field_name(key))
      ELSE field(open, key, "plain", rest - 1)

-----------------------------------------------------------------------------
(* The serializer (yyjson_mut_val_write_opts): the tree laid down mark by  *)
(* mark.  Containers still open are closed where the caller says so.       *)

mark(s, type) == <<"value", IF type = "nonfinite" /\ s.as_null THEN "plain" ELSE type>>

named(key) == IF key = NO_KEY THEN <<>> ELSE << <<"key", key>> >>

on_stack(s, n) == \E level \in 1..s.depth : s.stack[level] = n

laid_down(s, close_open) ==
  LET text[n \in 1..Len(s.doc)] ==
        LET type    == s.doc[n].type
            members == s.doc[n].members
            inner   == [i \in 1..Len(members) |->
                          named(members[i].key) \o text[members[i].node]]
        IN  IF type \in Scalars THEN << mark(s, type) >>
            ELSE << <<"open", type>> >> \o FlattenSeq(inner) \o
                 (IF ~close_open /\ on_stack(s, n) THEN <<>> ELSE << <<"close", type>> >>)
  IN  IF s.doc = NO_DOC THEN <<>> ELSE text[1]

\* infinity and NaN have no text unless the flag turns them into null
encodable(s) == s.as_null \/ \A n \in 1..Len(s.doc) : s.doc[n].type # "nonfinite"

-----------------------------------------------------------------------------
(* The calls.  The adders cast the handle instead of asking its magic, so  *)
(* the caller must hold an initialized one; the others check.              *)

\* Draws a call finds granted: it asks for the document, its root, a text and
\* a slot at the most.
Draws   == IF writer.doc = NO_DOC THEN 0..4 ELSE 0..2
AnyKey  == Keys \cup {NO_KEY}

Init == writer = uninitialized /\ out = <<>>

\* arnm_json_writer_init, and create where the allocator gives the storage
arnm_json_writer_init(as_null) ==
  /\ ~writer.magic
  /\ writer' = [uninitialized EXCEPT !.magic = TRUE, !.as_null = as_null]
  /\ out' = <<>>

arnm_json_writer_release ==
  /\ writer.magic
  /\ writer' = dispose_document(writer)
  /\ out' = <<>>

\* the document, the magic, then the storage
arnm_json_writer_destroy ==
  /\ writer.magic
  /\ writer' = uninitialized
  /\ out' = <<>>

arnm_json_writer_begin(type) ==
  /\ writer.magic
  /\ \E draws \in Draws : writer' = begin_document(writer, type, draws)
  /\ out' = <<>>

arnm_json_writer_clear_error ==
  /\ writer.magic
  /\ writer' = [writer EXCEPT !.status = SUCCESS, !.error_field = NONE]
  /\ out' = <<>>

\* null, bool, int64, uint64, double, and the borrowed string, NULL for null
arnm_json_writer_add(key, type) ==
  /\ writer.magic
  /\ \E draws \in Draws : writer' = field(writer, key, type, draws)
  /\ out' = <<>>

\* a string copied first, so that a failed copy is no literal null
arnm_json_writer_add_string_copy(key) ==
  /\ writer.magic
  /\ \E draws \in Draws : writer' = field_of_text(writer, key, draws)
  /\ out' = <<>>

\* The largest blocks whose text, quotes and terminator still fit.
JSON_HEX_MAX_BYTES    == (ARNM_MAX_ALLOC_SIZE - 3) \div 2
JSON_BASE64_MAX_BYTES == ((ARNM_MAX_ALLOC_SIZE - 3) \div 4) * 3

\* An empty block is the empty string; one too large is refused by its size,
\* before a document is opened for it.
encoded(s, key, size, max, draws) ==
  IF size = 0 THEN field(s, key, "plain", draws)
  ELSE IF size > max THEN record_error(s, RESOURCE_SIZE_EXCEED, field_name(key))
  ELSE field_of_text(s, key, draws)

arnm_json_writer_add_hex(key, size) ==
  /\ writer.magic
  /\ \E draws \in Draws :
       writer' = encoded(writer, key, size, JSON_HEX_MAX_BYTES, draws)
  /\ out' = <<>>

arnm_json_writer_add_base64(key, size) ==
  /\ writer.magic
  /\ \E draws \in Draws :
       writer' = encoded(writer, key, size, JSON_BASE64_MAX_BYTES, draws)
  /\ out' = <<>>

\* sixteen bytes, or NULL for null
arnm_json_writer_add_uuid(key, present) ==
  /\ writer.magic
  /\ \E draws \in Draws :
       writer' = IF present THEN field_of_text(writer, key, draws)
                 ELSE field(writer, key, "plain", draws)
  /\ out' = <<>>

\* Mutant: the level is entered whether the field was given or not.
opened_anyway(s, key, type, draws) ==
  LET taken == field(s, key, type, draws)
  IN  IF s.status # SUCCESS THEN s
      ELSE IF s.depth >= MAX_DEPTH THEN record_error(s, EXHAUSTED, field_name(key))
      ELSE [taken EXCEPT !.stack[taken.depth + 1] = Len(taken.doc),
                         !.depth = @ + 1, !.elements = @ + 1]

\* The level is checked before the field is taken.
opened(s, key, type, draws) ==
  LET taken == field(s, key, type, draws)
  IN  IF s.status # SUCCESS THEN s
      ELSE IF s.depth >= MAX_DEPTH THEN record_error(s, EXHAUSTED, field_name(key))
      ELSE IF ~field_given(s, key, draws) THEN taken
      ELSE [taken EXCEPT !.stack[taken.depth + 1] = Len(taken.doc),
                         !.depth = @ + 1, !.elements = @ + 1]

open_container(key, type) ==
  /\ writer.magic
  /\ \E draws \in Draws : writer' = opened(writer, key, type, draws)
  /\ out' = <<>>

closed(s) ==
  IF s.status # SUCCESS THEN s
  ELSE IF s.depth <= 1 THEN record_error(s, INVALID_STATE, CLOSE_TOO_OFTEN)
  ELSE [s EXCEPT !.depth = @ - 1]

arnm_json_writer_close ==
  /\ writer.magic
  /\ writer' = closed(writer)
  /\ out' = <<>>

\* A carried error, a missing document, a value without a text or a buffer
\* refused: nothing is handed over.  The document is not consumed.
written(s, granted) ==
  IF s.status = SUCCESS /\ s.doc # NO_DOC /\ encodable(s) /\ granted
  THEN laid_down(s, TRUE) ELSE <<>>

arnm_json_writer_write ==
  /\ writer.magic
  /\ \E granted \in BOOLEAN : out' = written(writer, granted)
  /\ UNCHANGED writer

Next ==
  \/ \E as_null \in BOOLEAN : arnm_json_writer_init(as_null)
  \/ arnm_json_writer_release
  \/ arnm_json_writer_destroy
  \/ arnm_json_writer_clear_error
  \/ \E type \in Containers : arnm_json_writer_begin(type)
  \/ \E key \in AnyKey :
       \/ \E type \in Scalars : arnm_json_writer_add(key, type)
       \/ \E type \in Containers : open_container(key, type)
       \/ \E size \in Sizes :
            \/ arnm_json_writer_add_hex(key, size)
            \/ arnm_json_writer_add_base64(key, size)
       \/ arnm_json_writer_add_string_copy(key)
       \/ \E present \in BOOLEAN : arnm_json_writer_add_uuid(key, present)
  \/ arnm_json_writer_close
  \/ arnm_json_writer_write

Spec == Init /\ [][Next]_vars

-----------------------------------------------------------------------------
(* Properties.                                                             *)

Statuses == Results \cup {RESOURCE_SIZE_EXCEED}
Fields   == Keys \cup {NONE, ELEMENT, MISSING_KEY, KEY_ON_ARRAY, CLOSE_TOO_OFTEN}

Nodes == 1..Len(writer.doc)

\* The writer has the shape of json_writer_state; every member of a container
\* was taken from the pool after it.
TypeOK ==
  /\ writer.magic \in BOOLEAN /\ writer.as_null \in BOOLEAN
  /\ writer.depth \in 0..MAX_DEPTH
  /\ writer.elements \in Nat
  /\ writer.status \in Statuses /\ writer.error_field \in Fields
  /\ writer.stack \in [1..MAX_DEPTH -> 0..MaxNodes]
  /\ Len(writer.doc) <= MaxNodes
  /\ \A n \in Nodes :
       /\ writer.doc[n].type \in Containers \cup Scalars
       /\ \A i \in DOMAIN writer.doc[n].members :
            /\ writer.doc[n].members[i].key \in AnyKey
            /\ writer.doc[n].members[i].node \in (n + 1)..Len(writer.doc)

\* The containers standing open are one path: the root first, each the last
\* member of the one below it, so that a field always lands at the end of the
\* text (json_writer_state.stack, open_container, arnm_json_writer_close).
StackIsPath ==
  /\ writer.depth = 0 <=> writer.doc = NO_DOC
  /\ writer.depth > 0 => writer.stack[1] = 1
  /\ \A level \in 1..writer.depth :
       /\ writer.stack[level] \in Nodes
       /\ writer.doc[writer.stack[level]].type \in Containers
  /\ \A level \in 2..writer.depth :
       LET below == writer.doc[writer.stack[level - 1]].members
       IN  below # <<>> /\ Last(below).node = writer.stack[level]

\* The count the size of the text is guessed from names what is in the tree,
\* refused calls leaving no trace in it: the root, each value, each key, and
\* once more each container opened (json_writer_state.elements).
ElementsMatchDocument ==
  writer.doc # NO_DOC =>
    LET named_nodes == {n \in Nodes : \E m \in Nodes :
                          \E i \in DOMAIN writer.doc[m].members :
                            /\ writer.doc[m].members[i].node = n
                            /\ writer.doc[m].members[i].key # NO_KEY}
        opened_nodes == {n \in Nodes \ {1} : writer.doc[n].type \in Containers}
    IN  writer.elements =
          Len(writer.doc) + Cardinality(named_nodes) + Cardinality(opened_nodes)

\* What a write hands over is one JSON value, read mark by mark with nothing
\* but its own stack: every container closed by its own kind, names in objects
\* and only there, no number that has no text (arnm_json_writer_write).
WrittenIsJson ==
  LET start == [ok |-> TRUE, open |-> <<>>, named |-> FALSE]
      reads(st, m, i) ==
        LET inside == IF st.open = <<>> THEN "none" ELSE Last(st.open)
            place  == \/ inside = "none" /\ i = 1
                      \/ inside = "object" /\ st.named
                      \/ inside = "array"
        IN  CASE m[1] = "key" ->
                   [st EXCEPT !.ok = @ /\ inside = "object" /\ ~st.named, !.named = TRUE]
              [] m[1] = "value" ->
                   [st EXCEPT !.ok = @ /\ place /\ m[2] # "nonfinite", !.named = FALSE]
              [] m[1] = "open" ->
                   [ok |-> st.ok /\ place, open |-> Append(st.open, m[2]), named |-> FALSE]
              [] m[1] = "close" ->
                   [st EXCEPT !.ok = @ /\ inside = m[2] /\ ~st.named,
                              !.open = IF @ = <<>> THEN @ ELSE Front(@)]
      after[i \in 0..Len(out)] == IF i = 0 THEN start ELSE reads(after[i - 1], out[i], i)
  IN  out # <<>> => after[Len(out)].ok /\ after[Len(out)].open = <<>>

\* The tree under its stack is the text of the abstract writer, which grows at
\* its end only, by accepted calls only, and keeps the first refusal
\* (json_writer.h: "Once anything is recorded the writer stops building").
Text == INSTANCE JsonText WITH
  text     <- laid_down(writer, FALSE),
  open     <- [level \in 1..writer.depth |-> writer.doc[writer.stack[level]].type],
  fault    <- [status |-> writer.status, field |-> writer.error_field],
  out      <- out,
  Faults   <- [status : Statuses \ {SUCCESS}, field : Fields],
  NO_FAULT <- [status |-> SUCCESS, field |-> NONE]

IsJsonText == Text!Spec
=============================================================================
