----------------------------- MODULE JsonReader -----------------------------
(***************************************************************************)
(* The reads of a parsed document (src/json_reader.c): one walk over an    *)
(* object against a table of fields, one fill of a buffer from an array.   *)
(* A parse and the memory it draws are in JsonMemory.                      *)
(*                                                                         *)
(* A JSON value is a kind and what of it a conversion asks: the number, or *)
(* the length of a string and what it spells; "none" is a NULL handle.  A   *)
(* field's target holds KEPT, what the caller had put there, until         *)
(* something is written.                                                   *)
(***************************************************************************)
EXTENDS Integers, Sequences, SequencesExt, FiniteSetsExt

CONSTANTS UINT64_TOP, INT64_TOP, UINT32_TOP, INT32_TOP,   \* widths, scaled
          UUID_TEXT,               \* ARNM_UUID_STRING_LENGTH, scaled
          UUID_SIZE,               \* ARNM_UUID_BINARY_SIZE, scaled
          FIELDS_MAX,              \* ARNM_JSON_FIELDS_MAX, the bits of the mask
          KEPT, ZEROED

ASSUME ReaderAssumption ==
  /\ UINT64_TOP = 2 * INT64_TOP + 1
  /\ UINT32_TOP = 2 * INT32_TOP + 1
  /\ INT32_TOP \in Nat /\ INT64_TOP \in Nat /\ INT64_TOP > UINT32_TOP
  /\ UUID_TEXT \in Nat /\ UUID_SIZE \in Nat
  /\ FIELDS_MAX \in Nat \ {0}

Integer == {"UINT64", "INT64", "UINT32", "INT32"}
Text    == {"STRING", "HEX_FIXED", "UUID"}
Types   == Integer \cup Text \cup {"DOUBLE", "BOOL", "VALUE"}

wrote(value)     == [result |-> "SUCCESS", target |-> value]
refused(result)  == [result |-> result, target |-> KEPT]

-----------------------------------------------------------------------------
(* One value into one target.  A number is `negative` when it is signed    *)
(* and below zero; everything else is read as both.                        *)
(* (json_reader.c, read_field)                                             *)

read_integer(type, value) ==
  LET fits == CASE type = "UINT64" -> value.n >= 0
                [] type = "UINT32" -> value.n >= 0 /\ value.n <= UINT32_TOP
                [] type = "INT64"  -> value.n <= INT64_TOP
                [] type = "INT32"  -> /\ value.n <= INT64_TOP
                                      /\ value.n \in (0 - INT32_TOP - 1)..INT32_TOP
  IN  IF value.kind \notin {"uint", "sint"} THEN refused("ERROR_INVALID_ENUM_TYPE")
      ELSE IF fits THEN wrote(value) ELSE refused("ERROR_ARITHMETIC_OVERFLOW")

(* `room` is the size in the block the caller handed over.  A string of    *)
(* the right length that spells something else has the block zeroed.       *)
read_text(type, room, value) ==
  LET decoded(what) == IF value.spells = what THEN wrote(value)
                       ELSE [result |-> "ERROR_DECODE_FAILED", target |-> ZEROED]
  IN  IF value.kind # "str" THEN refused("ERROR_INVALID_ENUM_TYPE")
      ELSE CASE type = "STRING" -> wrote(value)
             [] type = "HEX_FIXED" ->
                  IF room * 2 # value.size THEN refused("ERROR_DECODE_FAILED")
                  ELSE decoded("hex")
             [] type = "UUID" ->
                  IF value.size # UUID_TEXT \/ room # UUID_SIZE
                  THEN refused("ERROR_DECODE_FAILED")
                  ELSE decoded("uuid")

read_field(field, value) ==
  CASE ~field.target          -> refused("ERROR_NULL_POINTER")
    [] field.target /\ field.type \in Integer -> read_integer(field.type, value)
    [] field.target /\ field.type \in Text    -> read_text(field.type, field.room, value)
    [] field.target /\ field.type = "VALUE"   -> wrote(value)
    [] field.target /\ field.type = "BOOL"    ->
         IF value.kind = "bool" THEN wrote(value) ELSE refused("ERROR_INVALID_ENUM_TYPE")
    [] field.target /\ field.type = "DOUBLE"  ->
         IF value.kind \in {"uint", "sint", "real"} THEN wrote(value)
         ELSE refused("ERROR_INVALID_ENUM_TYPE")
    [] field.target /\ field.type \notin Types -> refused("ERROR_INVALID_PARAM")

-----------------------------------------------------------------------------
(* The walk over an object: `visited` and `found` are the two masks.       *)

valid_mask(fields) == 1..Len(fields)

(* The entry a member meets: the first one from the lowest open bit up     *)
(* that is open and has its key; none is NOT_NAMED.                        *)
NOT_NAMED == 0
entry_met(s, fields, key) ==
  LET open == { i \in valid_mask(fields) \ s.visited : fields[i].key = key }
  IN  IF open = {} THEN NOT_NAMED ELSE Min(open)

passed_over(type, value) == value.kind = "null" /\ type # "VALUE"

\* Mutant: a null member leaves its entry open.
step_null_unspent(s, fields, member) ==
  LET i == entry_met(s, fields, member.key)
  IN  IF s.stopped \/ valid_mask(fields) \subseteq s.visited \/ i = NOT_NAMED THEN s
      ELSE IF passed_over(fields[i].type, member.value) THEN s
      ELSE LET got == read_field(fields[i], member.value)
           IN  IF got.result # "SUCCESS"
               THEN [s EXCEPT !.stopped = TRUE, !.result = got.result, !.targets[i] = got.target]
               ELSE [s EXCEPT !.visited = @ \cup {i}, !.found = @ \cup {i},
                              !.targets[i] = got.target]

step(s, fields, member) ==
  LET i == entry_met(s, fields, member.key)
  IN  IF s.stopped \/ valid_mask(fields) \subseteq s.visited \/ i = NOT_NAMED THEN s
      ELSE IF passed_over(fields[i].type, member.value)
      THEN [s EXCEPT !.visited = @ \cup {i}]
      ELSE LET got == read_field(fields[i], member.value)
           IN  IF got.result # "SUCCESS"
               THEN [s EXCEPT !.stopped = TRUE, !.result = got.result, !.targets[i] = got.target]
               ELSE [s EXCEPT !.visited = @ \cup {i}, !.found = @ \cup {i},
                              !.targets[i] = got.target]

untouched(fields, result) ==
  [result |-> result, found |-> {}, targets |-> [i \in 1..Len(fields) |-> KEPT]]

read_object(object, fields) ==
  IF object.kind = "none" THEN untouched(fields, "ERROR_NULL_POINTER")
  ELSE IF Len(fields) = 0 \/ Len(fields) > FIELDS_MAX
  THEN untouched(fields, "ERROR_INVALID_PARAM")
  ELSE IF object.kind # "object" THEN untouched(fields, "ERROR_INVALID_ENUM_TYPE")
  ELSE LET walked == FoldLeft(LAMBDA s, member : step(s, fields, member),
                              [result |-> "SUCCESS", stopped |-> FALSE, visited |-> {},
                               found |-> {}, targets |-> [i \in 1..Len(fields) |-> KEPT]],
                              object.members)
       IN  [result |-> walked.result, found |-> walked.found, targets |-> walked.targets]

-----------------------------------------------------------------------------
(* The fill from an array: slots close up over nulls, and a refused        *)
(* element ends it where it stands.                                        *)

\* Mutant: the slots before a refused element are counted with it.
fill_counts_refused(s, field, value) ==
  IF s.result # "SUCCESS" \/ passed_over(field.type, value) THEN s
  ELSE LET got == read_field(field, value)
       IN  [result |-> got.result, count |-> s.count + 1,
            slots |-> [s.slots EXCEPT ![s.count + 1] = got.target]]

fill(s, field, value) ==
  IF s.result # "SUCCESS" \/ passed_over(field.type, value) THEN s
  ELSE LET got == read_field(field, value)
       IN  [result |-> got.result,
            count  |-> IF got.result = "SUCCESS" THEN s.count + 1 ELSE s.count,
            slots  |-> [s.slots EXCEPT ![s.count + 1] = got.target]]

element_size_known(type) == type \in Types         \* element_size(type) # 0

read_array(array, type, room, capacity) ==
  LET slots == [i \in 1..capacity |-> KEPT]
      answer(result, count) == [result |-> result, count |-> count, slots |-> slots]
      field == [type |-> type, room |-> room, target |-> TRUE]
  IN  IF array.kind = "none" THEN answer("ERROR_NULL_POINTER", 0)
      ELSE IF capacity = 0 THEN answer("ERROR_INVALID_PARAM", 0)
      ELSE IF ~element_size_known(type) THEN answer("ERROR_INVALID_PARAM", 0)
      ELSE IF array.kind # "array" THEN answer("ERROR_INVALID_ENUM_TYPE", 0)
      ELSE IF Len(array.members) > capacity
      THEN answer("ERROR_DESTINATION_BUFFER_TO_SMALL", Len(array.members))
      ELSE FoldLeft(LAMBDA s, value : fill(s, field, value), answer("SUCCESS", 0),
                    array.members)

-----------------------------------------------------------------------------
(* What json_reader.h promises, member by member and entry by entry.       *)

(* What a type takes, and from where to where.                             *)
Kinds(type) ==
  CASE type \in Integer  -> {"uint", "sint"}
    [] type \in Text     -> {"str"}
    [] type = "BOOL"     -> {"bool"}
    [] type = "DOUBLE"   -> {"uint", "sint", "real"}
    [] type = "VALUE"    -> {"uint", "sint", "real", "str", "bool", "null", "array", "object"}
    [] OTHER             -> {}

Holds(type) ==
  CASE type = "UINT64" -> 0..UINT64_TOP
    [] type = "INT64"  -> (0 - INT64_TOP - 1)..INT64_TOP
    [] type = "UINT32" -> 0..UINT32_TOP
    [] type = "INT32"  -> (0 - INT32_TOP - 1)..INT32_TOP

Shape(type, room, value) ==
  CASE type = "HEX_FIXED" -> value.size = 2 * room /\ value.spells = "hex"
    [] type = "UUID"      -> value.size = UUID_TEXT /\ room = UUID_SIZE /\ value.spells = "uuid"
    [] OTHER              -> TRUE

Refusal(field, value) ==
  IF ~field.target THEN "ERROR_NULL_POINTER"
  ELSE IF field.type \notin Types THEN "ERROR_INVALID_PARAM"
  ELSE IF value.kind \notin Kinds(field.type) THEN "ERROR_INVALID_ENUM_TYPE"
  ELSE IF field.type \in Integer /\ value.n \notin Holds(field.type)
  THEN "ERROR_ARITHMETIC_OVERFLOW"
  ELSE IF field.type \in Text /\ ~Shape(field.type, field.room, value)
  THEN "ERROR_DECODE_FAILED"
  ELSE "SUCCESS"

(* The j-th member of a name belongs to the j-th entry of that name.       *)
Nth(seq, i) == Cardinality({ j \in 1..i : seq[j].key = seq[i].key })
Met(members, fields, i) ==
  { m \in 1..Len(members) : /\ members[m].key = fields[i].key
                            /\ Nth(members, m) = Nth(fields, i) }

(* Every entry whose member is there and not null is read, up to the first *)
(* member that cannot be: that one's refusal is the answer, the mask names *)
(* the entries before it, and no other target is touched.                  *)
ObjectPromise(members, fields, answer) ==
  LET at(i)      == CHOOSE m \in Met(members, fields, i) : TRUE
      value(i)   == members[at(i)].value
      wanted     == { i \in 1..Len(fields) : /\ Met(members, fields, i) # {}
                                             /\ ~passed_over(fields[i].type, value(i)) }
      bad        == { i \in wanted : Refusal(fields[i], value(i)) # "SUCCESS" }
      before     == { i \in wanted : \A b \in bad : at(i) < at(b) }
  IN  /\ answer.found = before
      /\ answer.result = IF bad = {} THEN "SUCCESS"
                         ELSE LET b == CHOOSE i \in bad : \A j \in bad : at(i) <= at(j)
                              IN  Refusal(fields[b], value(b))
      /\ \A i \in before : answer.targets[i] = value(i)
      /\ \A i \in (1..Len(fields)) \ before :
           \/ answer.targets[i] = KEPT
           \/ i \in bad /\ answer.targets[i] = ZEROED /\ fields[i].type \in {"HEX_FIXED", "UUID"}

(* The slots are the array's values less its nulls, in order, up to the    *)
(* first that the type cannot take; the count names those slots exactly.   *)
(* An array longer than the buffer is refused whole, with its length.      *)
ArrayPromise(members, type, room, capacity, answer) ==
  LET field   == [type |-> type, room |-> room, target |-> TRUE]
      kept    == { m \in 1..Len(members) : ~passed_over(type, members[m]) }
      bad     == { m \in kept : Refusal(field, members[m]) # "SUCCESS" }
      taken   == { m \in kept : \A b \in bad : m < b }
      slot(m) == Cardinality({ j \in 1..m : j \in kept })
  IN  IF Len(members) > capacity
      THEN /\ answer.result = "ERROR_DESTINATION_BUFFER_TO_SMALL"
           /\ answer.count = Len(members)
           /\ \A i \in 1..capacity : answer.slots[i] = KEPT
      ELSE /\ answer.count = Cardinality(taken)
           /\ answer.result = IF bad = {} THEN "SUCCESS"
                              ELSE LET b == CHOOSE m \in bad : \A n \in bad : m <= n
                                   IN  Refusal(field, members[b])
           /\ \A m \in taken : answer.slots[slot(m)] = members[m]
           /\ \A i \in (answer.count + 1)..capacity :
                answer.slots[i] = KEPT \/ (i = answer.count + 1 /\ answer.slots[i] = ZEROED)
=============================================================================
