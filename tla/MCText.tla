------------------------------- MODULE MCText -------------------------------
(***************************************************************************)
(* The text routines, one call a behaviour.  The scan of a UTF-8 run goes  *)
(* loop by loop; a conversion or a read of a document answers in one step. *)
(***************************************************************************)
EXTENDS Utf8, Converter, JsonReader

VARIABLES job, reply

text_vars == <<scan, job, reply>>

Ask(what, input) == job = [what |-> what, input |-> input] /\ reply = NO_ANSWER

-----------------------------------------------------------------------------
(* The runs of bytes: every edge of the lead and continuation ranges, and  *)
(* runs long enough for words with a high bit at each place in them.       *)
Edges == {127, 128, 143, 144, 159, 160, 191, 193, 194, 223, 224, 237, 239, 240, 244, 245}
EdgeRuns == { t \in UNION { [1..n -> Edges] : n \in 0..4 } : Len(t) < 4 \/ t[1] >= 224 }
WordRuns == UNION { [1..n -> {127, 191, 194}] : n \in 5..7 }
WideRuns == { << 127, 240 >> \o t : t \in [1..3 -> {127, 143, 144, 191}] }
MCTexts  == EdgeRuns \cup WordRuns \cup WideRuns

-----------------------------------------------------------------------------
(* The texts handed to the decoders: two groups of base64, from the        *)
(* characters A, k, /, the padding and one that is none of them.           *)
Base64Texts ==
  UNION { [1..n -> {65, 107, 47, 61, 33}] : n \in 0..5 }
    \cup { s \in [1..8 -> {65, 47, 61, 33}] : s[1] = 47 /\ s[6] = 65 }

HexTexts == UNION { [1..n -> {47, 48, 57, 58, 64, 65, 70, 71, 97, 102, 103, 193}] : n \in 0..3 }

Uuid      == [i \in 1..16 |-> (i * 37) % 256]
UuidText  == Front(uuid_to_string(Uuid))
UuidTexts == { UuidText, Front(UuidText), Append(UuidText, 48) }
               \cup { [UuidText EXCEPT ![i] = c] : i \in 1..36, c \in {45, 48, 71} }
Bytes     == UNION { [1..n -> {0, 15, 170, 255}] : n \in 0..4 } \cup {Uuid}

Convert ==
  /\ reply = NO_ANSWER
  /\ \/ job.what = "uint64" /\ reply' = uint64_to_string(job.input.size, job.input.value)
     \/ job.what = "int64"  /\ reply' = int64_to_string(job.input.size, job.input.value)
     \/ job.what = "bytes"  /\ reply' = encodings(job.input)
     \/ job.what = "base64" /\ reply' = binary_from_base64(job.input, FALSE)
     \/ job.what = "insitu" /\ reply' = binary_from_base64(job.input, TRUE)
     \/ job.what = "hex"    /\ reply' = binary_from_hex(job.input)
     \/ job.what = "uuid"   /\ reply' = uuid_from_string(job.input)
  /\ UNCHANGED <<scan, job>>

-----------------------------------------------------------------------------
(* The values of a document: numbers at every edge of every width, strings *)
(* of the right and the wrong length that spell hex, a uuid or neither.    *)
Value(kind, n, size, spells) == [kind |-> kind, n |-> n, size |-> size, spells |-> spells]
UInt(n)  == Value("uint", n, 0, "")
SInt(n)  == Value("sint", n, 0, "")
Str(size, spells) == Value("str", 0, size, spells)
Plain(kind)       == Value(kind, 0, 0, "")

ValueSamples ==
  { UInt(n) : n \in {0, INT32_TOP, INT32_TOP + 1, UINT32_TOP, UINT32_TOP + 1,
                     INT64_TOP, INT64_TOP + 1, UINT64_TOP} }
    \cup { SInt(0 - n) : n \in {1, INT32_TOP + 1, INT32_TOP + 2, INT64_TOP + 1} }
    \cup { Str(size, spells) : size \in {2, UUID_TEXT}, spells \in {"hex", "uuid", "neither"} }
    \cup { Plain(kind) : kind \in {"real", "bool", "null", "array", "object"} }

FewValues == { UInt(1), UInt(UINT64_TOP), Str(2, "hex"), Str(2, "neither"), Plain("null") }
FewTypes  == {"NONE", "UINT32", "HEX_FIXED", "VALUE"}

Field(key, type, room, target) == [key |-> key, type |-> type, room |-> room, target |-> target]
Member(key, value) == [key |-> key, value |-> value]
Object(members) == [kind |-> "object", members |-> members]
Array(values)   == [kind |-> "array", members |-> values]
Others == { [kind |-> kind, members |-> << >>] : kind \in {"none", "bool"} }

UpTo(n, S) == UNION { [1..k -> S] : k \in 0..n }

(* Two names met in every order, twice or not at all, against a table that *)
(* may name one twice; and every value against a field of every type.      *)
FewMembers == { Member(k, v) : k \in {"a", "b"}, v \in FewValues }
Entry(key, type) == Field(key, type, 1, TRUE)
FewFields  == { Entry(k, t) : k \in {"a", "b"}, t \in FewTypes }
FewObjects == { Object(m) : m \in UpTo(3, FewMembers) }
FewTables  == UpTo(FIELDS_MAX, FewFields)

SingleObjects == { Object(<< Member("a", v) >>) : v \in ValueSamples }
SingleTables  == { << Field("a", t, room, target) >> :
                     t \in Types \cup {"NONE"}, room \in {1, UUID_SIZE}, target \in BOOLEAN }

EdgeObjects == Others \cup {Object(<< Member("a", UInt(1)) >>)}
EdgeTables  == { << >> } \cup { [i \in 1..n |-> Field("a", "UINT32", 0, TRUE)] :
                                  n \in 1..(FIELDS_MAX + 1) }

WalksOver(objects, tables) == { [object |-> o, fields |-> f] : o \in objects, f \in tables }
Walks == WalksOver(FewObjects, FewTables) \cup WalksOver(SingleObjects, SingleTables)
           \cup WalksOver(EdgeObjects, EdgeTables)

FillsOver(arrays, types, rooms, capacities) ==
  { [array |-> a, type |-> t, room |-> r, capacity |-> c] :
      a \in arrays, t \in types, r \in rooms, c \in capacities }
FewArrays  == { Array(m) : m \in UpTo(3, FewValues) }
PairArrays == { Array(<< v, w >>) : v \in ValueSamples, w \in ValueSamples }
Fills == FillsOver(FewArrays, FewTypes, {1}, 0..3)
           \cup FillsOver(PairArrays, Types, {1, UUID_SIZE}, {3})
           \cup FillsOver(Others, {"VALUE"}, {1}, {1})

Read ==
  /\ reply = NO_ANSWER
  /\ \/ job.what = "object" /\ reply' = read_object(job.input.object, job.input.fields)
     \/ job.what = "array"  /\ reply' = read_array(job.input.array, job.input.type,
                                                    job.input.room, job.input.capacity)
  /\ UNCHANGED <<scan, job>>

-----------------------------------------------------------------------------
NO_TEXT == << >>

TextInit ==
  \/ \E t \in Texts : utf8_init(t) /\ Ask("scan", NO_TEXT)
  \/ /\ utf8_init(NO_TEXT)
     /\ \/ \E size \in 0..6, v \in 0..(WIDE - 1) : Ask("uint64", [size |-> size, value |-> v])
        \/ \E size \in 0..6, v \in (0 - WIDE \div 2)..(WIDE \div 2 - 1) :
             Ask("int64", [size |-> size, value |-> v])
        \/ \E b \in Bytes       : Ask("bytes", b)
        \/ \E s \in Base64Texts : Ask("base64", s) \/ Ask("insitu", s)
        \/ \E s \in HexTexts    : Ask("hex", s)
        \/ \E s \in UuidTexts   : Ask("uuid", s)
        \/ \E w \in Walks       : Ask("object", w)
        \/ \E f \in Fills       : Ask("array", f)

Scan == job.what = "scan" /\ Utf8Next /\ UNCHANGED <<job, reply>>

TextNext == Scan \/ Convert \/ Read

(* A scan that has begun goes on until it returns.                         *)
TextSpec == TextInit /\ [][TextNext]_text_vars /\ WF_text_vars(Scan)

-----------------------------------------------------------------------------
(* utf8.c:30: every scan returns, whatever bytes it is given: no loop      *)
(* leaves the index where it was and comes round again.                    *)
ScansEnd == job.what = "scan" ~> answer # NO_ANSWER

Answered(what) == job.what \in what /\ reply # NO_ANSWER

(* converter.c:82-762: see NumberPromise, Base64Promise, HexPromise and     *)
(* ComesBack; a uuid is taken exactly when its 36 characters are in place.  *)
ConvertersAgree ==
  /\ Answered({"uint64", "int64"}) => NumberPromise(job.input.size, job.input.value, reply)
  /\ Answered({"base64"}) => Base64Promise(job.input, FALSE, reply)
  /\ Answered({"insitu"}) => Base64Promise(job.input, TRUE, reply)
  /\ Answered({"hex"})    => HexPromise(job.input, reply)
  /\ Answered({"bytes"})  => ComesBack(job.input, reply)
  /\ Answered({"uuid"})   =>
       (reply.result = "SUCCESS") <=> /\ Len(job.input) = UUID_STRING_LENGTH
                                       /\ \A d \in 1..Len(job.input) :
                                            IF d \in Dashes THEN job.input[d] = DASH
                                            ELSE HexDigit(job.input[d]) < 16

(* json_reader.c:425: see ObjectPromise.                                   *)
ReadObjectAgrees ==
  Answered({"object"}) /\ job.input.object.kind = "object"
    /\ Len(job.input.fields) \in 1..FIELDS_MAX =>
    ObjectPromise(job.input.object.members, job.input.fields, reply)

(* json_reader.c:514: see ArrayPromise.                                    *)
ReadArrayAgrees ==
  Answered({"array"}) /\ job.input.array.kind = "array" /\ job.input.capacity > 0
    /\ job.input.type \in Types =>
    ArrayPromise(job.input.array.members, job.input.type, job.input.room,
                 job.input.capacity, reply)
=============================================================================
