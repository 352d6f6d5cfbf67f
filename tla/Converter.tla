------------------------------ MODULE Converter -----------------------------
(***************************************************************************)
(* Bytes and numbers as text (src/converter.c): decimal digits written     *)
(* from the back, hex, base64 and its decode over its own text.            *)
(*                                                                         *)
(* Characters are their codes.  A buffer is a sequence of cells, cell i of *)
(* the code at i + 1; UNWRITTEN is what the caller had there.              *)
(***************************************************************************)
EXTENDS Integers, Sequences, SequencesExt, FiniteSetsExt

CONSTANTS WIDE               \* 2^64, scaled: what an unsigned word counts to

ASSUME ConverterAssumption == WIDE \in Nat /\ WIDE % 2 = 0 /\ WIDE > 1

UNWRITTEN == -1
NUL == 0
MINUS == 45
PAD == 61
digit_char(d) == 48 + d

buffer_of(n) == [i \in 1..n |-> UNWRITTEN]

put(buffer, at, c) == [buffer EXCEPT ![at + 1] = c]       \* buffer[at] = c
zeroed(buffer, n)  == [i \in 1..n |-> 0] \o SubSeq(buffer, n + 1, Len(buffer))

answered(result, buffer, size) == [result |-> result, buffer |-> buffer, size |-> size]

-----------------------------------------------------------------------------
(* Numbers.                                                                *)

(* The rungs of the ladder: the powers of ten a word can hold.             *)
Rungs == { p \in {10, 100, 1000, 10000, 100000, 1000000} : p < WIDE }

uint64_to_string_size(value) == 1 + Cardinality({ p \in Rungs : value >= p })

(* |v|, by a subtraction that wraps in the unsigned word.                  *)
int64_to_abs_u64(v) == IF v < 0 THEN (0 - (v % WIDE)) % WIDE ELSE v

int64_to_string_size(v) ==
  uint64_to_string_size(int64_to_abs_u64(v)) + (IF v < 0 THEN 1 ELSE 0)

(* Two digits at a time from the back, while two digits are more than a    *)
(* hundred; a buffer too short for the next pair stops the write.          *)
two_digits(s) ==
  IF s.temp < 100 \/ s.short THEN s
  ELSE IF s.cursor < 2 THEN [s EXCEPT !.short = TRUE]
  ELSE LET r == s.temp % 100
       IN  [s EXCEPT !.temp = s.temp \div 100, !.cursor = s.cursor - 2,
                     !.buffer = put(put(@, s.cursor - 1, digit_char(r % 10)),
                                    s.cursor - 2, digit_char(r \div 10))]

last_digits(s) ==
  IF s.short \/ s.cursor < (IF s.temp < 10 THEN 1 ELSE 2) THEN s
  ELSE IF s.temp < 10
  THEN [s EXCEPT !.buffer = put(@, s.cursor - 1, digit_char(s.temp))]
  ELSE [s EXCEPT !.buffer = put(put(@, s.cursor - 1, digit_char(s.temp % 10)),
                                s.cursor - 2, digit_char(s.temp \div 10))]

(* The number written into size cells from the cell `from` on, and its NUL. *)
uint64_to_string_known_string_size(buffer, from, value, size) ==
  IF value = 0 THEN put(put(buffer, from, digit_char(0)), from + 1, NUL)
  ELSE LET front == SubSeq(buffer, 1, from)
           back  == SubSeq(buffer, from + 1, Len(buffer))
           pairs == FoldLeft(LAMBDA s, turn : two_digits(s),
                             [temp |-> value, cursor |-> size, short |-> FALSE,
                              buffer |-> put(back, size, NUL)],
                             [turn \in 1..size |-> turn])
       IN  front \o last_digits(pairs).buffer

int64_to_string_known_string_size(buffer, value, size) ==
  IF value >= 0 THEN uint64_to_string_known_string_size(buffer, 0, value, size)
  ELSE uint64_to_string_known_string_size(put(buffer, 0, MINUS), 1,
                                          int64_to_abs_u64(value), size - 1)

(* A buffer without room for the digits and the NUL gets the empty string, *)
(* if it has a cell at all.                                                *)
int64_to_string(bufferSize, value) ==
  LET requiredSize == int64_to_string_size(value)
      buffer       == buffer_of(bufferSize)
  IN  IF bufferSize < requiredSize + 1
      THEN answered("SUCCESS", IF bufferSize = 0 THEN buffer ELSE put(buffer, 0, NUL),
                    requiredSize)
      ELSE answered("SUCCESS",
                    int64_to_string_known_string_size(buffer, value, requiredSize),
                    requiredSize)

uint64_to_string(bufferSize, value) ==
  LET requiredSize == uint64_to_string_size(value)
      buffer       == buffer_of(bufferSize)
  IN  IF bufferSize < requiredSize + 1
      THEN answered("SUCCESS", IF bufferSize = 0 THEN buffer ELSE put(buffer, 0, NUL),
                    requiredSize)
      ELSE answered("SUCCESS",
                    uint64_to_string_known_string_size(buffer, 0, value, requiredSize),
                    requiredSize)

-----------------------------------------------------------------------------
(* Hex.                                                                    *)

nibble_char(n) == n + (IF n < 10 THEN 48 ELSE 87)

binary_to_hex(bytes) ==
  [i \in 1..(2 * Len(bytes)) |->
     LET b == bytes[(i + 1) \div 2]
     IN  nibble_char(IF i % 2 = 1 THEN b \div 16 ELSE b % 16)] \o << NUL >>

upper(c) == IF (c \div 32) % 2 = 1 THEN c - 32 ELSE c      \* c & 0xDF

hex_valid(c) == c \in 48..57 \/ upper(c) \in 65..70
nibble(c)    == ((c % 16) + 9 * (c \div 64)) % 256

(* Every pair is converted, valid or not; one bad character zeroes them.   *)
binary_from_hex(hex) ==
  LET bin_size  == Len(hex) \div 2
      converted == [i \in 1..bin_size |->
                      ((nibble(hex[2 * i - 1]) * 16) + nibble(hex[2 * i])) % 256]
  IN  IF bin_size * 2 # Len(hex)
      THEN answered("ERROR_INVALID_PARAM", buffer_of(bin_size), 0)
      ELSE IF \E i \in 1..Len(hex) : ~hex_valid(hex[i])
      THEN answered("ERROR_DECODE_FAILED", zeroed(converted, bin_size), 0)
      ELSE answered("SUCCESS", converted, bin_size)

-----------------------------------------------------------------------------
(* Base64.                                                                 *)

NO_VALUE == 255

base64_char(v) ==
  CASE v < 26 -> 65 + v
    [] v \in 26..51 -> 97 + (v - 26)
    [] v \in 52..61 -> 48 + (v - 52)
    [] v = 62 -> 43
    [] v = 63 -> 47

base64_value(c) ==
  CASE c \in 65..90  -> c - 65
    [] c \in 97..122 -> c - 97 + 26
    [] c \in 48..57  -> c - 48 + 52
    [] c = 43 -> 62
    [] c = 47 -> 63
    [] OTHER -> NO_VALUE

(* A group of three bytes as four characters; what is missing of the last  *)
(* group reads as zero and is padded out.                                  *)
base64_group(b, rest) ==
  << base64_char(b[1] \div 4),
     base64_char((b[1] % 4) * 16 + (b[2] \div 16)),
     IF rest > 1 THEN base64_char((b[2] % 16) * 4 + (b[3] \div 64)) ELSE PAD,
     IF rest > 2 THEN base64_char(b[3] % 64) ELSE PAD >>

binary_to_base64(bytes) ==
  LET size   == Len(bytes)
      groups == [k \in 1..((size + 2) \div 3) |->
                   LET in(i) == IF 3 * (k - 1) + i <= size THEN bytes[3 * (k - 1) + i] ELSE 0
                   IN  base64_group(<< in(1), in(2), in(3) >>, size - 3 * (k - 1))]
  IN  FlattenSeq(groups) \o << NUL >>

base64_padding(base64) ==
  IF base64[Len(base64)] # PAD THEN 0
  ELSE IF base64[Len(base64) - 1] = PAD THEN 2 ELSE 1

ARNM_BASE64_BINARY_SIZE(length) == (length \div 4) * 3

binary_size(base64) == ARNM_BASE64_BINARY_SIZE(Len(base64)) - base64_padding(base64)

\* Mutant: padding is let through in any group.
is_pad_anywhere(group, k, last) ==
  group[k] = PAD /\ k >= 3 /\ (k = 4 \/ group[4] = PAD)

(* Only the last group is padded, and only in its last two places.         *)
is_pad(group, k, last) ==
  group[k] = PAD /\ last /\ k >= 3 /\ (k = 4 \/ group[4] = PAD)

(* The group of characters k groups into the text, which starts at cell    *)
(* `text` of a memory whose front receives the bytes.  It is read whole    *)
(* before a byte of it is written; s.out counts the bytes so far.          *)
decode_group(s, text, k, groups, size) ==
  LET group     == [i \in 1..4 |-> s.memory[text + 4 * (k - 1) + i]]
      sextet(i) == IF base64_value(group[i]) = NO_VALUE THEN 0 ELSE base64_value(group[i])
      refused   == \E i \in 1..4 : /\ base64_value(group[i]) = NO_VALUE
                                   /\ ~is_pad(group, i, k = groups)
      bytes     == << sextet(1) * 4 + (sextet(2) \div 16),
                      (sextet(2) % 16) * 16 + (sextet(3) \div 4),
                      (sextet(3) % 4) * 64 + sextet(4) >>
      written   == Min({3, size - s.out})
  IN  IF s.refused THEN s
      ELSE IF refused
      THEN [s EXCEPT !.refused = TRUE, !.memory = zeroed(@, size)]
      ELSE [s EXCEPT !.out = @ + written,
                     !.memory = SubSeq(@, 1, s.out) \o SubSeq(bytes, 1, written)
                                  \o SubSeq(@, s.out + written + 1, Len(@))]

base64_decode_into(memory, text, length, size) ==
  FoldLeft(LAMBDA s, k : decode_group(s, text, k, length \div 4, size),
           [memory |-> memory, out |-> 0, refused |-> FALSE],
           [k \in 1..(length \div 4) |-> k])

(* arnm_binary_from_base64 decodes into a buffer beside the text, the      *)
(* insitu call over the text itself.                                       *)
binary_from_base64(base64, insitu) ==
  LET buffer  == IF insitu THEN << >> ELSE buffer_of(ARNM_BASE64_BINARY_SIZE(Len(base64)))
      decoded == base64_decode_into(buffer \o base64, Len(buffer), Len(base64),
                                    binary_size(base64))
  IN  IF base64 = << >> THEN answered("SUCCESS", buffer, 0)
      ELSE IF Len(base64) % 4 # 0
      THEN answered("ERROR_INVALID_PARAM", buffer \o base64, 0)
      ELSE IF decoded.refused THEN answered("ERROR_DECODE_FAILED", decoded.memory, 0)
      ELSE answered("SUCCESS", decoded.memory, binary_size(base64))

base64_binary_size(base64) ==
  IF Len(base64) % 4 # 0 THEN answered("ERROR_DECODE_FAILED", << >>, 0)
  ELSE answered("SUCCESS", << >>, IF base64 = << >> THEN 0 ELSE binary_size(base64))

-----------------------------------------------------------------------------
(* A uuid: the hex of its bytes, broken by dashes.                         *)

UUID_STRING_LENGTH == 36
UUID_BINARY_SIZE   == 16
Dashes == {9, 14, 19, 24}
DASH   == 45

uuid_from_string(s) ==
  IF Len(s) # UUID_STRING_LENGTH
  THEN answered("ERROR_INVALID_PARAM", buffer_of(UUID_BINARY_SIZE), 0)
  ELSE IF \E d \in Dashes : s[d] # DASH
  THEN answered("ERROR_DECODE_FAILED",
                zeroed(buffer_of(UUID_BINARY_SIZE), UUID_BINARY_SIZE), 0)
  ELSE binary_from_hex(SubSeq(s, 1, 8) \o SubSeq(s, 10, 13) \o SubSeq(s, 15, 18)
                       \o SubSeq(s, 20, 23) \o SubSeq(s, 25, 36))

uuid_to_string(uuid) ==
  LET hex == binary_to_hex(uuid)
  IN  [i \in 1..UUID_STRING_LENGTH |->
         IF i \in Dashes THEN DASH
         ELSE hex[i - Cardinality({ d \in Dashes : d < i })]] \o << NUL >>

-----------------------------------------------------------------------------
(* What converter.h promises.                                              *)

(* The digits of a text, read back as a number.                            *)
Digits(s) == FoldLeft(LAMBDA n, c : 10 * n + (c - 48), 0, s)
Spells(s, value) ==
  IF value < 0 THEN s[1] = MINUS /\ Digits(Tail(s)) = 0 - value
  ELSE Digits(s) = value

(* The shortest text of the value with its NUL behind it, or the empty     *)
(* string; the answer is the size either way.                              *)
NumberPromise(bufferSize, value, answer) ==
  LET text == SubSeq(answer.buffer, 1, answer.size)
  IN  IF bufferSize > answer.size
      THEN /\ \A i \in 1..answer.size : answer.buffer[i] \in (48..57) \cup {MINUS}
           /\ Spells(text, value)
           /\ text # << 48 >> => text[IF value < 0 THEN 2 ELSE 1] # 48
           /\ answer.buffer[answer.size + 1] = NUL
           /\ \A i \in (answer.size + 2)..bufferSize : answer.buffer[i] = UNWRITTEN
      ELSE \A i \in 1..bufferSize : answer.buffer[i] = IF i = 1 THEN NUL ELSE UNWRITTEN

(* A text of six-bit characters as bits, and the byte that starts at one.  *)
Bit(s, j)  == (base64_value(s[j \div 6 + 1]) \div 2^(5 - (j % 6))) % 2
Byte(s, b) == FoldLeft(LAMBDA n, i : 2 * n + Bit(s, 8 * (b - 1) + i), 0,
                       [i \in 1..8 |-> i - 1])

(* What may be padded off a text: nothing, one or two characters.          *)
Unpadded(s) == SelectSeq(s, LAMBDA c : c # PAD)

IsBase64(s) ==
  /\ Len(s) % 4 = 0
  /\ LET n == Len(Unpadded(s))
     IN  /\ n + 2 >= Len(s)
         /\ \A i \in 1..n : s[i] # PAD /\ base64_value(s[i]) # NO_VALUE

(* In place or beside: the bytes are the text's bits, one byte for every   *)
(* eight, at the front of the buffer, and the rest of the text stands.     *)
(* A text that is not base64 leaves zeros there, or everything as it was.  *)
Base64Promise(s, insitu, answer) ==
  LET room == IF insitu THEN 0 ELSE ARNM_BASE64_BINARY_SIZE(Len(s))
      size == (Len(Unpadded(s)) * 6) \div 8
      were == (buffer_of(room) \o s)
  IN  IF Len(s) % 4 # 0
      THEN answer.result = "ERROR_INVALID_PARAM" /\ answer.buffer = were
      ELSE IF IsBase64(s)
      THEN /\ answer.result = "SUCCESS"
           /\ answer.size = size
           /\ base64_binary_size(s).size = size
           /\ \A b \in 1..size : answer.buffer[b] = Byte(s, b)
           /\ \A b \in (size + 1)..Len(were) : answer.buffer[b] = were[b]
      ELSE /\ answer.result = "ERROR_DECODE_FAILED"
           /\ LET n == base64_binary_size(s).size
              IN  answer.buffer = zeroed(were, n)

(* Hex: the bytes its digits name, in either case, or zeros.               *)
HexDigit(c) ==
  CASE c \in 48..57  -> c - 48
    [] c \in 65..70  -> c - 65 + 10
    [] c \in 97..102 -> c - 97 + 10
    [] OTHER         -> 16

HexPromise(s, answer) ==
  LET bytes == [i \in 1..(Len(s) \div 2) |-> 16 * HexDigit(s[2 * i - 1]) + HexDigit(s[2 * i])]
  IN  IF Len(s) % 2 # 0
      THEN answer.result = "ERROR_INVALID_PARAM" /\ answer.buffer = buffer_of(Len(s) \div 2)
      ELSE IF \A i \in 1..Len(s) : HexDigit(s[i]) < 16
      THEN answer.result = "SUCCESS" /\ answer.buffer = bytes
      ELSE /\ answer.result = "ERROR_DECODE_FAILED"
           /\ answer.buffer = zeroed(buffer_of(Len(s) \div 2), Len(s) \div 2)

(* Every text the encoders write, its NUL aside, decodes to its bytes.     *)
encodings(bytes) ==
  [hex    |-> binary_to_hex(bytes),
   base64 |-> binary_to_base64(bytes),
   uuid   |-> IF Len(bytes) = UUID_BINARY_SIZE THEN uuid_to_string(bytes) ELSE << NUL >>]

ComesBack(bytes, texts) ==
  LET size == Len(bytes)
      back == binary_from_base64(Front(texts.base64), TRUE)
  IN  /\ \A name \in {"hex", "base64", "uuid"} : Last(texts[name]) = NUL
      /\ binary_from_hex(Front(texts.hex)).buffer = bytes
      /\ Len(texts.base64) = 4 * ((size + 2) \div 3) + 1
      /\ back.size = size /\ SubSeq(back.buffer, 1, size) = bytes
      /\ size = UUID_BINARY_SIZE => uuid_from_string(Front(texts.uuid)).buffer = bytes
=============================================================================
