-------------------------------- MODULE Utf8 --------------------------------
(***************************************************************************)
(* arnm_utf8_valid_length (src/utf8.c): how far a run of bytes is well     *)
(* formed UTF-8.  One action per turn of a loop: ASCII a word at a time,   *)
(* then a byte at a time, then one longer sequence by its lead byte.       *)
(*                                                                         *)
(* `LongestValidPrefix` compares the answer with the definition by code    *)
(* points, which the code never assembles.                                 *)
(***************************************************************************)
EXTENDS Naturals, Sequences, SequencesExt, FiniteSetsExt

CONSTANTS WORD,              \* sizeof(uint64_t): bytes looked at in one test
          Texts,             \* the runs of bytes given to the call
          NO_ANSWER

ASSUME Utf8Assumption ==
  /\ WORD \in Nat \ {0, 1}
  /\ \A t \in Texts : t \in Seq(0..255)
  /\ NO_ANSWER \notin Nat

VARIABLES text, index, loop, answer

scan == <<text, index, loop, answer>>

length == Len(text)
byte(i) == text[i + 1]                  \* bytes[i]

utf8_init(t) ==
  /\ text = t
  /\ index = 0
  /\ loop = "outer"
  /\ answer = NO_ANSWER

-----------------------------------------------------------------------------
(* The outer loop chooses by the byte it stands on.                        *)
ascii_begins ==
  /\ loop = "outer" /\ index < length
  /\ byte(index) < 128
  /\ loop' = "words"
  /\ UNCHANGED <<text, index, answer>>

\* Mutant: the word loop retries the word it could not pass.
ascii_word_only ==
  /\ loop = "words"
  /\ IF length - index >= WORD /\ \A i \in index..(index + WORD - 1) : byte(i) < 128
     THEN index' = index + WORD /\ UNCHANGED loop
     ELSE loop' = "outer" /\ UNCHANGED index
  /\ UNCHANGED <<text, answer>>

(* A word without a high bit is passed; one with a high bit, or too little *)
(* text for a word, leaves the rest to the byte loop.                      *)
ascii_word ==
  /\ loop = "words"
  /\ IF length - index >= WORD /\ \A i \in index..(index + WORD - 1) : byte(i) < 128
     THEN index' = index + WORD /\ UNCHANGED loop
     ELSE loop' = "bytes" /\ UNCHANGED index
  /\ UNCHANGED <<text, answer>>

ascii_byte ==
  /\ loop = "bytes"
  /\ IF index < length /\ byte(index) < 128
     THEN index' = index + 1 /\ UNCHANGED loop
     ELSE loop' = "outer" /\ UNCHANGED index
  /\ UNCHANGED <<text, answer>>

(* What a lead byte asks for: how many continuations, and the range of the *)
(* first of them.                                                          *)
no_lead == [continuations |-> 0, first |-> {}]

lead_of(lead) ==
  CASE lead \in 194..223             -> [continuations |-> 1, first |-> 128..191]
    [] lead = 224                    -> [continuations |-> 2, first |-> 160..191]
    [] lead = 237                    -> [continuations |-> 2, first |-> 128..159]
    [] lead \in (225..239) \ {237}   -> [continuations |-> 2, first |-> 128..191]
    [] lead = 240                    -> [continuations |-> 3, first |-> 144..191]
    [] lead \in 241..243             -> [continuations |-> 3, first |-> 128..191]
    [] lead = 244                    -> [continuations |-> 3, first |-> 128..143]
    [] OTHER                         -> no_lead

\* Mutant: the last continuation of a sequence is not looked at.
sequence_all_but_last(asks) ==
  /\ asks # no_lead
  /\ length - index > asks.continuations
  /\ byte(index + 1) \in asks.first
  /\ \A step \in 2..(asks.continuations - 1) : byte(index + step) \in 128..191

(* The sequence at the index is whole and well formed: the fit is asked    *)
(* before any continuation is read.                                        *)
sequence_holds(asks) ==
  /\ asks # no_lead
  /\ length - index > asks.continuations
  /\ byte(index + 1) \in asks.first
  /\ \A step \in 2..asks.continuations : byte(index + step) \in 128..191

sequence ==
  /\ loop = "outer" /\ index < length
  /\ byte(index) >= 128
  /\ LET asks == lead_of(byte(index))
     IN  IF sequence_holds(asks)
         THEN index' = index + asks.continuations + 1 /\ UNCHANGED answer
         ELSE answer' = index /\ UNCHANGED index
  /\ loop' = IF answer' = NO_ANSWER THEN "outer" ELSE "done"
  /\ UNCHANGED text

run_ends ==
  /\ loop = "outer" /\ index = length
  /\ answer' = length
  /\ loop' = "done"
  /\ UNCHANGED <<text, index>>

Utf8Next == ascii_begins \/ ascii_word \/ ascii_byte \/ sequence \/ run_ends

-----------------------------------------------------------------------------
(* The promise, by code points.                                            *)

(* A lead and its continuations carry the bits below their markers.        *)
Marker == << 128, 32, 16, 8 >>
Point(s) ==
  FoldLeft(LAMBDA high, c : 64 * high + (c % 64), s[1] % Marker[Len(s)],
           SubSeq(s, 2, Len(s)))

(* s is the shortest encoding of a Unicode scalar value.                   *)
Lead     == << 0..127, 192..223, 224..239, 240..247 >>
Shortest == << 0, 128, 2048, 65536 >>

EncodesScalar(s) ==
  /\ s[1] \in Lead[Len(s)]
  /\ \A i \in 2..Len(s) : s[i] \in 128..191
  /\ Point(s) \in Shortest[Len(s)]..1114111
  /\ Point(s) \notin 55296..57343

(* The prefixes of t that are sequences of encoded scalar values.          *)
WellFormedPrefix(t) ==
  LET whole[n \in 0..Len(t)] ==
        n = 0 \/ \E w \in 1..4 : /\ w <= n
                                 /\ whole[n - w]
                                 /\ EncodesScalar(SubSeq(t, n - w + 1, n))
  IN  { n \in 0..Len(t) : whole[n] }

(* utf8.c:30: the answer is the length of the longest well-formed prefix,  *)
(* whichever loop met the byte that ends it: nothing overlong, no          *)
(* surrogate, nothing past U+10FFFF, nothing cut off at the end of the     *)
(* run.                                                                    *)
LongestValidPrefix == answer # NO_ANSWER => answer = Max(WellFormedPrefix(text))
=============================================================================
