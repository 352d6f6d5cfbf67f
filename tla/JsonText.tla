------------------------------ MODULE JsonText ------------------------------
(***************************************************************************)
(* What a JSON writer promises (include/arnm/json_writer.h): a text that   *)
(* only grows at its end, one accepted call after the other, as a sequence *)
(* of marks.  Containers stand open and are closed innermost first; after  *)
(* the first refusal nothing goes in any more until the error is cleared   *)
(* or a new document is begun.                                             *)
(***************************************************************************)
EXTENDS Naturals, Sequences, SequencesExt

CONSTANTS Keys,         \* names of fields
          NO_KEY,       \* the NULL key of an element
          Scalars,      \* values that are not containers
          Faults,       \* what may be recorded: [status, field]
          NO_FAULT      \* nothing recorded

VARIABLES text,         \* the marks so far; <<>> without a document
          open,         \* the kinds of the containers standing open
          fault,        \* the first refusal, or NO_FAULT
          out           \* the text the last write handed over, or <<>>

vars == <<text, open, fault, out>>

Containers == {"object", "array"}

OpenMark(type)  == <<"open", type>>
CloseMark(type) == <<"close", type>>
Named(key)      == IF key = NO_KEY THEN <<>> ELSE << <<"key", key>> >>

\* the first field opens an object on its own
StartedOpen == IF open = <<>> THEN <<"object">> ELSE open
StartedText == IF open = <<>> THEN << OpenMark("object") >> ELSE text

\* a member of an object has a name, an element of an array has none
Fits(key) == (Last(StartedOpen) = "object") <=> (key # NO_KEY)

Unwritten == out' = <<>>

-----------------------------------------------------------------------------
Init == text = <<>> /\ open = <<>> /\ fault = NO_FAULT /\ out = <<>>

Begin(type) ==
  /\ fault' = NO_FAULT /\ Unwritten
  /\ open' = <<type>>
  /\ text' = << OpenMark(type) >>

BeginRefused ==
  /\ fault' \in Faults /\ Unwritten
  /\ open' = <<>> /\ text' = <<>>

Put(key, value) ==
  /\ fault = NO_FAULT /\ fault' = fault /\ Unwritten
  /\ Fits(key)
  /\ open' = StartedOpen
  /\ text' = StartedText \o Named(key) \o << <<"value", value>> >>

Open(key, type) ==
  /\ fault = NO_FAULT /\ fault' = fault /\ Unwritten
  /\ Fits(key)
  /\ open' = Append(StartedOpen, type)
  /\ text' = StartedText \o Named(key) \o << OpenMark(type) >>

Close ==
  /\ fault = NO_FAULT /\ fault' = fault /\ Unwritten
  /\ Len(open) > 1
  /\ open' = Front(open)
  /\ text' = Append(text, CloseMark(Last(open)))

\* what is refused leaves no mark, an opened document at most
Refuse ==
  /\ fault = NO_FAULT /\ fault' \in Faults /\ Unwritten
  /\ \/ UNCHANGED <<open, text>>
     \/ open' = StartedOpen /\ text' = StartedText

ClearError == fault' = NO_FAULT /\ Unwritten /\ UNCHANGED <<open, text>>

\* the document goes, the error stays
Release == fault' = fault /\ Unwritten /\ open' = <<>> /\ text' = <<>>

\* an empty writer again: the descriptor is initialized or given back
Restart == fault' = NO_FAULT /\ Unwritten /\ open' = <<>> /\ text' = <<>>

\* The text of everything said so far, the open containers closed behind it.
Closed == text \o [i \in 1..Len(open) |-> CloseMark(open[Len(open) + 1 - i])]

Write ==
  /\ fault = NO_FAULT
  /\ UNCHANGED <<fault, open, text>>
  /\ open # <<>>
  /\ out' = Closed

\* a call that changes nothing: after an error, or a write that is refused
Ignored == Unwritten /\ UNCHANGED <<fault, open, text>>

Next ==
  \/ Ignored
  \/ BeginRefused
  \/ Release
  \/ Restart
  \/ ClearError
  \/ Refuse
  \/ Close
  \/ \E type \in Containers : Begin(type)
  \/ \E key \in Keys \cup {NO_KEY} :
       \/ \E value \in Scalars : Put(key, value)
       \/ \E type \in Containers : Open(key, type)
  \/ Write

Spec == Init /\ [][Next]_vars
=============================================================================
