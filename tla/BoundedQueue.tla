---------------------------- MODULE BoundedQueue ----------------------------
(***************************************************************************)
(* What a fixed ring promises (include/arnm/fixed_ring.h): elements leave  *)
(* in the order they arrived, a full queue refuses and changes nothing, and*)
(* whatever is copied out is what the queue held.                          *)
(***************************************************************************)
EXTENDS Integers, Sequences

CONSTANTS Values, Bounds

VARIABLES queue,    \* front first
          bound,    \* elements it may hold, 0 while it has no storage
          out       \* what the last copying call wrote to the caller

Init == queue = << >> /\ bound = 0 /\ out = << >>

Open(n) == bound = 0 /\ n > 0 /\ bound' = n /\ queue' = << >> /\ UNCHANGED out

Close == bound' = 0 /\ queue' = << >> /\ UNCHANGED out

Clear == queue' = << >> /\ UNCHANGED <<bound, out>>

Enqueue(v) ==
  /\ Len(queue) < bound
  /\ queue' = Append(queue, v)
  /\ UNCHANGED <<bound, out>>

Dequeue == queue # << >> /\ queue' = Tail(queue) /\ UNCHANGED <<bound, out>>

DequeueCopy ==
  /\ queue # << >>
  /\ queue' = Tail(queue)
  /\ out' = << Head(queue) >>
  /\ UNCHANGED bound

Update(i, v) ==
  /\ i \in 1..Len(queue)
  /\ queue' = [queue EXCEPT ![i] = v]
  /\ UNCHANGED <<bound, out>>

CopyAll == out' = queue /\ UNCHANGED <<queue, bound>>

Next ==
  \/ \E n \in Bounds : Open(n)
  \/ Close \/ Clear \/ Dequeue \/ DequeueCopy \/ CopyAll
  \/ \E v \in Values : Enqueue(v)
  \/ \E i \in 1..Len(queue), v \in Values : Update(i, v)

Spec == Init /\ [][Next]_<<queue, bound, out>>
=============================================================================
