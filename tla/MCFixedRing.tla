---------------------------- MODULE MCFixedRing -----------------------------
(* Rings of one to four slots, so head wraps many times over; 9 slots, and *)
(* 4 slots of two bytes, sit at the edge of the largest allocation (8).    *)
EXTENDS FixedRing
=============================================================================
