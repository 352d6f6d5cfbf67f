---------------------------- MODULE MCJsonWriter ----------------------------
(* Trees of up to four nodes, three levels deep at the most: enough for a  *)
(* container closed, opened again beside itself, and refused at the limit. *)
EXTENDS JsonWriter
=============================================================================
