---------------------------- MODULE MCMultiArena ----------------------------
(* A chain whose arenas hold two or three 8 byte units, on a machine whose *)
(* largest size is 39: every arena fills, closes and reopens within a few  *)
(* calls, and requests larger than a regular arena are asked for.          *)
EXTENDS MultiArena, TLC

Opt(c, m, f) == [arena_capacity |-> c, arena_max_count |-> m, full_remaining |-> f]

MCOptionSets == { Opt(20, 0, 8), Opt(0, 2, 0), Opt(8, 0, 0), Opt(33, 0, 1) }

Names == Permutations(HostBlocks)
=============================================================================
