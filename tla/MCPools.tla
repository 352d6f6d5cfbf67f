------------------------------ MODULE MCPools -------------------------------
(* Six bit sizes; seven for the fixed pool, so that up to four arenas have *)
(* blocks that just fit and blocks whose size would wrap.                  *)
EXTENDS Pools, MCGradedArenaPool

\* Every descriptor, an address between two, one in the buffers, one in front
\* of the block.
Places == {-8, 0, 4, 8, 16, 24, 32, 40}

\* Pools of grades 8 and 16 over arenas of 32 bytes, of 16 and 32 over arenas
\* the cap cuts to 56, the defaults, and options that are refused.
Shape(min, max, arenas) == [min |-> min, max |-> max, arenas |-> arenas]

Shapes == {Shape(0, 0, 0), Shape(3, 4, 2), Shape(4, 5, 2), Shape(2, 4, 1),
           Shape(3, 6, 1), Shape(5, 4, 1)}
=============================================================================
