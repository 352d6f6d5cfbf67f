-------------------------------- MODULE Pools --------------------------------
(***************************************************************************)
(* The pools, each on its own in a behaviour: a ladder of dynamic arena    *)
(* pools, one fixed arena pool, or one pool of graded blocks.              *)
(*                                                                         *)
(* The fixed pool counts in a width of its own; the graded blocks lie in   *)
(* arenas of the ladder's width and names.                                 *)
(***************************************************************************)
EXTENDS GradedArenaPool

CONSTANTS FIXED_UINT32_MAX, FIXED_UINT16_MAX,              \* widths of the fixed pool
          FixedCapacities, FixedAddresses,                 \* what it is asked with
          DEFAULT_MIN_LOG2, DEFAULT_MAX_LOG2, DEFAULT_ALLOC_ARENA_CAPACITY,
          BlockOptions, BlockSizes, BlockLogs, MaxLent     \* the graded blocks

VARIABLES which,                                            \* the pool at work
          fpool, fblock, fused, flink, flent, fresult,      \* the fixed arena pool
          bpool, btaken, bopened, blent, bresult            \* the graded block pool

fixedVars == <<fpool, fblock, fused, flink, flent, fresult>>
blockVars == <<bpool, btaken, bopened, blent, bresult>>
all_vars  == <<which, gradedVars, fixedVars, blockVars>>

Fixed == INSTANCE FixedArenaPool WITH
  UINT32_MAX <- FIXED_UINT32_MAX, UINT16_MAX <- FIXED_UINT16_MAX,
  Capacities <- FixedCapacities, Addresses <- FixedAddresses,
  pool <- fpool, block <- fblock, used <- fused, link <- flink, lent <- flent,
  result <- fresult

Blocks == INSTANCE GradedBlockPool WITH
  Options <- BlockOptions, Sizes <- BlockSizes, Logs <- BlockLogs,
  pool <- bpool, taken <- btaken, opened <- bopened, lent <- blent, result <- bresult

ASSUME PoolsAssumption ==
  /\ Fixed!FixedPoolAssumption /\ Blocks!BlockPoolAssumption
  /\ FIXED_UINT32_MAX \in Nat /\ FIXED_UINT32_MAX > 8 /\ (FIXED_UINT32_MAX + 1) % 8 = 0

-----------------------------------------------------------------------------
AnyInit ==
  /\ which \in {"graded", "fixed", "blocks"}
  /\ GradedInit /\ Fixed!Init /\ Blocks!Init

GradedStep == which = "graded" /\ GradedNext  /\ UNCHANGED <<which, fixedVars, blockVars>>
FixedStep  == which = "fixed"  /\ Fixed!Next  /\ UNCHANGED <<which, gradedVars, blockVars>>
BlockStep  == which = "blocks" /\ Blocks!Next /\ UNCHANGED <<which, gradedVars, fixedVars>>

AnyNext == GradedStep \/ FixedStep \/ BlockStep

AnySpec == AnyInit /\ [][AnyNext]_all_vars

-----------------------------------------------------------------------------
\* fixed_arena_pool.c: see BlockHoldsArenas.
FixedBlockHoldsArenas == Fixed!BlockHoldsArenas

\* graded_block_pool.c: see BlocksDisjoint.
GradedBlocksDisjoint == Blocks!BlocksDisjoint

\* graded_block_pool.c: see EveryByteServes.
GradedEveryByteServes == Blocks!EveryByteServes
=============================================================================
