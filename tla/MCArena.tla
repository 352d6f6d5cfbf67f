------------------------------ MODULE MCArena -------------------------------
(***************************************************************************)
(* One handle on a 79 "byte maximum" machine, MAX_ALLOC_SIZE being 72: in  *)
(* the hands of one client that puts it through every mode, or shared by a *)
(* JSON reader or writer and others.  Rounding past the width, a           *)
(* saturating counter and a full arena are all a few calls away, and an    *)
(* arena holds a document of three chunks and two foreign blocks.          *)
(***************************************************************************)
EXTENDS JsonMemory

SymmetricHost == Permutations(HostBlocks)

json_idle == <<role, state, buffer, others, context, header, doc, phase, then, pending,
               answer, kept_before>>

ClientInit ==
  /\ Init
  /\ role = "client"
  /\ context = fresh_context /\ header = <<>> /\ doc = NO_DOC
  /\ state = NULL /\ buffer = NULL /\ others = {}
  /\ phase = "idle" /\ then = "idle" /\ pending = <<>>
  /\ answer = NULL /\ kept_before = 0

ClientNext == role = "client" /\ Next /\ UNCHANGED json_idle

EitherInit == ClientInit \/ JsonInit
EitherNext == ClientNext \/ (role # "client" /\ JsonNext)
EitherSpec == EitherInit /\ [][EitherNext]_all_vars

-----------------------------------------------------------------------------
\* Conservation of bytes (memory.c): an arena's index is exactly what its
\* users hold plus what it knows to be stranded -- a tail block handed back
\* really moves the index, and nothing else ever does; and every host block is
\* owned by the handle or held by a user of it.
EveryByteAccounted ==
  /\ NoHostLeak
  /\ is_arena => memory.last_index = Held(live) + stranded

\* A client's blocks keep their types and share no byte (memory.c:522).
ClientBlocksDisjoint == role = "client" => BlocksDisjoint

\* Whoever uses the allocator, no two blocks share a byte and nothing in use
\* lies past the index (json_memory.h:137).
NoSharedBytes == NothingShared /\ ClientBlocksDisjoint

\* See BlocksAccounted, while a reader or writer is at work.
JsonBlocksAccounted == role # "client" => BlocksAccounted
=============================================================================
