--------------------------- MODULE MCBucketVector ---------------------------
(* Buckets of two elements behind an index of at most three slots: the     *)
(* index regrows, tightens and reaches its limit, and the arena runs out.  *)
EXTENDS BucketVector

Names == Permutations(HostAddresses) \cup Permutations(Values)
=============================================================================
