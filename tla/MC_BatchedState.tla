--------------------------- MODULE MC_BatchedState ---------------------------
(* Small instances of BatchedState for TLC: the constants are given in the *)
(* .cfg files, as model values where they are identifiers.  Locals holds  *)
(* one ShardNodeId: with two shard connections that is two nodes at once, *)
(* enough for a partial and a whole-chain removal and for slot reuse.     *)
EXTENDS BatchedState, TLC
=============================================================================
