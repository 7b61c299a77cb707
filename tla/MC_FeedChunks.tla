---------------------------- MODULE MC_FeedChunks ----------------------------
(* Small instances of FeedChunks for TLC: the constants are given in the  *)
(* .cfg files.  A websocket message of 2 entries instead of 64 makes a    *)
(* chunk of two updated nodes, or of two present slots, cross the bound   *)
(* as a chunk of 64 does when its nodes have more than one message each.  *)
EXTENDS FeedChunks, TLC
=============================================================================
