---------------------------- MODULE MCFramePool ----------------------------
(* TLC instance of FramePool: users that may do anything in any order. *)
EXTENDS FramePool
=============================================================================
