---------------------------- MODULE MCOniStream ----------------------------
(***************************************************************************)
(* TLC instances of OniStream.  A frame is held by the driver, the holder  *)
(* or a reader, so a pool of one frame more than there are parties never   *)
(* runs out and behaves as the unbounded pool of the code.                 *)
(***************************************************************************)
EXTENDS OniStream, TLC

Symmetry == Permutations(Frames) \cup Permutations(Readers)
=============================================================================
