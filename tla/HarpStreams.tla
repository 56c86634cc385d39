---------------------------- MODULE HarpStreams ----------------------------
(***************************************************************************)
(* The one parameter that the vision half (WaterHarp.py) and the sound     *)
(* half (WaterHarpAudio.py) of the harp share: how many water streams the  *)
(* instrument has.  Python index i is stream i + 1 here.                   *)
(***************************************************************************)
EXTENDS Naturals

CONSTANT NUM_STREAMS   (* 16 in WaterHarp.NUM_STREAMS and WaterHarpAudio.NUM_STREAMS *)

\* The scale has 16 notes, so a harp cannot have more streams than that.
ASSUME NumStreamsAssumption == NUM_STREAMS \in 1..16

Streams == 1..NUM_STREAMS
=============================================================================
