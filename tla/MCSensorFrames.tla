--------------------------- MODULE MCSensorFrames ---------------------------
(* TLC instance of SensorFrames: frames of two packets, whose numbers wrap   *)
(* around at every place of a frame.  A loss can take the end of one frame   *)
(* and the start of the next; losses may happen as often as they like.       *)
EXTENDS SensorFrames
=============================================================================
