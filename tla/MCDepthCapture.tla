--------------------------- MODULE MCDepthCapture ---------------------------
(***************************************************************************)
(* TLC instance of DepthCapture: 20 frames per file, as in the code, and  *)
(* frame numbers modulo 23.                                                *)
(***************************************************************************)
EXTENDS DepthCapture
=============================================================================
