-------------------------- MODULE MCDepthControls --------------------------
(***************************************************************************)
(* TLC instance of DepthControls, in halves.  The distances are close      *)
(* enough for the clamp to matter and far enough for it not to.  The zooms *)
(* are -3/2, 0, which raises, 1/2, 1 and 3; the aims are the center and    *)
(* places half way to an edge of the sensor and beyond one.                *)
(***************************************************************************)
EXTENDS DepthControls

MCZooms == {-3, 0, 1, 2, 6}
MCAims == {-1, 0, 3}
=============================================================================
