--------------------------- MODULE MCSegmentQueue ---------------------------
(* SegmentQueue for TLC. *)
EXTENDS SegmentQueue

=============================================================================
