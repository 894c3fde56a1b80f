---------------------------- MODULE MCPttCapture ----------------------------
(* PttCapture for TLC. *)
EXTENDS PttCapture

=============================================================================
