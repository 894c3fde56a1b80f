-------------------------- MODULE MCPttPostprocess --------------------------
(* Values for the checks of PttPostprocess.                                *)
EXTENDS PttPostprocess

CONSTANTS F1, F2, f1, f2

Mode(p, h, a) == [push_to_talk |-> p, ptt_hold |-> h, ai |-> a]
ToggleAiOrContinuous == {Mode(TRUE, FALSE, TRUE), Mode(FALSE, FALSE, FALSE)}
ContinuousAfterHold == {Mode(FALSE, TRUE, FALSE)}

(* Flush tasks are told apart by nothing but their number. *)
FlushSymmetry == Permutations(Flushes)
=============================================================================
