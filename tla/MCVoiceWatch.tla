---------------------------- MODULE MCVoiceWatch ----------------------------
(* Values for the checks of VoiceWatch.                                    *)
EXTENDS VoiceWatch, TLC

CONSTANTS a, b, bad

TaskSymmetry == Permutations(Tasks)

(* A file alone, and a drop whose second path cannot be read. *)
Drops == {<<a>>, <<b, bad>>}
=============================================================================
