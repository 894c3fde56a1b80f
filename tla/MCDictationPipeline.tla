------------------------ MODULE MCDictationPipeline ------------------------
(* DictationPipeline for TLC. *)
EXTENDS DictationPipeline

Mode(ptt, hold, abort) ==
  [push_to_talk |-> ptt, ptt_hold |-> hold, abort_on_focus_loss |-> abort]

AllModes == {Mode(TRUE, TRUE, abort) : abort \in BOOLEAN}
            \cup {Mode(FALSE, hold, abort) : hold, abort \in BOOLEAN}

=============================================================================
