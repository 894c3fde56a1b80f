------------------------------ MODULE AppState ------------------------------
(***************************************************************************)
(* The application state machine of app/state.rs and the pure part of      *)
(* AppController (app/controller.rs): which state may follow which, and    *)
(* the state each controller method leaves behind.  Every component that   *)
(* touches the controller uses these operators.                            *)
(***************************************************************************)

AppStates == {"Initializing", "Disabled", "Ready", "Listening", "Processing",
              "Transcribing", "Injecting", "Error", "PermissionRequired",
              "MicrophoneUnavailable", "NetworkUnavailable"}

(* The explicit edges; a state may also always be set to itself. *)
Successors ==
  [Initializing          |-> {"Disabled", "Ready", "PermissionRequired",
                              "MicrophoneUnavailable"},
   Disabled              |-> {"Initializing"},
   Ready                 |-> {"Disabled", "Listening", "Processing", "Error",
                              "MicrophoneUnavailable"},
   Listening             |-> {"Processing", "Ready", "Disabled", "Error"},
   Processing            |-> {"Transcribing", "Injecting", "Ready", "Error",
                              "NetworkUnavailable"},
   Transcribing          |-> {"Injecting", "Ready", "Error",
                              "NetworkUnavailable"},
   Injecting             |-> {"Ready", "Error"},
   Error                 |-> {"Ready", "Disabled"},
   PermissionRequired    |-> {"Ready", "Disabled"},
   MicrophoneUnavailable |-> {"Ready", "Disabled"},
   NetworkUnavailable    |-> {"Ready", "Disabled"}]

CanTransition(from, to) == from = to \/ to \in Successors[from]

(* AppController::transition: an illegal edge is an error, state unchanged. *)
Transition(from, to) == IF CanTransition(from, to) THEN to ELSE from

(* The pair of transitions a job makes when it starts.  The first failing   *)
(* edge returns early, so a job that finds Error or Injecting leaves it.    *)
Announce(s) ==
  IF CanTransition(s, "Processing") THEN "Transcribing" ELSE s

(* on_speech_started of the controller. *)
SpeechStart(s) == IF s = "Ready" THEN "Listening" ELSE s

IsPipelineBusy(s) == s \in {"Processing", "Transcribing", "Injecting"}

(* recover_after_segment: the target is Listening while push-to-talk is     *)
(* held, and that target is forced even over an illegal edge.               *)
RecoverAfterSegment(s, pttActive) ==
  IF pttActive THEN "Listening" ELSE Transition(s, "Ready")

(* report_error for the error classes the pipeline can raise. *)
ReportError(s, network) ==
  Transition(s, IF network THEN "NetworkUnavailable" ELSE "Error")

(* finish_audio_action(Restart). *)
FinishRestart(s) == IF s = "Disabled" THEN s ELSE Transition(s, "Ready")

=============================================================================
