----------------------------- MODULE PttCapture -----------------------------
(***************************************************************************)
(* A push-to-talk take (hotkey/manager.rs, game_input/mod.rs, and the PTT  *)
(* part of app/controller.rs, audio/pipeline.rs and lib.rs).               *)
(*                                                                         *)
(* Key edges are dispatched one after the other on the gate thread.  Each  *)
(* accepted edge spawns a worker thread that opens or closes the capture   *)
(* gate; workers run concurrently and meet at ptt_lock, the controller     *)
(* mutex and the atomic ToggleCapture.  The transcription pipeline is the  *)
(* environment here: it moves the controller's state as its jobs run.      *)
(***************************************************************************)
EXTENDS Naturals, FiniteSets, AppState

CONSTANTS Holds,         \* the settings of ptt_hold the run looks at
          Workers,       \* worker threads that may exist at once
          OpenMayFail,   \* set_ptt_active may return an error
          MaxPresses,    \* bound: key presses
          MaxJobs        \* bound: segments queued and not settled

ASSUME CaptureAssumption ==
  /\ Holds \subseteq BOOLEAN /\ OpenMayFail \in BOOLEAN
  /\ IsFiniteSet(Workers)
  /\ MaxPresses \in Nat /\ MaxJobs \in Nat

VARIABLES
  hold,       \* the setting ptt_hold: key-up ends the take; else press again
  state,      \* AppController::state
  pttActive,  \* AppController::push_to_talk_active
  toggle,     \* the atomic TOGGLE_CAPTURE
  gate,       \* the pipeline's ptt_gate; "dead": set, but nothing captures
  callbacks,  \* audio_callbacks_enabled
  worker,     \* the step each worker thread is at
  spoke,      \* release workers that closed an open gate
  queued,     \* release workers whose flushed segment was enqueued
  keyDown,    \* the hotkey
  splitting,  \* the VAD thread is inside on_speech_ended
  jobs,       \* pipeline jobs not settled yet
  job,        \* the stage of the job being processed
  presses,
  overtaken,  \* history: a release closed the gate while a press had yet to
              \* get ptt_lock and open it
  crowded     \* history: a take began while a release worker was running

userVars == <<hold, keyDown, presses, overtaken, crowded>>
pipeVars == <<splitting, jobs, job>>
vars == <<state, pttActive, toggle, gate, callbacks, worker, spoke, queued,
          userVars, pipeVars>>

WorkerSteps == {"none", "check", "lock", "open", "confirm", "listen",
                "pause", "close", "flush", "finish", "reset"}
PressSteps == {"check", "lock", "open", "confirm", "listen"}
ReleaseSteps == {"pause", "close", "flush", "finish", "reset"}

Running(steps) == {w \in Workers : worker[w] \in steps}

(* ptt_lock: held by a press worker from apply_ptt_active to its last step; *)
(* a release worker holds it only for the single step "close".              *)
PttLockFree == Running({"open", "confirm", "listen"}) = {}

To(w, step) == worker' = [worker EXCEPT ![w] = step]

(* can_start_new_ptt_capture. *)
CanStart == state = "Ready" /\ ~pttActive

-----------------------------------------------------------------------------
(* The gate thread.                                                        *)

Spawn(step) ==
  \E w \in Workers :
    /\ worker[w] = "none"
    /\ To(w, step)
    /\ spoke' = spoke \ {w} /\ queued' = queued \ {w}

(* What dispatch_ptt_pressed makes of the toggle before it plans: in hold   *)
(* mode a leftover claim is dropped, and a stop that seems stuck is too.    *)
ToggleAtPlan ==
  CASE toggle \in {"starting", "active"} /\ hold -> "idle"
    [] toggle = "stopping" /\ state \in {"Listening", "Processing"} -> "idle"
    [] OTHER -> toggle

(* A press in toggle mode that ends the take. *)
StopsTake ==
  ~hold /\ (toggle \in {"starting", "active"}
            \/ (state = "Listening" /\ ToggleAtPlan = "idle"))

KeyEdge(down) ==
  /\ keyDown' = down /\ UNCHANGED <<hold, overtaken>>
  /\ presses' = IF down THEN presses + 1 ELSE presses

(* dispatch_ptt_pressed -> plan_hotkey_pressed -> spawn_ptt_press. *)
PressStarts ==
  /\ ~keyDown /\ presses < MaxPresses
  /\ ~StopsTake /\ ToggleAtPlan = "idle" /\ CanStart
  /\ KeyEdge(TRUE)
  /\ crowded' = (crowded \/ Running(ReleaseSteps) # {})
  /\ pttActive' = TRUE
  /\ toggle' = "starting"
  /\ Spawn("check")
  /\ UNCHANGED <<state, gate, callbacks, pipeVars>>

(* dispatch_ptt_toggle_stop -> run_toggle_stop_worker -> spawn_ptt_release. *)
PressStops ==
  /\ ~keyDown /\ presses < MaxPresses
  /\ StopsTake
  /\ KeyEdge(TRUE) /\ UNCHANGED crowded
  /\ toggle' = "stopping"
  /\ Spawn("pause")
  /\ UNCHANGED <<state, pttActive, gate, callbacks, pipeVars>>

(* HotkeyPlan::None, or a press swallowed while the take is stopping. *)
PressIgnored ==
  /\ ~keyDown /\ presses < MaxPresses
  /\ ~StopsTake /\ ~(ToggleAtPlan = "idle" /\ CanStart)
  /\ KeyEdge(TRUE) /\ UNCHANGED crowded
  /\ toggle' = ToggleAtPlan
  /\ UNCHANGED <<state, pttActive, gate, callbacks, worker, spoke, queued,
                 pipeVars>>

(* plan_hotkey_released: does letting go of the key end a take? *)
KeyUpEndsTake == hold /\ pttActive /\ toggle # "stopping"

(* dispatch_ptt_released -> plan_hotkey_released -> spawn_ptt_release. *)
ReleaseStops ==
  /\ keyDown
  /\ KeyUpEndsTake
  /\ KeyEdge(FALSE) /\ UNCHANGED crowded
  /\ toggle' = "stopping"
  /\ pttActive' = FALSE
  /\ Spawn("pause")
  /\ UNCHANGED <<state, gate, callbacks, pipeVars>>

ReleaseIgnored ==
  /\ keyDown
  /\ ~KeyUpEndsTake
  /\ KeyEdge(FALSE) /\ UNCHANGED crowded
  /\ UNCHANGED <<state, pttActive, toggle, gate, callbacks, worker, spoke,
                 queued, pipeVars>>

-----------------------------------------------------------------------------
(* A press worker (spawn_ptt_press).                                       *)

(* Is the capture still wanted? *)
CheckAllowed(w) ==
  /\ worker[w] = "check"
  /\ state = "Ready" \/ toggle = "starting"
  /\ To(w, "lock")
  /\ UNCHANGED <<state, pttActive, toggle, gate, callbacks, spoke, queued,
                 userVars, pipeVars>>

CheckRefused(w) ==
  /\ worker[w] = "check"
  /\ ~(state = "Ready" \/ toggle = "starting")
  /\ To(w, "none")
  /\ pttActive' = FALSE /\ toggle' = "idle"
  /\ UNCHANGED <<state, gate, callbacks, spoke, queued, userVars, pipeVars>>

TakeLock(w) ==
  /\ worker[w] = "lock" /\ PttLockFree
  /\ To(w, "open")
  /\ UNCHANGED <<state, pttActive, toggle, gate, callbacks, spoke, queued,
                 userVars, pipeVars>>

(* apply_ptt_active(true): the gate opens; callbacks are paused around it   *)
(* and switched on again, whoever else had paused them.                     *)
Open(w) ==
  /\ worker[w] = "open"
  /\ gate' = "open" /\ callbacks' = TRUE
  /\ To(w, "confirm")
  /\ UNCHANGED <<state, pttActive, toggle, spoke, queued, userVars, pipeVars>>

(* Variant for the checks: an error that comes when capture has begun. *)
OpenFailsLate(w) ==
  /\ OpenMayFail
  /\ worker[w] = "open"
  /\ gate' = "open" /\ callbacks' = TRUE
  /\ pttActive' = FALSE /\ toggle' = "idle"
  /\ To(w, "none")
  /\ UNCHANGED <<state, spoke, queued, userVars, pipeVars>>

(* start_capture_pipeline fails after set_ptt_active raised the gate.       *)
OpenFails(w) ==
  /\ OpenMayFail
  /\ worker[w] = "open"
  /\ gate' = "dead" /\ callbacks' = TRUE
  /\ pttActive' = FALSE /\ toggle' = "idle"
  /\ To(w, "none")
  /\ UNCHANGED <<state, spoke, queued, userVars, pipeVars>>

(* confirm_toggle_start: a stop that already won keeps its claim. *)
Confirm(w) ==
  /\ worker[w] = "confirm"
  /\ toggle' = IF toggle = "starting" THEN "active" ELSE toggle
  /\ To(w, "listen")
  /\ UNCHANGED <<state, pttActive, gate, callbacks, spoke, queued, userVars,
                 pipeVars>>

(* finish_ptt_press; on an illegal edge only the toggle is reset. *)
Listen(w) ==
  /\ worker[w] = "listen"
  /\ state' = Transition(state, "Listening")
  /\ toggle' = IF CanTransition(state, "Listening") THEN toggle ELSE "idle"
  /\ To(w, "none")
  /\ UNCHANGED <<pttActive, gate, callbacks, spoke, queued, userVars, pipeVars>>

PressStep(w) == CheckAllowed(w) \/ CheckRefused(w) \/ TakeLock(w) \/ Open(w)
                \/ OpenFails(w) \/ Confirm(w) \/ Listen(w)

-----------------------------------------------------------------------------
(* A release worker (spawn_ptt_release).                                   *)

PauseCallbacks(w) ==
  /\ worker[w] = "pause"
  /\ callbacks' = FALSE
  /\ To(w, "close")
  /\ UNCHANGED <<state, pttActive, toggle, gate, spoke, queued, userVars,
                 pipeVars>>

(* Does the gate close ahead of a press that is to open it? *)
ClosesInTurn ==
  /\ overtaken' = (overtaken \/ Running({"check", "lock"}) # {})
  /\ UNCHANGED <<hold, keyDown, presses, crowded>>

(* Variants for the checks: the gate is closed only while listening, or only *)
(* while the controller believes in a take.                                *)
CloseGateIfListening(w) ==
  /\ worker[w] = "close" /\ PttLockFree
  /\ gate' = IF state = "Listening" THEN "closed" ELSE gate
  /\ spoke' = IF gate = "open" THEN spoke \cup {w} ELSE spoke
  /\ To(w, "flush")
  /\ ClosesInTurn
  /\ UNCHANGED <<state, pttActive, toggle, callbacks, queued, pipeVars>>

CloseGateIfActive(w) ==
  /\ worker[w] = "close" /\ PttLockFree
  /\ gate' = IF pttActive THEN "closed" ELSE gate
  /\ spoke' = IF gate = "open" THEN spoke \cup {w} ELSE spoke
  /\ To(w, "flush")
  /\ ClosesInTurn
  /\ UNCHANGED <<state, pttActive, toggle, callbacks, queued, pipeVars>>

(* begin_ptt_release under ptt_lock. *)
CloseGate(w) ==
  /\ worker[w] = "close" /\ PttLockFree
  /\ gate' = "closed"
  /\ spoke' = IF gate = "open" THEN spoke \cup {w} ELSE spoke
  /\ To(w, "flush")
  /\ ClosesInTurn
  /\ UNCHANGED <<state, pttActive, toggle, callbacks, queued, pipeVars>>

(* complete_ptt_release: the flushed segment is enqueued ... *)
FlushQueued(w) ==
  /\ worker[w] = "flush" /\ w \in spoke /\ jobs < MaxJobs
  /\ queued' = queued \cup {w}
  /\ jobs' = jobs + 1
  /\ To(w, "finish")
  /\ UNCHANGED <<state, pttActive, toggle, gate, callbacks, spoke, userVars, splitting, job>>

(* ... or there is none, it is silent, or the queue refuses it. *)
FlushEmpty(w) ==
  /\ worker[w] = "flush"
  /\ To(w, "finish")
  /\ UNCHANGED <<state, pttActive, toggle, gate, callbacks, spoke, queued,
                 userVars, pipeVars>>

(* Variant for the checks: a take without speech recovers nothing. *)
FinishReleaseOnly(w) ==
  /\ worker[w] = "finish"
  /\ pttActive' = FALSE
  /\ To(w, "reset")
  /\ UNCHANGED <<state, toggle, gate, callbacks, spoke, queued, userVars, pipeVars>>

(* finish_ptt_release_on_controller: AppController::begin_toggle_stop and   *)
(* finish_ptt_release under one lock.                                       *)
FinishRelease(w) ==
  LET active == pttActive /\ hold /\ toggle \notin {"starting", "active"}
  IN /\ worker[w] = "finish"
     /\ pttActive' = active
     /\ state' = IF w \notin queued /\ state \in {"Listening", "Processing"}
                 THEN RecoverAfterSegment(state, active) ELSE state
     /\ To(w, "reset")
     /\ UNCHANGED <<toggle, gate, callbacks, spoke, queued, userVars, pipeVars>>

(* Variant for the checks: only a take that had opened is reset. *)
ResetActiveToggle(w) ==
  /\ worker[w] = "reset"
  /\ callbacks' = TRUE
  /\ toggle' = IF toggle = "active" THEN "idle" ELSE toggle
  /\ To(w, "none")
  /\ UNCHANGED <<state, pttActive, gate, spoke, queued, userVars, pipeVars>>

(* Callbacks are restored, then reset_toggle_capture. *)
ResetToggle(w) ==
  /\ worker[w] = "reset"
  /\ callbacks' = TRUE
  /\ toggle' = "idle"
  /\ To(w, "none")
  /\ UNCHANGED <<state, pttActive, gate, spoke, queued, userVars, pipeVars>>

ReleaseStep(w) == PauseCallbacks(w) \/ CloseGate(w) \/ FlushQueued(w)
                  \/ FlushEmpty(w) \/ FinishRelease(w) \/ ResetToggle(w)

-----------------------------------------------------------------------------
(* The voice detector and the pipeline.                                    *)

Unchanged(rest) ==
  UNCHANGED <<pttActive, toggle, gate, callbacks, worker, spoke, queued,
              splitting, userVars, rest>>

(* on_speech_started while the gate is open. *)
SpeechStarted ==
  /\ gate = "open" /\ callbacks /\ state = "Ready"
  /\ state' = "Listening"
  /\ Unchanged(<<jobs, job>>)

(* on_speech_ended: in toggle mode silence splits the take.  The callback   *)
(* looks at the gate and the flag once, and may enqueue its part after both *)
(* have changed.                                                           *)
SplitBegins ==
  /\ ~hold
  /\ ~splitting /\ gate = "open" /\ callbacks
  /\ splitting' = TRUE
  /\ UNCHANGED <<state, pttActive, toggle, gate, callbacks, worker, spoke,
                 queued, userVars, jobs, job>>

SplitQueued ==
  /\ splitting /\ jobs < MaxJobs
  /\ splitting' = FALSE /\ jobs' = jobs + 1
  /\ UNCHANGED <<state, pttActive, toggle, gate, callbacks, worker, spoke,
                 queued, userVars, job>>

(* The queue refuses the part, or the controller is busy: it is dropped.   *)
SplitDropped ==
  /\ splitting
  /\ splitting' = FALSE
  /\ UNCHANGED <<state, pttActive, toggle, gate, callbacks, worker, spoke,
                 queued, userVars, jobs, job>>

JobBegins ==
  /\ job = "none" /\ jobs > 0
  /\ job' = "begin"
  /\ Unchanged(<<state, jobs>>)

JobAnnounces ==
  /\ job = "begin"
  /\ state' = Announce(state)
  /\ job' = "text"
  /\ Unchanged(jobs)

JobInjects ==
  /\ job = "text"
  /\ state' = Transition(state, "Injecting")
  /\ job' = "inject"
  /\ Unchanged(jobs)

JobFails ==
  /\ job \in {"text", "inject"}
  /\ \E network \in BOOLEAN : state' = ReportError(state, network)
  /\ job' = "end"
  /\ Unchanged(jobs)

(* Variant for the checks: fetch_sub is taken to return the new count. *)
JobSettlesLate ==
  /\ job \in {"begin", "text", "inject", "end"}
  /\ jobs' = jobs - 1
  /\ job' = IF jobs = 0 THEN "recover" ELSE "none"
  /\ Unchanged(state)

JobSettles ==
  /\ job \in {"begin", "text", "inject", "end"}
  /\ jobs' = jobs - 1
  /\ job' = IF jobs = 1 THEN "recover" ELSE "none"
  /\ Unchanged(state)

JobRecovers ==
  /\ job = "recover"
  /\ state' = RecoverAfterSegment(state, pttActive)
  /\ job' = "none"
  /\ Unchanged(jobs)

PipelineStep == JobBegins \/ JobAnnounces \/ JobInjects \/ JobFails
                \/ JobSettles \/ JobRecovers

-----------------------------------------------------------------------------
Init ==
  /\ hold \in Holds
  /\ state = "Ready" /\ pttActive = FALSE
  /\ toggle = "idle" /\ gate = "closed" /\ callbacks = TRUE
  /\ worker = [w \in Workers |-> "none"]
  /\ spoke = {} /\ queued = {}
  /\ keyDown = FALSE /\ presses = 0 /\ overtaken = FALSE /\ crowded = FALSE
  /\ splitting = FALSE /\ jobs = 0 /\ job = "none"

KeyPress == PressStarts \/ PressStops \/ PressIgnored
KeyRelease == ReleaseStops \/ ReleaseIgnored

Next == \/ KeyPress \/ KeyRelease
        \/ \E w \in Workers : PressStep(w) \/ ReleaseStep(w)
        \/ SpeechStarted \/ SplitBegins \/ SplitQueued \/ SplitDropped
        \/ PipelineStep

Spec == Init /\ [][Next]_vars

(* Worker threads and the pipeline run; nobody has to press or speak. *)
FairSpec ==
  /\ Spec
  /\ \A w \in Workers : WF_vars(PressStep(w)) /\ WF_vars(ReleaseStep(w))
  /\ WF_vars(PipelineStep) /\ WF_vars(SplitQueued \/ SplitDropped)

-----------------------------------------------------------------------------
(* Properties.                                                             *)

(* Every variable keeps its type; toggle and state stay within the enums   *)
(* ToggleCapture and AppState.                                             *)
TypeOK ==
  /\ {hold, overtaken, crowded} \subseteq BOOLEAN
  /\ state \in AppStates /\ pttActive \in BOOLEAN
  /\ toggle \in {"idle", "starting", "active", "stopping"}
  /\ gate \in {"closed", "open", "dead"} /\ callbacks \in BOOLEAN
  /\ worker \in [Workers -> WorkerSteps]
  /\ spoke \subseteq Workers /\ queued \subseteq Workers
  /\ keyDown \in BOOLEAN /\ presses \in 0 .. MaxPresses
  /\ splitting \in BOOLEAN /\ jobs \in 0 .. MaxJobs
  /\ job \in {"none", "begin", "text", "inject", "end", "recover"}

(* No worker and no job is left to change anything. *)
Settled == /\ Running(PressSteps \cup ReleaseSteps) = {}
           /\ ~splitting /\ jobs = 0 /\ job = "none"

(* No press opens a gate that is open: "extra key edges arriving in those   *)
(* windows are swallowed instead of opening a second capture on top of the *)
(* first" (game_input/mod.rs).                                             *)
OneCapture == \A w \in Workers : worker[w] = "open" => gate # "open"

(* In hold mode the microphone does not stay open once the key is up and    *)
(* the workers are done ("PTT hold always ends capture on key-up").         *)
KeyUpCloses == hold /\ ~keyDown /\ Settled => gate # "open"

(* So far every press and every release has had its turn: no release was    *)
(* quicker to ptt_lock than a press before it, and no take began under a    *)
(* release worker.                                                         *)
InTurn == ~overtaken /\ ~crowded

(* A key that is let go while its press is opening, and edges while a take  *)
(* is stopping, do no harm by themselves: where a second capture opens on   *)
(* top of the first, or an open microphone outlives the key, a release ran  *)
(* out of turn before.                                                     *)
OneCaptureInTurn == InTurn => OneCapture
KeyUpClosesInTurn == InTurn => KeyUpCloses

(* When everything has come to rest no busy state is left behind: the last *)
(* job or the release worker always recovers the controller.               *)
NotBusyAtRest == Settled => ~IsPipelineBusy(state)

(* When everything has come to rest the user sees Listening exactly while   *)
(* the microphone is open: recover_after_segment returns "to capture UI     *)
(* when PTT is still active", and only then.                               *)
StateTellsCapture == Settled => (state = "Listening" <=> gate = "open")

(* In hold mode it does, whenever the user lets go, while releases and      *)
(* presses have their turn.                                                *)
HoldTellsCapture == hold /\ InTurn => StateTellsCapture

(* A microphone that is open at rest belongs to the push-to-talk the        *)
(* controller believes in, so that a stop can close it.                    *)
OpenGateIsActive == InTurn /\ Settled /\ gate = "open" => pttActive

(* A stop that was claimed closes the microphone and gives the hotkey back, *)
(* in either mode.                                                         *)
StopCompletes ==
  InTurn /\ toggle = "stopping" ~> (toggle # "stopping" /\ gate # "open") \/ ~InTurn

=============================================================================
