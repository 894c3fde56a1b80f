-------------------------- MODULE DictationPipeline --------------------------
(***************************************************************************)
(* One dictation from the key press to the typed text: the segment queue   *)
(* (module SegmentQueue) composed with the controller's state, dictation   *)
(* sessions (app/dictation_session.rs), the cancellation token of          *)
(* PipelineRuntime, and the two ways work is called off: losing the        *)
(* focused field (context.rs) and the recover_engine command (lib.rs).     *)
(*                                                                         *)
(* The user here waits for a take to open and to close; what quicker       *)
(* fingers do to the worker threads of the hotkey is PttCapture's matter.  *)
(***************************************************************************)
EXTENDS Integers, Sequences, FiniteSets, AppState

CONSTANTS Vad, Releaser,  \* the two enqueueing threads
          Boot, NoSegment, SpillEnabled, RamCap, MaxPending, DiskSlots,
          UsizeMod, MaxSegments, MaxClears,
          Modes,          \* the settings the run looks at
          Overlap,        \* work may be called off while a take is opened
          MaxSessions,    \* bound: dictation sessions
          MaxRecoveries   \* bound: recover_engine commands

ASSUME PipelineAssumption ==
  /\ Vad # Releaser
  /\ Modes \subseteq [push_to_talk : BOOLEAN, ptt_hold : BOOLEAN,
                      abort_on_focus_loss : BOOLEAN]
  /\ \A m \in Modes : m.push_to_talk => m.ptt_hold
  /\ Overlap \in BOOLEAN
  /\ MaxSessions \in Nat /\ MaxRecoveries \in Nat

Producers == {Vad, Releaser}
MaxCrashes == 0

VARIABLES
  mode,        \* the settings
  recorded, thread, replay, pending, memory, queue, worker, wav, meta,
  clearing, inserted, residue, robbed, shared, clears, crashes,  \* of SegmentQueue
  state,       \* AppController::state
  pttActive,   \* AppController::push_to_talk_active
  capture,     \* how far the current take has got
  hearing,     \* the VAD thread is about to start a watch for new speech
  gate,        \* ptt_gate: the VAD thread hears speech
  flushQueued, \* the released take put a segment on the queue
  session,     \* DictationSession::current_id
  aborted,     \* DictationSession::aborted_id
  watch,       \* WATCH holds the handle of a focus watch that aborts
  token,       \* generation of the token in PipelineRuntime::cancel
  cancelled,   \* token generations that were cancelled
  sentIn,      \* session_id of each job, set when it is sent
  stage,       \* where in process_one_segment the worker is
  jobToken,    \* child token of the job in hand
  caller,      \* progress of an abort and of recover_engine
  recoveries,
  lateTyped,   \* history: insertions since the last abort for aborted sessions
  cancelledIn  \* history: the take a token served when it was cancelled

Q == INSTANCE SegmentQueue

(* The limits of the queue are as SegmentQueue asks. *)
ASSUME QueueParameters == Q!QueueAssumption

queueVars == <<recorded, thread, replay, pending, memory, queue, worker, wav,
               meta, clearing, inserted, residue, robbed, shared, clears,
               crashes>>
takeVars == <<capture, hearing, gate, flushQueued>>
sessionVars == <<session, sentIn, watch>>
cancelVars == <<aborted, token, cancelled, cancelledIn, caller, recoveries, mode>>
jobVars == <<stage, jobToken, lateTyped>>
controllerVars == <<state, pttActive>>
vars == <<queueVars, controllerVars, takeVars, sessionVars, cancelVars, jobVars>>

(* Push-to-talk is in hold mode here (PttCapture has both); without it      *)
(* capture is continuous.  ptt_hold keeps its value when push-to-talk is    *)
(* switched off.  Without abort_on_focus_loss text is deferred.             *)
PushToTalk == mode.push_to_talk
PttHold == mode.ptt_hold
AbortOnLoss == mode.abort_on_focus_loss

Sessions == 0 .. MaxSessions
Tokens == 0 .. MaxSessions + MaxRecoveries

(* is_session_aborted: 0 means no session and is never aborted. *)
IsAborted(s) == s # 0 /\ s <= aborted

Job == worker.job.seg

(* Variant for the checks: aborted sessions are forgotten. *)
TokenCancelled == jobToken \in cancelled

(* should_skip_dictation_job for the job in hand. *)
ShouldSkip == jobToken \in cancelled \/ IsAborted(sentIn[Job])

(* stop_focus_watch takes the handle from WATCH and joins the thread, which  *)
(* may be busy aborting: whoever stops the watch then waits.               *)
CanStopWatch == caller \notin {"abort", "cancelled", "aborting"}

(* start_focus_watch_abort stops the old watch first; start_focus_watch_defer *)
(* leaves nothing behind that aborts.                                      *)
StartWatch == CanStopWatch /\ watch' = AbortOnLoss

(* begin_session of DictationSession. *)
NewSession == session < MaxSessions /\ session' = session + 1

(* While its key press is handled a take gets a token, a session, a watch   *)
(* and the open gate, one after the other and under no common lock.        *)
Opening == {"planned", "renewed", "begun", "watched", "open"}

(* The session of the take the current token serves. *)
TakeNumber == IF capture = "renewed" THEN session + 1 ELSE session

(* should_continue_session_across_focus_loss may hold: with deferral the     *)
(* text of the field that was left may still be to come.                   *)
MayContinue == ~AbortOnLoss /\ session # 0

(* maybe_stop_focus_watch keeps the watch of work that is still in flight.  *)
WatchNeeded == pending > 0 \/ state' = "Listening"

(* abort_current of DictationSession. *)
AbortCurrent ==
  /\ session # 0
  /\ aborted' = IF session > aborted THEN session ELSE aborted

-----------------------------------------------------------------------------
(* A push-to-talk take in hold mode.                                       *)

PressKey ==
  /\ PushToTalk /\ capture = "closed"
  /\ state = "Ready" /\ ~pttActive
  /\ session < MaxSessions
  /\ Overlap \/ caller = "none"
  /\ pttActive' = TRUE /\ capture' = "planned"
  /\ UNCHANGED <<queueVars, state, hearing, gate, flushQueued, sessionVars,
                 cancelVars, jobVars>>

(* Variant for the checks: a take keeps the token it finds. *)
RenewTokenNever ==
  /\ capture = "planned"
  /\ capture' = "renewed"
  /\ UNCHANGED <<queueVars, controllerVars, hearing, gate, flushQueued,
                 sessionVars, cancelVars, jobVars>>

(* apply_ptt_active(true): reset_cancel ... *)
RenewToken ==
  /\ capture = "planned"
  /\ token' = token + 1
  /\ capture' = "renewed"
  /\ UNCHANGED <<queueVars, controllerVars, hearing, gate, flushQueued,
                 sessionVars, aborted, cancelled, cancelledIn, caller,
                 recoveries, mode, jobVars>>

(* ... begin_dictation_session: the session, ...                           *)
BeginTake ==
  /\ capture = "renewed"
  /\ NewSession
  /\ capture' = "begun"
  /\ UNCHANGED <<queueVars, controllerVars, hearing, gate, flushQueued, sentIn,
                 watch, cancelVars, jobVars>>

(* ... its watch in place of the old one, ...                              *)
WatchTake ==
  /\ capture = "begun"
  /\ StartWatch
  /\ capture' = "watched"
  /\ UNCHANGED <<queueVars, controllerVars, hearing, gate, flushQueued,
                 session, sentIn, cancelVars, jobVars>>

(* ... and set_ptt_active.                                                 *)
OpenGate ==
  /\ capture = "watched"
  /\ capture' = "open" /\ gate' = TRUE
  /\ UNCHANGED <<queueVars, controllerVars, hearing, flushQueued, sessionVars,
                 cancelVars, jobVars>>

(* finish_ptt_press. *)
ShowListening ==
  /\ capture = "open"
  /\ state' = Transition(state, "Listening")
  /\ capture' = "listening"
  /\ UNCHANGED <<queueVars, pttActive, hearing, gate, flushQueued, sessionVars,
                 cancelVars, jobVars>>

(* Variant for the checks: a key-up counts only while the user is heard. *)
LetKeyGoIfListening ==
  /\ capture = "listening"
  /\ capture' = IF pttActive /\ state = "Listening" THEN "releasing" ELSE "closed"
  /\ pttActive' = FALSE
  /\ UNCHANGED <<queueVars, state, hearing, gate, flushQueued, sessionVars,
                 cancelVars, jobVars>>

(* plan_hotkey_released: a key-up ends the take it finds active. *)
LetKeyGo ==
  /\ capture = "listening"
  /\ capture' = IF pttActive THEN "releasing" ELSE "closed"
  /\ pttActive' = FALSE
  /\ UNCHANGED <<queueVars, state, hearing, gate, flushQueued, sessionVars,
                 cancelVars, jobVars>>

(* begin_ptt_release. *)
CloseGate ==
  /\ capture = "releasing"
  /\ capture' = "flushing" /\ gate' = FALSE /\ flushQueued' = FALSE
  /\ UNCHANGED <<queueVars, controllerVars, hearing, sessionVars, cancelVars,
                 jobVars>>

(* complete_ptt_release: the VAD thread delivers the rest of the take, which *)
(* is enqueued ...                                                          *)
FlushSegment ==
  /\ capture = "flushing" /\ ~hearing
  /\ Q!Record(Releaser)
  /\ capture' = "sending"
  /\ UNCHANGED <<controllerVars, hearing, gate, flushQueued, sessionVars,
                 cancelVars, jobVars>>

(* ... or nothing worth a job. *)
FlushNothing ==
  /\ capture = "flushing"
  /\ capture' = "sending"
  /\ UNCHANGED <<queueVars, controllerVars, hearing, gate, flushQueued,
                 sessionVars, cancelVars, jobVars>>

(* Variant for the checks: a silent take is left to the pipeline. *)
FinishTakeOnly ==
  /\ capture = "sending" /\ thread[Releaser].pc = "idle"
  /\ capture' = "closed"
  /\ UNCHANGED <<queueVars, controllerVars, hearing, gate, flushQueued,
                 sessionVars, cancelVars, jobVars>>

(* finish_ptt_release, once the segment was sent or refused. *)
FinishTake ==
  /\ capture = "sending" /\ thread[Releaser].pc = "idle"
  /\ capture' = "closed"
  /\ state' = IF ~flushQueued /\ state \in {"Listening", "Processing"}
              THEN RecoverAfterSegment(state, pttActive) ELSE state
  /\ UNCHANGED <<queueVars, pttActive, hearing, gate, flushQueued, sessionVars,
                 cancelVars, jobVars>>

Take == PressKey \/ RenewToken \/ BeginTake \/ WatchTake \/ OpenGate
        \/ ShowListening \/ LetKeyGo \/ CloseGate
        \/ FlushSegment \/ FlushNothing \/ FinishTake

-----------------------------------------------------------------------------
(* Speech.                                                                 *)

(* A take that is being held, whose session began with the key press. *)
HeldTake == PushToTalk /\ pttActive

(* Speech after a pause: nothing of what was said before is under way. *)
SpeechAnew == state = "Ready" /\ pending = 0 /\ ~HeldTake

(* on_speech_started: speech after a pause begins a session, unless the one *)
(* before is continued; other speech belongs to the session there is, if    *)
(* any.  With ptt_hold only a take that is being held is looked at.         *)
SpeechStarted ==
  /\ gate /\ ~hearing
  /\ state' = SpeechStart(state)
  /\ \/ /\ ~PttHold \/ HeldTake
        /\ SpeechAnew \/ session = 0
        /\ NewSession /\ hearing' = TRUE
     \/ /\ ~PttHold \/ HeldTake
        /\ IF SpeechAnew THEN MayContinue ELSE session # 0
        /\ UNCHANGED session /\ hearing' = TRUE
     \/ /\ PttHold /\ ~HeldTake
        /\ UNCHANGED <<session, hearing>>
  /\ UNCHANGED <<queueVars, pttActive, capture, gate, flushQueued, sentIn, watch,
                 cancelVars, jobVars>>

(* maybe_start_focus_watch for that speech, on the VAD thread. *)
WatchSpeech ==
  /\ hearing
  /\ StartWatch
  /\ hearing' = FALSE
  /\ UNCHANGED <<queueVars, controllerVars, capture, gate, flushQueued, session,
                 sentIn, cancelVars, jobVars>>

(* on_speech_ended hands a segment to enqueue_segment; a held take is not   *)
(* split, its audio is flushed at the end.                                 *)
SpeechEnded ==
  /\ gate /\ ~hearing /\ ~PushToTalk
  /\ Q!Record(Vad)
  /\ UNCHANGED <<controllerVars, takeVars, sessionVars, cancelVars, jobVars>>

Speech == SpeechStarted \/ WatchSpeech \/ SpeechEnded

(* enqueue_segment; the session is read when the job is sent. *)
Enqueue(p) ==
  \/ /\ Q!Prepare(p) \/ Q!Spill(p)
        \/ Q!Admit(p) \/ Q!RefuseQueueFull(p) \/ Q!Count(p)
     /\ UNCHANGED <<controllerVars, takeVars, sessionVars, cancelVars, jobVars>>
  \/ /\ Q!Send(p)
     /\ sentIn' = [sentIn EXCEPT ![thread[p].seg] = session]
     /\ flushQueued' = (flushQueued \/ p = Releaser)
     /\ UNCHANGED <<controllerVars, capture, hearing, gate, session, watch,
                    cancelVars, jobVars>>

-----------------------------------------------------------------------------
(* process_one_segment.                                                    *)

KeepOthers == UNCHANGED <<pttActive, takeVars, sessionVars, cancelVars>>

TakeJob ==
  /\ Q!Receive \/ Q!Load
  /\ stage' = "begin" /\ jobToken' = token
  /\ UNCHANGED <<state, lateTyped>> /\ KeepOthers

(* Variant for the checks: an early return that skips the first half of     *)
(* finish.                                                                 *)
DroppedUncounted ==
  /\ worker.pc = "work"
  /\ worker' = [worker EXCEPT !.pc = "settle"]
  /\ stage' = "none"
  /\ UNCHANGED <<recorded, thread, replay, pending, memory, queue, wav, meta,
                 clearing, inserted, residue, robbed, shared, clears, crashes,
                 state, jobToken, lateTyped>>

Dropped == Q!Discard /\ stage' = "none" /\ UNCHANGED <<state, jobToken, lateTyped>>

Onward(from, to) ==
  /\ worker.pc = "work" /\ stage = from /\ worker.loaded # NoSegment
  /\ stage' = to
  /\ UNCHANGED <<queueVars, jobToken, lateTyped>>

(* A call returned an error: handle_pipeline_error. *)
Fails ==
  /\ Q!Fail
  /\ \E network \in BOOLEAN : state' = ReportError(state, network)
  /\ stage' = "failed" /\ UNCHANGED <<jobToken, lateTyped>>

(* The child token is taken, then the job is skipped if it was called off   *)
(* or has no audio.                                                        *)
SkipAtStart ==
  /\ stage = "begin"
  /\ ShouldSkip \/ worker.loaded = NoSegment
  /\ Dropped /\ KeepOthers

StartJob ==
  /\ Onward("begin", "stt") /\ ~ShouldSkip
  /\ state' = Announce(state)
  /\ KeepOthers

(* Second check, then silence, or a transcription that failed in a way that *)
(* reloads the engine; or the job was called off.                          *)
SkipInStt == stage = "stt" /\ Dropped /\ KeepOthers

SttFails == stage = "stt" /\ Fails /\ KeepOthers

Transcribed ==
  /\ Onward("stt", "heard") /\ ~ShouldSkip
  /\ UNCHANGED state /\ KeepOthers

(* Third check. *)
SkipHeard == stage = "heard" /\ ShouldSkip /\ Dropped /\ KeepOthers

KeepHeard ==
  /\ Onward("heard", "text") /\ ~ShouldSkip
  /\ UNCHANGED state /\ KeepOthers

(* process_transcription: no text, an error, or text to type. *)
NoText == stage = "text" /\ Dropped /\ KeepOthers

TextFails == stage = "text" /\ Fails /\ KeepOthers

TextReady ==
  /\ Onward("text", "inject")
  /\ state' = Transition(state, "Injecting")
  /\ KeepOthers

(* Last check before the text is typed. *)
SkipAtInjection ==
  /\ stage = "inject" /\ ShouldSkip
  /\ Dropped /\ KeepOthers

Commit ==
  /\ Onward("inject", "typing") /\ ~ShouldSkip
  /\ UNCHANGED state /\ KeepOthers

(* Without abort_on_focus_loss text for an unfocused field is put aside in  *)
(* the focus-defer buffer.                                                 *)
Defer ==
  /\ ~AbortOnLoss
  /\ stage = "typing" /\ Dropped /\ KeepOthers

TypeText ==
  /\ stage = "typing"
  /\ Q!Insert
  /\ stage' = "typed"
  /\ lateTyped' = IF IsAborted(sentIn[Job]) THEN lateTyped + 1 ELSE lateTyped
  /\ UNCHANGED <<state, jobToken>> /\ KeepOthers

(* insert_text failed, or the Enter after it did. *)
InjectionFails == stage \in {"typing", "typed"} /\ Fails /\ KeepOthers

FinishJob ==
  \/ Q!Release /\ stage' = "none" /\ UNCHANGED <<state, jobToken, lateTyped>>
               /\ KeepOthers
  \/ (Q!RemoveJson \/ Q!Settle) /\ UNCHANGED <<state, jobVars>> /\ KeepOthers

(* Variant for the checks: only an error is recovered from. *)
RecoverErrorOnly ==
  /\ Q!Recover
  /\ stage = "failed" \/ CanStopWatch
  /\ state' = IF IsPipelineBusy(state) THEN state
              ELSE RecoverAfterSegment(state, pttActive)
  /\ watch' = (watch /\ (stage = "failed" \/ WatchNeeded))
  /\ stage' = "none"
  /\ UNCHANGED <<pttActive, takeVars, session, sentIn, cancelVars, jobToken,
                 lateTyped>>

(* The last job out recovers the controller.  finish also stops the focus   *)
(* watch unless the user is being listened to or new work is pending       *)
(* (maybe_stop_focus_watch); handle_pipeline_error does not.               *)
RecoverController ==
  /\ Q!Recover
  /\ stage = "failed" \/ CanStopWatch
  /\ state' = RecoverAfterSegment(state, pttActive)
  /\ watch' = (watch /\ (stage = "failed" \/ WatchNeeded))
  /\ stage' = "none"
  /\ UNCHANGED <<pttActive, takeVars, session, sentIn, cancelVars, jobToken,
                 lateTyped>>

WorkerStep ==
  \/ TakeJob \/ SkipAtStart \/ StartJob \/ SkipInStt \/ SttFails \/ Transcribed
  \/ SkipHeard \/ KeepHeard \/ NoText \/ TextFails \/ TextReady
  \/ SkipAtInjection \/ Commit \/ Defer \/ TypeText \/ InjectionFails \/ FinishJob \/ RecoverController

-----------------------------------------------------------------------------
(* Calling work off.                                                       *)

(* The watched field lost focus: abort_dictation_on_focus_loss begins, on   *)
(* the watch's own thread, and aborts whatever session is current by now.   *)
LoseFocus ==
  /\ watch /\ caller = "none"
  /\ Overlap \/ capture \notin Opening
  /\ AbortCurrent
  /\ lateTyped' = 0
  /\ caller' = "abort"
  /\ UNCHANGED <<queueVars, controllerVars, takeVars, sessionVars, token,
                 cancelled, cancelledIn, recoveries, mode, stage, jobToken>>

(* Someone who wants to stop the watch takes its handle before the abort    *)
(* does.                                                                   *)
StealHandle ==
  /\ ~CanStopWatch /\ watch
  /\ \/ capture = "begun" \/ hearing
     \/ worker.pc = "recover" /\ stage # "failed"
  /\ watch' = FALSE
  /\ UNCHANGED <<queueVars, controllerVars, takeVars, session, sentIn,
                 cancelVars, jobVars>>

(* cancel_pending clears the spill files only if it gets the controller. *)
CancelPending ==
  /\ cancelled' = cancelled \cup {token}
  /\ cancelledIn' = [cancelledIn EXCEPT ![token] = TakeNumber]
  /\ Q!ClearBegins \/ UNCHANGED queueVars

(* clear_spill_queue, whose caller waits for its end. *)
ClearFile ==
  /\ Q!ClearFile
  /\ UNCHANGED <<controllerVars, takeVars, sessionVars, cancelVars, jobVars>>

ClearEnds ==
  /\ Q!ClearEnds
  /\ UNCHANGED <<controllerVars, takeVars, sessionVars, cancelVars, jobVars>>

AbortCancels ==
  /\ caller = "abort"
  /\ caller' = "cancelled"
  /\ CancelPending
  /\ UNCHANGED <<controllerVars, takeVars, sessionVars, aborted, token,
                 recoveries, mode, jobVars>>

(* cancel_pending also stops the focus watch.  A thread that finds its own  *)
(* handle joins itself and never returns; else the abort goes on.          *)
AbortStopsWatch ==
  /\ caller = "cancelled" /\ ~clearing
  /\ caller' = IF watch THEN "none" ELSE "aborting"
  /\ watch' = FALSE
  /\ UNCHANGED <<queueVars, controllerVars, takeVars, session, sentIn, aborted,
                 token, cancelled, cancelledIn, recoveries, mode, jobVars>>

(* begin_ptt_release, which does nothing to continuous capture,             *)
(* reset_ptt_active and abort_processing.                                  *)
AbortEndsTake ==
  /\ caller = "aborting"
  /\ caller' = "none"
  /\ gate' = (gate /\ ~PushToTalk)
  /\ pttActive' = FALSE /\ state' = "Ready"
  /\ UNCHANGED <<queueVars, capture, hearing, flushQueued, sessionVars, aborted,
                 token, cancelled, cancelledIn, recoveries, mode, jobVars>>

(* recover_engine: cancel_pending ... *)
RecoverCancels ==
  /\ caller = "none" /\ recoveries < MaxRecoveries
  /\ Overlap \/ capture \in {"closed", "listening"}
  /\ caller' = "recover" /\ recoveries' = recoveries + 1
  /\ CancelPending
  /\ UNCHANGED <<controllerVars, takeVars, sessionVars, aborted, token, mode,
                 jobVars>>

(* ... which stops the watch, then reset_cancel ...                        *)
RecoverRenews ==
  /\ caller = "recover" /\ ~clearing
  /\ caller' = "renewed"
  /\ watch' = FALSE
  /\ token' = token + 1
  /\ UNCHANGED <<queueVars, controllerVars, takeVars, session, sentIn, aborted,
                 cancelled, cancelledIn, recoveries, mode, jobVars>>

(* ... and recover_from_error ...                                          *)
RecoverState ==
  /\ caller = "renewed"
  /\ caller' = "restart"
  /\ pttActive' = FALSE
  /\ state' = "Ready"
  /\ UNCHANGED <<queueVars, takeVars, sessionVars, aborted, token, cancelled,
                 cancelledIn, recoveries, mode, jobVars>>

(* ... and the capture is stopped and started again; the old VAD thread is  *)
(* joined.                                                                 *)
RestartCapture ==
  /\ caller = "restart" /\ ~hearing
  /\ caller' = "none"
  /\ gate' = ~PushToTalk
  /\ state' = FinishRestart(state)
  /\ UNCHANGED <<queueVars, pttActive, capture, hearing, flushQueued, sessionVars,
                 aborted, token, cancelled, cancelledIn, recoveries, mode, jobVars>>

CallOff == LoseFocus \/ StealHandle \/ ClearFile \/ ClearEnds
           \/ AbortCancels \/ AbortStopsWatch \/ AbortEndsTake
           \/ RecoverCancels \/ RecoverRenews \/ RecoverState \/ RestartCapture

-----------------------------------------------------------------------------
Init ==
  /\ mode \in Modes
  /\ Q!Init
  /\ state = "Ready" /\ pttActive = FALSE
  /\ capture = "closed" /\ hearing = FALSE
  /\ gate = ~PushToTalk /\ flushQueued = FALSE
  /\ session = 0 /\ aborted = 0 /\ watch = FALSE
  /\ sentIn = [s \in Q!Segments |-> 0]
  /\ token = 0 /\ cancelled = {} /\ cancelledIn = [t \in Tokens |-> 0]
  /\ caller = "none" /\ recoveries = 0
  /\ stage = "none" /\ jobToken = 0 /\ lateTyped = 0

Next == Take \/ Speech
        \/ (\E p \in Producers : Enqueue(p))
        \/ WorkerStep \/ CallOff

Spec == Init /\ [][Next]_vars

(* The threads and the worker task run, a take that was begun is ended, and *)
(* a command that was begun is finished; nobody has to press or to speak.   *)
(* A join waits for one watch that ends, so that later ones cannot hold the *)
(* worker, the press or the VAD thread up for ever: joins are strongly fair. *)
FairSpec ==
  /\ Spec
  /\ \A p \in Producers : WF_vars(Enqueue(p))
  /\ WF_vars(WorkerStep)
  /\ SF_vars(RecoverController) /\ SF_vars(WatchTake) /\ SF_vars(WatchSpeech)
  /\ WF_vars(RenewToken \/ BeginTake \/ OpenGate \/ ShowListening \/ LetKeyGo
             \/ CloseGate \/ FlushNothing \/ FinishTake)
  /\ WF_vars(ClearEnds \/ AbortCancels \/ AbortStopsWatch \/ AbortEndsTake
             \/ RecoverRenews \/ RecoverState \/ RestartCapture)

-----------------------------------------------------------------------------
(* Properties.                                                             *)

(* Every variable keeps its type (the queue's own are Q!TypeOK). *)
TypeOK ==
  /\ Q!TypeOK /\ mode \in Modes
  /\ state \in AppStates /\ pttActive \in BOOLEAN
  /\ capture \in Opening \cup {"closed", "listening", "releasing", "flushing",
                              "sending"}
  /\ hearing \in BOOLEAN /\ gate \in BOOLEAN /\ flushQueued \in BOOLEAN /\ watch \in BOOLEAN
  /\ session \in Sessions /\ aborted \in Sessions
  /\ sentIn \in [Q!Segments -> Sessions]
  /\ token \in Tokens /\ cancelled \subseteq Tokens /\ jobToken \in Tokens
  /\ cancelledIn \in [Tokens -> Sessions]
  /\ stage \in {"none", "begin", "stt", "heard", "text", "inject", "typing",
                "typed", "failed"}
  /\ caller \in {"none", "abort", "cancelled", "aborting", "recover", "renewed",
                 "restart"}
  /\ recoveries \in 0 .. MaxRecoveries /\ lateTyped \in Nat

(* The composition keeps every step of the queue a step of SegmentQueue, so *)
(* what is proved there holds here.                                        *)
ImplementsQueue == Q!Spec

(* Once a session is aborted at most one more text of it, or of an earlier  *)
(* one, is typed: the job that had passed the last check of                *)
(* process_one_segment (is_session_aborted).                               *)
AtMostOneLateText == lateTyped <= 1

(* A job is not skipped for something that happened before its take: its    *)
(* token, if cancelled, was cancelled when it served the job's session or a *)
(* later one.                                                              *)
FreshSessionRuns ==
  stage = "begin" /\ worker.pc = "work" /\ jobToken \in cancelled
    => sentIn[Job] <= cancelledIn[jobToken]

(* So it is with push-to-talk, where every take replaces the token: what is  *)
(* called off before its reset_cancel does not reach it.  An abort of the   *)
(* take before that comes to cancel_pending later than that does.          *)
FreshTakeRuns == PushToTalk => FreshSessionRuns

(* With the take closed, nothing queued and no command under way the        *)
(* controller is Ready again, however the jobs ended.                      *)
AtRest ==
  /\ capture = "closed" /\ caller = "none" /\ ~pttActive
  /\ \A p \in Producers : thread[p].pc = "idle"
  /\ queue = <<>> /\ worker.pc = "recv"
ReadyAtRest == PushToTalk /\ AtRest => state = "Ready"

(* The same for continuous capture, where speech may just have started.     *)
IdleAtRest == ~PushToTalk /\ AtRest => state \in {"Ready", "Listening"}

(* recover_engine is under way. *)
Recovering == {"recover", "renewed", "restart"}

(* Once the key is up and the take is over nothing is captured any more     *)
(* (plan_hotkey_released), unless a recovery is about to restart capture.  *)
KeyUpEndsCapture ==
  PushToTalk /\ capture = "closed" /\ caller \notin Recovering => ~gate

(* "Starts a new dictation session (PTT press or idle->listening VAD)"       *)
(* (context.rs): with nothing pending and abort on focus loss, speech that  *)
(* turns Ready into Listening begins a session.                            *)
IdleSpeechBeginsSession ==
  [][SpeechStarted /\ ~PushToTalk /\ AbortOnLoss /\ state = "Ready" /\ pending = 0
       => session' # session]_vars

(* A busy state never lasts: the pipeline always comes back from it.        *)
BusyEnds == IsPipelineBusy(state) ~> ~IsPipelineBusy(state)

=============================================================================
