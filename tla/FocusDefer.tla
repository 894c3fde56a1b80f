----------------------------- MODULE FocusDefer -----------------------------
(***************************************************************************)
(* Deferred injection: with abort_on_focus_loss off, text that is ready     *)
(* while the user is in another window waits in a buffer                    *)
(* (injection/focus_defer_buffer.rs) until the field of the session         *)
(* (injection/focus_target.rs) has the focus again; a thread                *)
(* (injection/focus_watch.rs) polls the focus and each time the field is    *)
(* regained starts a task that types the buffer (flush_focus_defer_buffer   *)
(* of app/runtime.rs).  Beside them run the pipeline worker and the user.   *)
(*                                                                         *)
(* A segment is known by its number, in the order of speech; a window       *)
(* stands for the input field in it.  Texts of different segments differ.   *)
(* What the AI does with the text of a take, once it was typed, is module   *)
(* PttPostprocess, which also has the specification.                       *)
(***************************************************************************)
EXTENDS Naturals, SequencesExt, AppState

CONSTANTS Fields,        \* windows of other programs
          Own,           \* the program's own window, never a target
          NoWindow,      \* no target: hwnd 0
          Modes,         \* the settings the run looks at
          Flushes,       \* flush tasks that may run at a time
          RestoreFails,  \* the system may refuse to bring the target forward
          MaxSegments,   \* bound: segments of speech
          MaxMoves,      \* bound: changes of focus by the user
          MaxFailures    \* bound: calls that fail

Segments == 1 .. MaxSegments
Windows == Fields \cup {Own}

ASSUME DeferAssumption ==
  /\ Fields # {} /\ Own \notin Fields /\ NoWindow \notin Windows
  /\ {"worker", "release", "none"} \cap Flushes = {}
  /\ Modes \subseteq [push_to_talk : BOOLEAN, ptt_hold : BOOLEAN, ai : BOOLEAN]
  /\ \A m \in Modes : m.ai => m.push_to_talk
  /\ RestoreFails \in BOOLEAN
  /\ MaxSegments \in Nat /\ MaxMoves \in Nat
  /\ MaxFailures \in Nat

VARIABLES
  mode,
  focus, moves,            \* the window the user is in
  target,                  \* INJECTION_TARGET
  watch,                   \* the watch thread and what it saw last
  state, ptt,              \* of AppController
  begun,                   \* a dictation session was begun
  capture, speaking,       \* how far the take has got; an utterance is on
  heard,                   \* number of segments so far
  queue, pending, worker,  \* the pipeline
  buffer,                  \* FocusDeferBuffer
  flush,                   \* the flush tasks
  phase1,                  \* SessionState of PttPostprocessSession
  finish, release,         \* the rewrite under way, the task of a release
  typed,                   \* what each window holds
  home, spot,              \* history: the field of each segment, of this take
  dropped,                 \* history: segments without text, or that failed
  failures

userVars == <<focus, moves>>
fieldVars == <<target, watch>>
controllerVars == <<state, ptt>>
takeVars == <<begun, capture, speaking, heard, home, spot>>
pipelineVars == <<queue, pending, worker, dropped>>
rewriteVars == <<phase1, finish, release>>
vars == <<mode, userVars, fieldVars, controllerVars, takeVars, pipelineVars,
          buffer, flush, rewriteVars, typed, failures>>

Matches == target = NoWindow \/ focus = target

(* should_defer_for_focus: no target means "do not inject blindly". *)
ShouldDefer == target = NoWindow \/ focus # target

(* should_retain_stale_injection_target when the controller is in state s. *)
Retained(s) ==
  \/ buffer # <<>> \/ pending > 0 \/ phase1.text # <<>>
  \/ s = "Listening"

(* maybe_stop_focus_watch: the field is forgotten when nothing is under way. *)
MaybeStopWatch(s) ==
  IF Retained(s) THEN UNCHANGED fieldVars
  ELSE watch' = "off" /\ target' = NoWindow

(* capture_injection_target leaves the target alone in the program's window. *)
Captured(old) == IF focus \in Fields THEN focus ELSE old

(* Variant for the checks: the target is not brought forward. *)
PrepareHere ==
  /\ target' = IF target = NoWindow THEN Captured(NoWindow) ELSE target
  /\ UNCHANGED <<focus, moves, watch>>

(* capture_if_needed_then_restore, before anything is typed or deleted. *)
Prepare ==
  /\ target' = IF target = NoWindow THEN Captured(NoWindow) ELSE target
  /\ \/ focus' = IF target' = NoWindow THEN focus ELSE target'
     \/ RestoreFails /\ focus' = focus
  /\ UNCHANGED <<moves, watch>>

Fails == failures < MaxFailures /\ failures' = failures + 1

(* record_phase1_injection. *)
Recorded(seg) ==
  IF mode.ai /\ phase1.active THEN [phase1 EXCEPT !.text = Append(@, seg)]
  ELSE phase1

-----------------------------------------------------------------------------
(* The user.                                                               *)

MoveFocus ==
  /\ moves < MaxMoves /\ moves' = moves + 1
  /\ \E w \in Windows \ {focus} : focus' = w
  /\ UNCHANGED <<mode, fieldVars, controllerVars, takeVars, pipelineVars, buffer,
                 flush, rewriteVars, typed, failures>>

(* show_settings_window forgets the target. *)
ShowSettings ==
  /\ moves < MaxMoves /\ moves' = moves + 1
  /\ focus' = Own /\ target' = NoWindow
  /\ UNCHANGED <<mode, watch, controllerVars, takeVars, pipelineVars, buffer,
                 flush, rewriteVars, typed, failures>>

PressKey ==
  /\ mode.push_to_talk /\ capture = "closed" /\ heard < MaxSegments
  /\ state = "Ready" /\ ~ptt
  /\ ptt' = TRUE /\ capture' = "planned"
  /\ UNCHANGED <<mode, userVars, fieldVars, state, begun, speaking, heard, home,
                 spot, pipelineVars, buffer, flush, rewriteVars, typed, failures>>

(* begin_dictation_session: the target is cleared and captured anew, and so *)
(* the buffer of the last one is not dropped; the watch starts over.       *)
BeginSession ==
  /\ begun' = TRUE
  /\ target' = Captured(NoWindow)
  /\ watch' = "new"
  /\ spot' = target'

(* apply_ptt_active(true). *)
OpenTake ==
  /\ capture = "planned" /\ capture' = "open"
  /\ BeginSession
  /\ phase1' = IF mode.ai THEN [active |-> TRUE, text |-> <<>>] ELSE phase1
  /\ UNCHANGED <<mode, userVars, controllerVars, speaking, heard, home,
                 pipelineVars, buffer, flush, finish, release, typed, failures>>

(* finish_ptt_press. *)
ShowListening ==
  /\ capture = "open" /\ capture' = "listening"
  /\ state' = Transition(state, "Listening")
  /\ UNCHANGED <<mode, userVars, fieldVars, ptt, begun, speaking, heard, home,
                 spot, pipelineVars, buffer, flush, rewriteVars, typed, failures>>

(* Letting go, or the second tap; finish_ptt_release does the rest. *)
EndTake ==
  /\ capture = "listening" /\ capture' = "releasing"
  /\ ptt' = FALSE
  /\ UNCHANGED <<mode, userVars, fieldVars, state, begun, speaking, heard, home,
                 spot, pipelineVars, buffer, flush, rewriteVars, typed, failures>>

-----------------------------------------------------------------------------
(* Speech.                                                                 *)

(* capture_injection_target_and_sync_buffer: the target of work under way   *)
(* is kept; else a new one is taken and the old one's text dropped.        *)
CaptureTarget ==
  IF target # NoWindow /\ focus # target /\ Retained(SpeechStart(state))
  THEN UNCHANGED <<target, buffer>>
  ELSE /\ target' = Captured(target)
       /\ buffer' = IF target # NoWindow /\ target' # target
                       /\ ~Retained(SpeechStart(state))
                    THEN <<>> ELSE buffer

(* should_continue_session_across_focus_loss, when no job is pending. *)
ContinuesSession == begun /\ target # NoWindow /\ buffer # <<>>

Microphone ==
  IF mode.push_to_talk THEN capture \in {"open", "listening"} ELSE TRUE

(* on_speech_started.  Without push-to-talk it heeds ptt_hold all the same. *)
SpeechStarted ==
  /\ Microphone /\ ~speaking /\ heard < MaxSegments
  /\ speaking' = TRUE
  /\ state' = SpeechStart(state)
  /\ LET held  == mode.push_to_talk /\ ptt /\ mode.ptt_hold
         fresh == state = "Ready" /\ pending = 0 /\ ~held
     IN IF mode.ptt_hold /\ ~held
        THEN UNCHANGED <<begun, target, watch, spot, buffer>>
        ELSE IF (fresh /\ ~ContinuesSession) \/ (~fresh /\ ~begun)
        THEN BeginSession /\ UNCHANGED buffer
        ELSE /\ CaptureTarget
             /\ watch' = "new" /\ spot' = target' /\ UNCHANGED begun
  /\ UNCHANGED <<mode, userVars, ptt, capture, heard, home, pipelineVars,
                 flush, rewriteVars, typed, failures>>

Enqueued ==
  /\ heard' = heard + 1
  /\ queue' = Append(queue, heard + 1)
  /\ pending' = pending + 1
  /\ home' = [home EXCEPT ![heard + 1] = spot]

(* Silence ends an utterance; a take that is held is not split. *)
SpeechEnded ==
  /\ speaking /\ speaking' = FALSE
  /\ Microphone /\ ~(mode.push_to_talk /\ mode.ptt_hold)
  /\ Enqueued
  /\ UNCHANGED <<mode, userVars, fieldVars, controllerVars, begun, capture, spot,
                 worker, dropped, buffer, flush, rewriteVars, typed, failures>>

(* complete_ptt_release: the rest of the take becomes a job ... *)
TakeQueued ==
  /\ capture = "releasing" /\ speaking
  /\ speaking' = FALSE /\ capture' = "queued"
  /\ Enqueued
  /\ UNCHANGED <<mode, userVars, fieldVars, controllerVars, begun, spot, worker,
                 dropped, buffer, flush, rewriteVars, typed, failures>>

(* ... or there was none; finish_ptt_release then recovers. *)
TakeSilent ==
  /\ capture = "releasing" /\ ~speaking
  /\ capture' = "queued"
  /\ state' = IF state \in {"Listening", "Processing"}
              THEN RecoverAfterSegment(state, ptt) ELSE state
  /\ UNCHANGED <<mode, userVars, fieldVars, ptt, begun, speaking, heard, home, spot,
                 pipelineVars, buffer, flush, rewriteVars, typed, failures>>

(* The end of spawn_ptt_release: a task finishes the take if no job will.   *)
(* Bound: one such task at a time.                                         *)
Released ==
  /\ capture = "queued" /\ capture' = "closed"
  /\ release = "idle"
  /\ release' = IF pending = 0 /\ phase1.text # <<>> THEN "look" ELSE "idle"
  /\ UNCHANGED <<mode, userVars, fieldVars, controllerVars, begun, speaking, heard,
                 home, spot, pipelineVars, buffer, flush, phase1, finish, typed,
                 failures>>

User == MoveFocus \/ ShowSettings \/ PressKey \/ OpenTake \/ ShowListening
        \/ EndTake \/ SpeechStarted \/ SpeechEnded \/ TakeQueued \/ TakeSilent
        \/ Released

-----------------------------------------------------------------------------
(* The pipeline worker.                                                    *)

WorkerAt(pc) == worker.pc = pc
WorkerGoes(pc) == worker' = [worker EXCEPT !.pc = pc]

KeepForWorker == UNCHANGED <<mode, ptt, takeVars, flush, finish, release>>

TakeJob ==
  /\ WorkerAt("idle") /\ queue # <<>>
  /\ queue' = Tail(queue)
  /\ worker' = [pc |-> "work", seg |-> Head(queue)]
  /\ state' = Announce(state)
  /\ UNCHANGED <<userVars, fieldVars, pending, dropped, buffer, phase1, typed, failures>>
  /\ KeepForWorker

(* Silence or no text. *)
NoText ==
  /\ WorkerAt("work") /\ WorkerGoes("finish")
  /\ dropped' = dropped \cup {worker.seg}
  /\ UNCHANGED <<userVars, fieldVars, state, queue, pending, buffer, phase1, typed,
                 failures>>
  /\ KeepForWorker

TextReady ==
  /\ WorkerAt("work") /\ WorkerGoes("decide")
  /\ state' = Transition(state, "Injecting")
  /\ UNCHANGED <<userVars, fieldVars, queue, pending, dropped, buffer, phase1,
                 typed, failures>>
  /\ KeepForWorker

(* should_defer_injection. *)
Decide ==
  /\ WorkerAt("decide") /\ WorkerGoes(IF ShouldDefer THEN "append" ELSE "type")
  /\ UNCHANGED <<userVars, fieldVars, state, queue, pending, dropped, buffer, phase1,
                 typed, failures>>
  /\ KeepForWorker

(* Variant for the checks: deferred text is left out of the take's text. *)
AppendUnrecorded ==
  /\ WorkerAt("append") /\ WorkerGoes("finish")
  /\ buffer' = Append(buffer, worker.seg)
  /\ UNCHANGED <<userVars, fieldVars, state, queue, pending, dropped, phase1, typed,
                 failures>>
  /\ KeepForWorker

(* append_deferred_injection. *)
AppendDeferred ==
  /\ WorkerAt("append") /\ WorkerGoes("finish")
  /\ buffer' = Append(buffer, worker.seg)
  /\ phase1' = Recorded(worker.seg)
  /\ UNCHANGED <<userVars, fieldVars, state, queue, pending, dropped, typed, failures>>
  /\ KeepForWorker

TypeText ==
  /\ WorkerAt("type") /\ WorkerGoes("finish")
  /\ Prepare
  /\ typed' = [typed EXCEPT ![focus'] = Append(@, worker.seg)]
  /\ phase1' = Recorded(worker.seg)
  /\ UNCHANGED <<state, queue, pending, dropped, buffer, failures>>
  /\ KeepForWorker

(* handle_pipeline_error, up to the count ... *)
TypeFails ==
  /\ WorkerAt("type") /\ WorkerGoes("failed")
  /\ Fails /\ Prepare
  /\ dropped' = dropped \cup {worker.seg}
  /\ state' = ReportError(state, FALSE)
  /\ UNCHANGED <<queue, pending, buffer, phase1, typed>>
  /\ KeepForWorker

(* ... and the rest of it: no rewrite, and the watch goes on. *)
SettleFailed ==
  /\ WorkerAt("failed") /\ WorkerGoes("idle")
  /\ pending' = pending - 1
  /\ state' = IF pending = 1 THEN RecoverAfterSegment(state, ptt) ELSE state
  /\ UNCHANGED <<userVars, fieldVars, queue, dropped, buffer, phase1, typed, failures>>
  /\ KeepForWorker

(* The finish closure of process_one_segment: the last job recovers. *)
FinishJob ==
  /\ WorkerAt("finish") /\ WorkerGoes(IF pending = 1 THEN "recover" ELSE "idle")
  /\ pending' = pending - 1
  /\ UNCHANGED <<userVars, fieldVars, state, queue, dropped, buffer, phase1, typed,
                 failures>>
  /\ KeepForWorker

RecoverJob ==
  /\ WorkerAt("recover") /\ WorkerGoes("look")
  /\ state' = RecoverAfterSegment(state, ptt)
  /\ UNCHANGED <<userVars, fieldVars, queue, pending, dropped, buffer, phase1, typed,
                 failures>>
  /\ KeepForWorker

EndJob ==
  /\ WorkerAt("end") /\ WorkerGoes("idle")
  /\ MaybeStopWatch(state)
  /\ UNCHANGED <<userVars, state, queue, pending, dropped, buffer, phase1, typed,
                 failures>>
  /\ KeepForWorker

Worker == TakeJob \/ NoText \/ TextReady \/ Decide \/ AppendDeferred \/ TypeText
          \/ TypeFails \/ SettleFailed \/ FinishJob \/ RecoverJob \/ EndJob

-----------------------------------------------------------------------------
(* The focus watch (start_focus_watch_defer).                              *)

Seen == IF Matches THEN "match" ELSE "away"

KeepForWatch ==
  UNCHANGED <<mode, userVars, target, controllerVars, takeVars, pipelineVars, buffer,
              rewriteVars, typed, failures>>

(* was_matching of a new thread is what it sees first. *)
WatchStarts ==
  /\ watch = "new" /\ watch' = Seen
  /\ UNCHANGED flush /\ KeepForWatch

FieldLost ==
  /\ watch = "match" /\ ~Matches
  /\ watch' = "away"
  /\ UNCHANGED flush /\ KeepForWatch

(* Variant for the checks: nobody is told. *)
RegainedUnheard ==
  /\ watch = "away" /\ Matches
  /\ watch' = "match" /\ UNCHANGED flush
  /\ KeepForWatch

(* schedule_flush_defer_buffer. *)
FieldRegained ==
  /\ watch = "away" /\ Matches
  /\ watch' = "match"
  /\ \E f \in Flushes : /\ flush[f].pc = "idle"
                        /\ flush' = [flush EXCEPT ![f].pc = "start"]
  /\ KeepForWatch

Watch == WatchStarts \/ FieldLost \/ FieldRegained

-----------------------------------------------------------------------------
(* flush_focus_defer_buffer.                                               *)

FlushAt(f, pc) == flush[f].pc = pc
FlushGoes(f, pc) == flush' = [flush EXCEPT ![f].pc = pc]
FlushIdle(f) == flush' = [flush EXCEPT ![f] = [pc |-> "idle", text |-> <<>>]]

KeepForFlush == UNCHANGED <<mode, ptt, takeVars, pipelineVars, rewriteVars>>

FlushHasNothing(f) ==
  /\ FlushAt(f, "start")
  /\ target = NoWindow \/ (focus = target /\ buffer = <<>>)
  /\ MaybeStopWatch(state)
  /\ FlushIdle(f)
  /\ UNCHANGED <<userVars, state, buffer, typed, failures>> /\ KeepForFlush

FlushTooLate(f) ==
  /\ FlushAt(f, "start")
  /\ target # NoWindow /\ focus # target
  /\ FlushIdle(f)
  /\ UNCHANGED <<userVars, fieldVars, state, buffer, typed, failures>> /\ KeepForFlush

(* transition_for_injection. *)
ForInjection(s) == Transition(IF s = "Ready" THEN "Processing" ELSE s, "Injecting")

(* snapshot_for_flush: the text stays in the buffer until it is typed. *)
FlushSnapshot(f) ==
  /\ FlushAt(f, "start")
  /\ target # NoWindow /\ focus = target /\ buffer # <<>>
  /\ flush' = [flush EXCEPT ![f] = [pc |-> "type", text |-> buffer]]
  /\ state' = ForInjection(state)
  /\ UNCHANGED <<userVars, fieldVars, buffer, typed, failures>> /\ KeepForFlush

FlushTypes(f) ==
  /\ FlushAt(f, "type") /\ FlushGoes(f, "consume")
  /\ Prepare
  /\ typed' = [typed EXCEPT ![focus'] = @ \o flush[f].text]
  /\ UNCHANGED <<state, buffer, failures>> /\ KeepForFlush

FlushFails(f) ==
  /\ FlushAt(f, "type") /\ FlushIdle(f)
  /\ Fails /\ Prepare
  /\ state' = RecoverAfterSegment(state, ptt)
  /\ UNCHANGED <<buffer, typed>> /\ KeepForFlush

(* Variant for the checks: a flush empties the buffer. *)
FlushConsumesAll(f) ==
  /\ FlushAt(f, "consume") /\ FlushGoes(f, "look")
  /\ buffer' = <<>>
  /\ UNCHANGED <<userVars, fieldVars, state, typed, failures>> /\ KeepForFlush

(* consume_flushed_snapshot: what was appended meanwhile stays. *)
FlushConsumes(f) ==
  /\ FlushAt(f, "consume") /\ FlushGoes(f, "look")
  /\ buffer' = IF IsPrefix(flush[f].text, buffer)
               THEN SubSeq(buffer, Len(flush[f].text) + 1, Len(buffer)) ELSE buffer
  /\ UNCHANGED <<userVars, fieldVars, state, typed, failures>> /\ KeepForFlush

(* Variant for the checks: the controller is left to the worker. *)
FlushEndsBusy(f) ==
  /\ FlushAt(f, "end") /\ FlushIdle(f)
  /\ MaybeStopWatch(state)
  /\ UNCHANGED <<userVars, state, buffer, typed, failures>> /\ KeepForFlush

FlushEnds(f) ==
  /\ FlushAt(f, "end") /\ FlushIdle(f)
  /\ state' = IF pending = 0 THEN RecoverAfterSegment(state, ptt) ELSE state
  /\ MaybeStopWatch(state')
  /\ UNCHANGED <<userVars, buffer, typed, failures>> /\ KeepForFlush

Flush(f) == FlushHasNothing(f) \/ FlushTooLate(f) \/ FlushSnapshot(f) \/ FlushTypes(f)
            \/ FlushFails(f) \/ FlushConsumes(f) \/ FlushEnds(f)

=============================================================================
