# Veyro: a verification project in TLA+

Veyro is a voice-dictation program: a Tauri shell, a Rust core under
`src-tauri/src` and a TypeScript front end.  The user holds or taps a hotkey
(push-to-talk, "PTT") or just speaks (continuous capture); the audio is cut
into segments; each segment is queued, transcribed, cleaned up and typed into
the focused field.

This directory models the part of the Rust core where that goes wrong in ways
a test hardly reaches: the threads of the hotkey, the voice detector, the
pipeline worker and the focus watch meet at a handful of atomics, two mutexes,
a few bounded channels and a directory of spill files.  The modules are checked
by TLC on small instances; almost all of the safety properties those runs check
are also proved with TLAPS for every value of the constants (section 5 says which,
and under which assumptions).

Paths below are relative to `src/src-tauri/src/`.

## 1. Inventory

| Component | State | Operations | Talks to |
|---|---|---|---|
| Application state, controller (`app/state.rs`, `app/controller.rs`) | `state`, `push_to_talk_active`, settings, last error, behind one mutex | `plan_hotkey_pressed/released`, `finish_ptt_press/release`, `transition`, `report_error`, `recover_after_segment`, `recover_from_error`, `finish_audio_action` | everyone locks it; it calls nobody |
| Segment queue and pipeline worker (`app/runtime.rs`, `audio/segment_queue_store.rs`) | `pending`, `memory_segments` (atomics), the channel `queue_tx`, the cancel token, the spill directory | `enqueue_segment` (`prepare_payload`, `spill`, `send_job`), `replay_spilled_segments`, `clear_spill_queue`, `process_one_segment`, `handle_pipeline_error` | called by the VAD thread and the release worker; calls transcription, text, injection, controller |
| Push-to-talk (`hotkey/manager.rs`, `game_input/`) | atomic `TOGGLE_CAPTURE`, `ptt_lock`, one spawned thread for each accepted key edge | `dispatch_ptt_pressed/released`, `spawn_ptt_press`, `spawn_ptt_release`, `begin/confirm/reset_toggle_capture` | controller, audio pipeline, `apply_ptt_active` |
| Dictation sessions and calling off (`app/dictation_session.rs`, `app/context.rs`) | `current_id`, `aborted_id`, cancel token | `begin_dictation_session`, `abort_current`, `cancel_pending`, `reset_cancel`, `recover_engine` | pipeline worker reads them between its steps |
| Audio capture and voice detection (`audio/pipeline.rs`, `audio/stream.rs`, `audio/ring_buffer.rs`, `vad/`) | `ptt_gate`, `ptt_active`, `ptt_vad_segments_on_silence`, the bounded channels of audio, flush request and flushed segment, the receiver of the last; the detector's phase and buffers | `start`, `stop`, `set_ptt_active`, `begin_ptt_release`, `wait_for_ptt_flush`, the loop of `vad-worker`; `push_samples`, `flush_ptt`, `reset` | device callback in, speech callbacks of `AppContext` out; pressed and released by the hotkey's threads, aborted by the focus watch |
| Focus watch (`injection/focus_watch.rs`) | `WATCH` (thread handle and stop flag) | `start_focus_watch_abort`, `start_focus_watch_defer`, `stop_focus_watch` | abort and flush in `context.rs` |
| Deferred injection (`injection/focus_defer_buffer.rs`, `injection/focus_target.rs`) | the buffer, the target field | `push_prepared`, `snapshot_for_flush`, `consume_flushed_snapshot`, `clear` | worker appends, the watch's flush types |
| Two-phase AI postprocess (`app/ptt_postprocess.rs`) | session accumulator, finish guard | `begin`, `append`, `take`, replacement of the typed text | worker |
| Tool stages, voice watch (`tools/heavy_job.rs`, `tools/shared.rs`, `tools/voice_watch/`) | the guard of the tools, the flag of a running stage; the queue of voice files, their history and registry on disk; the watcher thread and its channel | `begin_stage`, `run_exclusive_heavy_stage`, `enqueue_paths`, `worker_loop`, `retry`, `remove`, `start`/`update`/`stop` of the watcher, `handle_candidate` | commands of the window; the controller keeps tools from starting while the user dictates |
| Retries (`network/retry.rs`, `app/transcribe_audio.rs`) | attempt count | `retry_delay`, the loop | transcription engines |
| Models and memory (`app/model_idle.rs`, `llm/engine.rs`, `transcription/local.rs`) | the cell of the language model, the state, thread and channel of each engine; the transcriber, its cancel token and its weights; the time of the last activity | `ensure_loaded`, `complete`, `unload`, `worker_main`; `rotate_transcriber_cancel`, `replace_transcriber`, `unload_model`; the watchdog, `apply_memory_policy`, `force_unload_local_models` | worker, tools and prewarm use the models; the watchdog, the settings and a recovery take them out |
| Settings, text rules, engines, subtitles, shell, user interface | values, strings, native handles | data transformations, I/O | - |

**What is hard.**

* *Interleaving.*  Two threads enqueue while the worker settles jobs, and the
  limit is checked and counted in two steps (`send_job`).  A key edge starts a
  thread of its own, so the threads of a press and of the following release
  meet only at `ptt_lock`, which does not order them.  `vad-worker` looks at
  the gate once in a pass and again when it has a chunk in hand.
* *Stale state.*  The worker reads the cancel token and the session between
  long calls; text may be typed after the user has called the work off.  A
  release thread resets a shared toggle when it ends, whoever owns it by then.
  A flushed segment nobody collected in time waits for the next release.
* *Failure in the middle.*  A spill may fail between its two files, the device
  may fail after the gate was raised, a job may fail before or after its text
  was typed.
  An AI rewrite may fail between deleting the text and typing the new one.
* *Crash and restart.*  Only the spill files survive; the next start replays
  complete pairs.  Of the voice files the history and the registry survive, the
  queue does not.
* *Shared resources.*  The models are used by the worker, the tools and the
  prewarm thread and taken out by four parties, through handles that outlive
  the cell they came from.
* *Liveness.*  Every exit of a job, of a take, of an abort and of a recovery
  must bring the controller out of a busy state, or the hotkey is dead; a voice
  file that waits must have a task that comes to it; whoever waits for the
  language model must have a thread that answers.

**What makes each component correct** is stated next to its model below; the
hazards, at their lines, are listed in `PROJECT.json`.

## 2. Modules

| Module | Models |
|---|---|
| `AppState` | the transition table and the pure state changes of the controller, used by everyone |
| `SegmentQueue` | the queue: each atomic operation and each file operation of the enqueueing threads, replay, worker, cancellation and crash |
| `SegmentDelivery` | abstract specification of the queue: first in, first out, each acceptance typed at most once, none waiting for ever |
| `PttCapture` | the hotkey: gate thread, press and release workers, toggle, `ptt_lock`, capture gate, with the pipeline as environment |
| `VadDetector` | the voice detector, as operators on its record |
| `AudioCapture` | device callback, bounded channel, `vad-worker`, press and release with the flush and its timeout, abort, restart; uses `VadDetector` |
| `DictationPipeline` | a whole dictation: `SegmentQueue` (by `INSTANCE`) composed with controller, sessions, cancel token, focus watch, abort and recovery |
| `FocusDefer` | what becomes of text that is ready while the user is elsewhere: target field, defer buffer, defer watch, flush tasks, and the worker's path through them |
| `PttPostprocess` | the two-phase AI rewrite; extends `FocusDefer` and has the specification of both |
| `ToolSlot` | the guard of the tools and the slot of heavy stages |
| `VoiceQueue` | the queue of voice files, its worker task, history and registry; extends `ToolSlot` |
| `VoiceWatch` | the folder watch, its settings, kills and restarts; extends `VoiceQueue` and has the specification of the three |
| `LlmEngine` | the language model: engines, their threads and channels, the cell, the handles |
| `SttEngine` | the transcriber: instances, cancel tokens, weights, reloads; extends `LlmEngine` |
| `ModelIdle` | who uses, unloads and reloads the two models when; extends `SttEngine` and has the specification of the three |
| `SegmentQueue_proofs`, `PttCapture_proofs`, `AudioCapture_proofs`, `DictationPipeline_proofs`, `PttPostprocess_proofs`, `VoiceWatch_proofs`, `ModelIdle_proofs` | theorems about the module of that name |
| `SegmentFiles_proofs` | theorems about the spill files of `SegmentQueue` and its refinement; extends `SegmentQueue_proofs` |
| `MC...` | values of constants and symmetries for TLC |

### SegmentQueue

A thread that enqueues walks through `prepare` - (`number` - `wav` - `json` |
`hold`) - `admit` - `count` - `send`; each arrow is one atomic operation or one
file operation of `enqueue_segment`.  A payload is a segment with `seq = 0` (in
memory) or the number in the name of its spill file.  `wav` and `meta` are the
files on disk, so that a pair can be half written and half removed; `IsNextSeq`
is `next_seq`, which looks at complete pairs only, and what `TakeNumber` found
may be out of date when `WriteWav` uses it.  `Boot` is
`replay_spilled_segments`, run before the callbacks are wired.  The worker takes
a job (`Receive`, `Load`) and leaves it by one of the exits of
`process_one_segment`: `Discard` (every early return through `finish`), `Insert`
and `Release`, or `Fail` (`handle_pipeline_error`).  `finish` is `GiveBack`,
which removes the WAV or gives back the place in memory, `RemoveJson`, and
`Settle`; `handle_pipeline_error` does only the last.  A cancellation lists the
directory (`ClearBegins`) and removes file by file (`ClearFile`, `ClearEnds`)
while everybody else goes on.  `memory` is a `usize` and wraps (`UsizeMod`).

Three variables are histories.  `residue` has the files left behind by the exits
that, in the code, keep them (a refused job, a spill or a removal that failed, an
error, a crash between two writes); everything else on disk must belong to
somebody: that is `FilesAccounted`.  `robbed` notes that a `RemoveJson` took the
JSON of a job that was given the number meanwhile, `shared` that two threads were
between number and JSON at once.  With a cancellation these are the three ways
in which jobs get each other's audio in the code; `FilesUndisturbed` says that
none has happened, and `OwnAudio` and `JobsHaveTheirFile` say that nothing else
mixes files.

### PttCapture

`PressStarts`, `PressStops`, `PressIgnored`, `ReleaseStops`, `ReleaseIgnored`
are what the gate thread makes of a key edge (`dispatch_ptt_*` and the plan of
the controller, which are one critical section).  A worker walks through
`check` - `lock` - `open` - `confirm` - `listen` (press) or `pause` - `close` -
`flush` - `finish` - `reset` (release).  The pipeline is the environment: jobs
appear when a take is flushed or split by silence, and move the controller's
state in the order `process_one_segment` does.

The user is as quick as may be: edges come at any moment, also before the worker
of the last one has done a step.  Two histories note when a worker ran out of
turn: `overtaken`, a release was quicker to `ptt_lock` than the press before it;
`crowded`, a take began while a release worker was still running.  Each is a
hazard of the code itself, with the behaviours of section 4; `InTurn` says that
neither has happened, and the properties say that nothing else leads there:
keys let go early, edges while a take is stopping, devices that fail, and jobs of
earlier takes.

### VadDetector and AudioCapture

`PttCapture` treats the voice detector as an environment that speaks or is
silent; here it is the subject.  `VadDetector` has one operator for each method
of `vad/detector.rs`: each takes the detector's record and gives the new one,
the event and the event's audio.  One chunk of the device is one analysed frame
(`voice` is the analyzer's verdict), so every limit is a number of frames and
nothing is left in the resampler.  The audio is a sequence of numbered chunks:
that is all the properties need to tell lost, doubled and misplaced audio apart.

`AudioCapture` cuts a pass of `vad-worker` where other threads can come in
between: `Look` reads the gate, `BeginFlush` - `DrainChunk` - `FlushTake` answer
a flush, `FollowGate` resets the detector when a take opens, and `PushChunk`,
`DropChunk` or `NothingToRead` end the pass.  A press is `OpenGate` -
`ResumeCallbacks` - `ChooseSplitting`; a release is `PauseCallbacks` -
`CloseGate` - `RequestFlush`, then `ReceiveAnswer`, `Timeout` or `NoReceiver`,
then `ReleaseDone`.  `receiver` follows `ptt_flush_rx`: `begin_ptt_release`
lends it, `restore_ptt_flush_rx` brings it back, and whoever drops it in
between leaves the pipeline deaf.  A restart takes no lock that a press or a
release holds while it waits, so `RestartPipeline` may come between any two steps
of a take.  It joins the old worker first (`joining`: the last segment such a
worker delivers); the new pipeline has channels of its own, and a release that
still waits for the old one gets no answer and puts its receiver over the new
(`"stale"`).

Two constants say what the scheduler may do.  Without `Torn` a press or a
release does not straddle a pass of the worker (some microseconds in a loop
that sleeps 5 ms); without `Slow` a flush is answered within `PTT_FLUSH_WAIT`
(500 ms).  The code enforces neither; section 4 says what each protects.

### DictationPipeline

The queue's actions are used as they are; a take, a stage of
`process_one_segment`, an abort or a recovery adds what happens to the
controller, the session, the token and the watch in the same step.
`should_skip_dictation_job` is evaluated exactly where the code does: at the
start, in the transcription, after it, and before the text is typed.

Nothing in the opening of a take has a lock in common with an abort, so it is one
step for each call: `PressKey`, `RenewToken` (`reset_cancel`), `BeginTake`
(`begin_session` and the target), `WatchTake` (the focus watch), `OpenGate`,
`ShowListening`.  Speech in continuous mode begins its session in `SpeechStarted`
and its watch in `WatchSpeech`.  Calling off is as finely cut (`LoseFocus`,
`CancelPending` and the removal of the spill files, `AbortCancels`,
`AbortStopsWatch`, `AbortEndsTake`; `RecoverCancels`, `RecoverRenews`,
`RecoverState`, `RestartCapture`), so that the worker, a take and the voice
detector run in between.  The focus watch aborts on its own thread and then stops
itself: if it finds its own handle it joins itself and goes no further, if another
thread took the handle first that thread waits (`StealHandle`, `CanStopWatch`).
`cancelledIn` is a history: the session a token served when it was cancelled.

The settings `push_to_talk`, `ptt_hold` and `abort_on_focus_loss` are a
variable that never changes, so one run looks at all their combinations.
Push-to-talk is in hold mode here and the user waits for a take to open and to
close; quick fingers and toggle mode are `PttCapture`'s matter.

### FocusDefer and PttPostprocess

A segment is a number, a window stands for the input field in it, and `typed`
says what each window holds, so that lost, doubled and misplaced text can be
told apart.  The worker's path is that of `process_one_segment` after the
transcription: decide (`should_defer_focus_injection`), append to the buffer or
type, settle.  The watch thread polls and compares what it sees with what it saw
last (`FieldLost`, `FieldRegained`); each time the field is regained it starts a
task that runs `flush_focus_defer_buffer`: `FlushSnapshot`, `FlushTypes`,
`FlushConsumes` are its critical sections, so two flushes and the worker run
between them.  `PttPostprocess` adds `try_finish_ptt_postprocess`, which the
worker, a flush and the task of a release all call: the checks before the guard
(`FinishLooks`), the claim (`FinishClaims`), deletion, rewrite, insertion, and
the restoration of the old text when one of them fails.

The code does not exclude some races, and what it promises does not survive
them.  `races` notes which a behaviour has met; the properties say what holds
without them.  Section 4 lists them.

### ToolSlot, VoiceQueue and VoiceWatch

`ToolSlot` has the tools' guard and the stage flag, with a panic in a stage.
`VoiceQueue` walks `enqueue_paths` path by path under the mutex of the queue
(`lock` - `next` - `put` - `schedule`), and the worker task through `pop` -
`load`/`save` - `wait` - `begin` - `transcribe` - `clear` - `again`, with the
recheck after its loop (`recheck`, `reschedule`).  The history is a file that is
loaded, changed and saved: `snap` is what somebody has loaded, so that two
updates may overtake each other.  Commands of the window (`retry`, `remove`,
index and apply) and threads of the watch run beside it.  `VoiceWatch` adds the
handle and the channel of the watch and its loop, settings that switch it on and
off, and kills.  Three histories note what excuses an exception: `overlap` (an
update of the history was lost), `stranded` (an enqueue failed half-way) and
`interrupted` (a kill while a file was waiting or in work).

### LlmEngine, SttEngine and ModelIdle

An engine has the flag that it is ready, a mutex, a thread (`building`,
`serving`, `deaf` when its model did not load, `ended`) and a channel.  Each
process has one record: where it is in `ensure_loaded`, `complete` or an unload,
the handle it works with, and the one it is dropping; Rust's drop of the last
handle, which unloads, is part of every place where a handle is dropped
(`DropGoes`, `Assign`).  `Load` takes any engine that nobody holds and whose
thread has ended, as all of those are alike.  `SttEngine` has the same for the
transcriber: a handle to the instance in the cell, the cancel token each
instance was made with, the weights behind their mutex.  `ModelIdle` says who
begins what: the worker's job, a tool or the prewarm thread, the watchdog with
its checks in the order and with the locks of `model_idle.rs`, the task it
spawns, and the commands.  Nothing keeps two reloads of the transcriber apart, as
nothing does in the code; the histories `disturbed` (one ran beside the job) and
`crossed` (one began while another ran) note it.  There is no clock: `recent` may
become false at any moment and is set wherever the code notes an activity.

## 3. Runs

| Run | Properties | Shows |
|---|---|---|
| `queue_two_threads` | `PendingExact` `BacklogBound` `FilesAccounted` `MemoryCovered` `OwnAudio` `JobsHaveTheirFile` `ImplementsDelivery` | two enqueueing threads, worker, one cancellation, one crash, with every file operation a step: `pending` is exact (so only the last job recovers the controller), the limit is passed by at most one job, no spill file is forgotten, the memory count never wraps but after a clearing, three races and nothing else give a job another's audio, and the queue implements `SegmentDelivery`, its fairness included |
| `ptt_takes` | `KeyUpClosesInTurn` `HoldTellsCapture` `OpenGateIsActive` `NotBusyAtRest` `OneCaptureInTurn` `StopCompletes` | hold and toggle mode, keys pressed and let go at any moment, a device that may fail, jobs of earlier takes: a microphone that outlives its key, has no owner or is opened twice is always the work of a worker that ran out of turn; a claimed stop completes and no busy state is left |
| `ptt_key_up_lost` | `KeyUpCloses`, violated | one press in hold mode, let go before its worker has `ptt_lock`: section 4 |
| `dictation_modes` | `ReadyAtRest` `IdleAtRest` `KeyUpEndsCapture` `ImplementsQueue` `BusyEnds` | every mode: the controller comes back from each busy state, nothing is captured once the key is up, and every step of the composition is a step of `SegmentQueue` (so what is proved there holds here) |
| `dictation_overlap` | `AtMostOneLateText` `FreshTakeRuns` | work called off at any moment, between any two steps of a take, with spilling and one clearing of the spill files under way: at most one text of an aborted session is typed, and a push-to-talk take is not skipped for what was called off before its own `reset_cancel` |
| `capture_takes` | `TypeOK` `SpokenOrder` `OwnTake` `HeldTakeWhole` `DeafAfterLoss` `SegmentFits` | hold, toggle and continuous capture, two takes, an abort and a restart between any two steps: audio reaches the queue once and in the order it was spoken, a take gets only its own, a held take shorter than the maximum segment loses at most the two chunks in the worker's hand at its ends, and a release goes unheard only after an abort or a restart within an earlier take |
| `deferred_takes` | `NothingLost` `OnceInOrder` `InItsField` `DeletesOwnText` `WaitsOnlyAway` `ReadyAtRest` | toggle mode with the AI rewrite, and continuous capture; a user who changes windows twice, two flush tasks, one call that fails: outside the races no text is lost, doubled, misplaced or left in the buffer, the rewrite deletes only its own text, and the controller always comes back to `Ready` |
| `voice_files` | `OneAtATime` `OnceQueued` `NobodyForgotten` `NoStaleStatus` `WatchesWhenOn` | files dropped, found, retried and removed, a tool and a dictation beside them, changed settings, a panic and a kill: one transcription at a time, one job for each file, no job without a task that comes to it, no status left behind, folders watched when the settings say so |
| `model_idle` | `ReadyIffAlive` `NobodyWaitsInVain` `FailsOnlyUnderReload` | one local model, a job, a tool or the prewarm thread, a round of the watchdog and a command, models that may not load: an engine says it is ready while its thread is there, nobody waits for an answer that cannot come, a job loses its weights only to a reload beside it and is told it was cancelled only then or after two reloads that met |
| `capture_long_hold`, `continuous_not_typed`, `llm_unload_hangs` | one each, violated | the code disagrees with what its own documents say; section 4 |

**Bounds.**  Three segments, a memory of one, one disk slot (which two threads may
pass together, so that two files exist) and a limit of one
pending job make every refusal, every spill, the reuse of a file number between
its two removals and two threads at one number happen; one crash and one
cancellation suffice because each wipes the volatile state they could interact
through.  `UsizeMod = 8` only has to be larger than the number of live segments,
so that a wrap is told from a count.  Three workers of the hotkey, four presses
and a job cover a take that starts while the last one closes and a job of the
take before it settles, and a second edge while both run.  Two sessions, two
segments and one recovery let a job of an aborted session meet a later one.
`dictation_modes` has no spilling and no clearing, as the composition adds nothing
to the files; `dictation_overlap` has both, since a clearing is part of an abort.
In `AudioCapture` a device that delivers four
chunks, on a channel of two, fills and overflows the channel within a take and
leaves chunks for the next; `MaxSegment = 5` is out of reach of four chunks in
`capture_takes` unless the pre-buffer counts with them (it does: the first
voiced frame is in the segment twice), and within reach in `capture_long_hold`.
`Overlap = FALSE` keeps aborts and recoveries out of the moments a take opens;
`dictation_overlap` has them.
Two segments and two flush tasks are the fewest that can be typed in the wrong
order or twice; two moves of the user leave the field and come back, and one
failure may hit any call.  `voice_files` has a file alone and a drop of two of
which the second cannot be read, one candidate thread, two tasks (the second is
the one a recheck may start) and three commands, so that a file can be dropped,
removed and dropped again.  In `model_idle` three engines are the one in the
cell, one that is being dropped and one being loaded; either the language
model or the transcriber is local, since the two share nothing but the
watchdog's order, the activity and the processes.
Engines, tasks and flush tasks are told apart by nothing but their names, and
those runs, which check invariants only, take them as symmetric.
`CHECK_DEADLOCK FALSE` everywhere: all inputs are bounded and a program nobody
talks to rests.  The type invariants of `PttCapture`, `DictationPipeline`,
`PttPostprocess` and `ModelIdle` are stated for the reader; no run spends a
property on them (that of `VoiceWatch` is proved, and so is that of the engines).

**Fairness.**  Weak fairness for each thread that has begun something
(enqueueing threads, workers of the hotkey, replay, the worker task) and for
commands that were begun: they are running OS threads or tokio tasks without
unbounded waits, and the two locks they take are held only for the steps
modelled.  Nobody is made to press, speak, lose focus or recover.  One strong
fairness: the worker's last step may have to join a focus watch that is
aborting.  A join waits for one thread, which ends; watches started later
cannot hold it up again, so the step cannot be starved although it is enabled
only between aborts.  `llm_unload_hangs` needs that every process and every
engine's thread goes on when it can, and nothing of who begins what.

## 4. Where code and documents disagree

Each is a run that TLC must find violated; `PROJECT.json` quotes both sides.

* `ptt_key_up_lost`: a press worker takes `ptt_lock` only after it has checked,
  notified and begun to prewarm, and a release has a worker of its own.  A release
  that is quicker to the lock closes a gate that is not open yet; the press then
  opens it with the key up, and nothing closes it until the next take ends.  The
  comment on `ptt_lock` says that release cannot run before press finishes.
* `capture_long_hold`: the detector splits a segment that reaches
  `maximum_segment` in hold mode too; `vad-worker` throws the split part away,
  and `flush_ptt`, told that a part was delivered, returns only the rest.  A take
  held longer than the limit loses its beginning.
* `continuous_not_typed`: speech begins a session, and with it captures its
  field, only when `ptt_hold` is off, although in continuous mode that setting
  means nothing and is true by default.  Without a field the text waits in the
  buffer for good.
* `llm_unload_hangs`: an engine is ready from the moment its thread was spawned.
  If the model then fails to build, the thread answers rewrites with the error
  and ignores `Shutdown`, and `unload`, which holds a sender itself, joins it
  for ever, with the engine's mutex: the watchdog, the task that applies new
  settings or the unload command never returns.

The same models show more, without a run of their own: each item names the
property or the constant that shows it.

*Queue.*
* `clear_spill_queue` deletes the files of jobs that stay on the channel, and
  numbering restarts at 1: an old job loads, types and deletes the audio of a
  later segment (`NoOthersAudio`, with `MaxClears = 1`).
* `handle_pipeline_error` never gives back the place in memory, so later
  segments are spilled although none waits in memory (`SpillOnlyAtRamCap`).
* Two threads that spill at the same moment may pick the same number, and a number
  that is free because its WAV is gone may be given out before its old JSON is
  removed, so that the removal takes the new one's: the two other ways to
  `NoOthersAudio` failing.  `OwnAudio` and `JobsHaveTheirFile` are about
  behaviours in which none of the three has happened (`FilesUndisturbed`).
* A crash after the insertion and before the deletion of the file types a
  segment twice; `SegmentDelivery` allows it, as a new acceptance.

*Push-to-talk.*
* A press during the release of the last take can open a second capture, because
  the release worker resets the shared toggle when it ends, whoever owns it by
  then: in hold mode at once, in toggle mode with the fifth press (`OneCapture`;
  `OneCaptureInTurn` says that only such a `crowded` take, or one that was
  `overtaken`, leads there).
* In toggle mode a job of the last take may settle between the claim of a stop
  and its end and force `Listening` with the microphone closed
  (`StateTellsCapture`).

*Sessions.*
* In continuous mode nothing replaces the token that a focus-loss abort
  cancelled; jobs of every later session are skipped (`FreshSessionRuns`;
  `app/context.rs:326`, where `app/dictation_session.rs:4` speaks of the aborted
  session only).
* Speech begins a session only if `ptt_hold` is off, also when push-to-talk
  itself is off (`IdleSpeechBeginsSession`).
* A recovery while a take opens clears `push_to_talk_active`, and the key-up is
  then ignored (`KeyUpEndsCapture` needs `Overlap = FALSE`).
* An abort of the last session that comes to `cancel_pending` after the next take's
  `reset_cancel` cancels the token of that take, whose segments are then skipped;
  one that begins after its `begin_session` and before its watch has replaced the
  old one aborts the new session itself (`lib.rs:349`, `app/context.rs:180`).
  `FreshTakeRuns` promises only that what was called off before a take's
  `reset_cancel` does not reach it.

*Capture.*
* The abort on focus loss takes `ptt_flush_rx` and drops it
  (`app/context.rs:330`); until the pipeline is restarted no release gets its
  audio, where `audio/pipeline.rs:287` restores it (`ReleaseHeard`).
* A restart while a release waits for its flush: the release then puts its old
  receiver back over that of the new pipeline (`lib.rs:421`), and every later held
  take waits on a channel nobody sends on (`ReleaseHeard`; `DeafAfterLoss` says
  that these two are the only ways).
* With `Slow` a flush that comes after its release has given up stays in the
  one-place channel: the next release collects it and types the take before
  (`OwnTake`, `SpokenOrder`), and its own flush is dropped (`HeldTakeWhole`).
* With `Torn` a release that straddles a pass of the worker is flushed twice,
  once for the gate and once for the request; the second answer then waits for
  the next release, and the same three properties fail.
* A flush does not reset the detector; only a pass of the worker that sees the
  next take open does (`audio/pipeline.rs:540`).  A tap pressed and released
  between two passes is flushed without it, and with `PttMin` of two frames or
  more gets up to that much of the take before.  `SpokenOrder` and `OwnTake`
  except takes that no pass has seen.  What such a tap finds counts towards
  `MaxSegment` too: with `PttMin` above one a take that is `PttMin - 1` frames
  below the maximum may be split, and `HeldTakeWhole` counts them (`Left`).

* A segment that silence ends just before the release of a toggle take is lost
  if the callbacks are paused by then; the first voiced frame of a segment is in
  it twice, from the pre-buffer and by itself.

*Deferred text and rewriting*: the races of `PttPostprocess`, without which its
properties hold and with which they do not.
* `retarget`: the field of the session is replaced or given up while text is
  under way.  The rewrite does so to itself: `take_finish_snapshot` empties the
  session, which may then be ended while the AI works.
* `overlap`: the user comes back a second time before the first flush is over;
  both flushes may type the same snapshot.
* `overtake`: new text is typed while older text waits in the buffer.
* `straddle`: a take is rewritten while the next, or the rest of it, is coming;
  what is deleted need not be the text of the take.
* `glance`, `restart`: the watch compares with its last poll only; text that was
  put aside when the user was already back, or an absence between two polls, or
  a new watch, leaves text in the buffer until the field is next regained.
  So does a flush that fails.
* A rewrite whose insertion fails leaves the state at `Injecting` until the next
  transition.

*Voice files.*
* A drop whose second path cannot be read returns the error before
  `schedule_worker`: the first file waits until something else is enqueued
  (`stranded`).
* A caller that `begin_stage` refuses frees the flag of the stage that runs, and
  after a panic in a stage exactly the next one is refused; the guard of the
  tools, which comes before, keeps both from doing harm.
* Off and quickly on again sends the update on a channel whose loop reads the
  stop first: the handle says that folders are watched and none is
  (`unwatched`; `README.MD:110` of the repository).  A watch that could not be
  made lowers only its own flag.
* The history is loaded, changed and saved without a lock; a status update, a
  retry and `purge_expired`, which saves at every change of the settings,
  overtake each other (`overlap`).  `register_index_paths` writes back what it
  read before.
* The registry remembers a file before it is transcribed; what a kill left as
  pending or processing is not taken up again (`interrupted`).

*Models.*
* `unload_local_llm_for_idle` reads the cell again and writes it back: an engine
  that was just loaded is overwritten, or one that has gone is put back.
  `ensure_loaded` with settings read before a change loads the old model.
* Two reloads of the transcriber that meet may leave an instance whose token is
  already cancelled (`NextHasFreshToken`); the jobs after them are told that they
  were cancelled, which `FailsOnlyUnderReload` allows (`crossed`).
  `reload_stt_engine` gives a new remote transcriber the token of the running job,
  so the next focus-loss abort cancels it for good.
* The watchdog's check and the task it spawns are apart: a take begun between
  them is cancelled by the unload, or finds its weights gone between
  `ensure_loaded` and the lock ("model not loaded"; `IdleSparesJob`).
* `is_model_loaded` waits for the weights, that is for a whole transcription,
  under the read lock of the cell.

## 5. Proofs

Each theorem holds for all values of the constants that satisfy the assumptions of
its module; a hypothesis that a theorem needs beyond those is in its statement
and in the tables below.  It restricts a constant the way the run that checks the
property does; section 4 tells what happens without it.  Every inductive invariant was
checked by TLC on the bounds of its run before it was proved.

### The queue

`SegmentQueue_proofs` proves, from `QueueAssumption` alone (a finite non-empty
set of producers, natural limits, a non-zero word and memory cap):

| Theorem | States |
|---|---|
| `CountInvariant` | `Spec => []CountInv`, the inductive invariant |
| `TypeCorrect` | `Spec => []TypeOK` |
| `PendingIsExact` | `Spec => []PendingExact` |
| `BacklogIsBounded` | `Spec => []BacklogBound`: N producers pass the limit by at most N - 1 jobs |

`CountInv` is `TypeOK /\ PendingExact /\ BootAlone /\ RoomForAdmitted /\
NumberedOnDisk`, and each part is there because another one needs it:

* `TypeOK` is not inductive by itself: that `pending` stays a natural needs
  `PendingExact` (the worker only subtracts a job that is counted), and that
  every queued `seq` is a slot needs `NumberedOnDisk` (a thread about to write
  its JSON already has a number).
* `PendingExact` needs the types, for the arithmetic of cardinalities.
* `BacklogBound` needs `RoomForAdmitted`: a thread that passed the check and
  has not counted yet already has its place.  Let N be the number of producers.
  Before an `Admit`, `pending` is below the limit and at most N - 1 other
  threads stand between check and count, so with the new one the sum is at
  most the limit plus N - 1; `Count` moves one from the second summand to the
  first.
* `RoomForAdmitted` needs `BootAlone`: the replay goes through the same code
  but never together with a producer, so it does not add a thread.

The lemmas come in three groups: how the number of threads at a step changes
(`Arrives`, `Leaves`), the types action by action, and the three counting parts
action by action.

`SegmentFiles_proofs` goes on to the files:

| Theorem | States |
|---|---|
| `NoFileForgotten` | `FilesAccounted` |
| `FileInvariant`, `JobsKeepTheirAudio`, `QueuedFilesExist` | `FileInv`, `OwnAudio`, `JobsHaveTheirFile` |
| `WaitingInvariant`, `QueueDelivers` | `WaitingInv`; every step is a step of `SegmentDelivery` |

All hold for any number of enqueueing threads, cancellations and crashes, with
spilling or without.  `FilesAccounted` is inductive with the types.  `FileInv` is
about behaviours in which none of the three races of section 4 has happened
(`FilesUndisturbed`, part of the two properties themselves).  `EachStored` says of
each payload, from the moment its number is taken, how much of its pair is on disk
and that it is its own audio; `Apart` that no file has two that answer for it, two
threads at work on one number included, and that the number the worker is unlinking
is not one the replay has yet to send.  `next_seq` looks at complete pairs, so a
number it takes for free may belong to a WAV alone, and a pair half removed is free
already: that is where `robbed` begins.  The refinement is about
jobs and not about their audio, and holds through the races as well: it needs that
no segment waits twice.  The hard moment is the replay after a crash, which queues
again what is there, so `WaitingInv` relates what the replay has still to send to
the queue and to what was recorded last.  `QueueDelivers` is the safety half of
`ImplementsDelivery`; the fairness stays with TLC.

### The hotkey

`PttCapture_proofs`, from the module's assumptions:

| Theorem | States |
|---|---|
| `PipelineInvariant`, `BusyNeedsWork` | `PipelineInv`, `NotBusyAtRest` |
| `UserInvariant` | `UserInv` |
| `OpenGateHasOwner`, `OneCaptureAtATime` | `OpenGateIsActive`, `OneCaptureInTurn` |
| `KeyUpClosesGate`, `HoldStateIsTrue` | `KeyUpClosesInTurn`, `HoldTellsCapture` |

Nothing is assumed of the user: edges come at any moment and any number of workers
run.  `NotBusyAtRest` holds whatever happened before: `BusyServed` says at each step
which job or release worker will recover the controller.  The others go through
`UserInv`.  `KeyHeld` says that in hold mode the controller believes in a take
only under its key, in turn or not.  `GateInv` and `HoldInv` say, as long as every
worker ran in turn, which of the workers under way is the one that matters and, for each of its steps, what the
gate, the toggle, the lock and the controller are (`Opening`, `Closing`, `Owned`).
The step that could break them is a release that closes the gate while a press has
yet to open it, or a take begun while a release has yet to reset the toggle: the
first sets `overtaken`, the second `crowded`, and the rest of the proof is that no
other pair of workers can meet that way.

### Audio capture

`AudioCapture_proofs` proves, from `DetectorAssumption` and `AudioAssumption`
(positive limits, natural bounds), whatever `Torn` and `Slow` are:

| Theorem | States |
|---|---|
| `CaptureTypeCorrect` | `Spec => []TypeOK`: the audio channel stays within its capacity, at most one flushed segment waits |
| `SegmentsFit` | `Spec => []SegmentFits`: the pre-buffer and the segment under way never outgrow their limits |

The two are proved together (`Inv`).  `SegmentFits` says of the detector in the
worker's hand that the segment is shorter than `MaxSegment`, or not longer than
a pre-buffer and a frame, which is what speech starts with, even if that is
above the maximum.  It is inductive because every path through
`process_frame` that appends to the segment while speaking compares its length
with the maximum in the same call, and every other path empties it or starts it
from the pre-buffer; `RingBuffer` bounds the latter.  The argument has two
levels: lemmas on each operator of the detector (`PushGood`, `FlushPttGood` and
those they rest on: a good detector and a frame give a good detector and typed
audio), then one step per action, which needs of the detector only those lemmas
(`NextPassGood`, `FreshWorkerGood`).  The capture buffer of a held take,
`capture`, has no limit in the code and none here.

Under `~Torn /\ ~Slow` it goes on to whose audio is where:

| Theorem | States |
|---|---|
| `TakeAudioInvariant` | `Spec => []AudioInv` |
| `SpokenInOrder` | `Spec => []SpokenOrder` |
| `TakesKeepTheirAudio` | `Spec => []OwnTake` |
| `HeldTakeInvariant` | `Spec => []HeldTakeInv` |
| `HeldTakesAreWhole` | `Spec => []HeldTakeWhole` |

and, whatever `Torn` and `Slow` are, to who hears of a take: `DeafOnlyAfterLoss`,
`Spec => []DeafAfterLoss`.  Restarts may fall between any two steps of a take in all
of them.

`ControlInv` settles who is where: an open gate belongs to the last take, a
request for a flush has one press or release behind it, an answer one release
that waits for it; a restart within a take leaves the release with a receiver
nobody sends on, and while the old worker is joined the callbacks are off
(`JoinInv`).  `OrderInv` lays all audio on one line: what the queue was
given, what the detector and the answer hold, the chunk in the worker's hand and
the channel are each in the order of speech and none is older than the one before,
and the part that belongs to the last take begins where the take begins.  The lemmas on
the detector say what each of its operators does to a sequence in order.  The proof
turned up the tap of section 4; the run has `PttMin = 1`, the theorems any, and the
two properties now except it.

`HeldTakeWhole` needs numbers beside the order.  `HeldInv` measures a held take by
`Reached`, the last chunk that has left the channel:

* `TakenInv`: from the press on, the pre-speech buffer and the segment are no longer
  than what was reached since the take began, plus what a tap no pass saw may have
  found (`Leftover`).  So only a take that is `Long`, one that fills a segment, is
  ever split; with `UnsplitInv`, that silence splits nothing in hold mode, a
  shorter one has all of its audio in the recording.  `EmptyInv` says how little the
  detector holds when no take is under way: less than `PttMin` frames, the most a
  flush that finds nothing leaves in the pre-speech buffer.
* `GoneInv`: what was spoken into the take and is neither on the channel nor recorded
  is at most `Losses` chunks: one from the moment the pass that had begun before the
  press reads a chunk, one from the moment the pass that had begun before the release
  drops one.  The bound never shrinks while the take goes on, has grown when one of the
  two is lost, and is two when the flush begins; hence `AnsweredInv` and `DoneInv`.
* A take of `PttMin + 2` chunks that has lost two of them has recorded `PttMin`, which
  is what a flush asks for (`LongEnough`); this is where `Served` gets its limit from.

The first attempt failed at the press: the inequality of `TakenInv` is false for a
take that no pass has seen, and TLC then showed such a take split below the maximum
with `PttMin = 2`.

### The composed dictation

`DictationPipeline_proofs`, from the queue's assumptions and those of the module:

| Theorem | States | Provided |
|---|---|---|
| `PipelineImplementsQueue` | `ImplementsQueue` | - |
| `PipelineInvariant`, `TypeCorrect` | `OwnInv`, `TypeOK` | - |
| `LateTextBounded`, `NewTakeRuns`, `RestIsCalm` | `AtMostOneLateText`, `FreshTakeRuns`, `IdleAtRest` | - |
| `TakeInvariant`, `KeyUpIsFinal`, `RestIsReady` | `TakeInv`, `KeyUpEndsCapture`, `ReadyAtRest` | `~Overlap` |

The first theorem is the refinement, step by step: every action of the composition
is one of the queue's or leaves it alone.  With it what `SegmentQueue_proofs` has
proved is used here by name, the exact count first of all.  `LateInv` is the
argument for at most one late text: only the worker types, it looks at the session
once more before each text, so only the job that had passed that look can be late.
`FreshInv` ties the cancel token to the session it served when it was cancelled, at
each of the steps a take opens in.  `BusyInv` says who
brings a busy controller back; the two theorems about takes need more: who opened
the microphone, and that a recovery never meets a take that opens
(`Overlap = FALSE`).

### Deferred and rewritten text

`PttPostprocess_proofs`, from `DeferAssumption`, for any number of windows, flush
tasks, segments, moves and failures:

| Theorem | States |
|---|---|
| `RewriteInvariant` | `Spec => []Base` |
| `ReadyAfterwards` | `Spec => []ReadyAtRest` |
| `NothingWaitsInTheField` | `Spec => []WaitsOnlyAway` |

and, provided the target can be brought forward (`RestoreFails = FALSE`, as in the
run):

| Theorem | States |
|---|---|
| `TextInvariant` | `Spec => [](Base /\ CalmInv)` |
| `TextInOrder` | `Spec => []OnceInOrder` |
| `TextInItsField` | `Spec => []InItsField` |
| `DeletesNothingElse` | `Spec => []DeletesOwnText` |
| `OneFailureLosesNothing` | `Spec => [](failures <= 1 => NothingLost)` |
| `NoTextLost` | `Spec => []NothingLost`, if `MaxFailures <= 1` |

`Base` has the types, the exact count of pending jobs, that a held key belongs to a
take, and `FinishInv`: the party that began a rewrite, and no other, waits at
`hold`, so the end of the rewrite moves that party on and nobody else.
`ReadyAtRest` does not except the races.  Its inductive form `ReadyInv` distinguishes
two ways out of a busy state: `Transcribing` and `Injecting` need a job, a flush or
a rewrite that will recover, since the end of a silent take only recovers from
`Listening` and `Processing`.  `WaitInv` says where the knowledge is that the user
is back: in the watch that has yet to look, in a flush about to start, or in one
that is typing the whole buffer; the races `glance` and `restart` are exactly the
steps that lose it, and `overlap` the one that would make the last case false.

The four properties about the text itself are for runs that are `Calm`: none of the
races that move text has happened (`glance` and `restart` only delay it).
`CalmIsQuiet` turns that into what a single step may not do, and `CalmInv` says what
is then true of every segment:

* `Line` is what the windows hold, counting for the session's field the text a
  rewrite has deleted and keeps in `finish.text`; `Coming` is what is still to be
  typed: what a flush has not read of the buffer, the job in the worker's hand, and
  the queue.
* `Orderly`: each line is increasing, no segment is in two, and all that comes is
  later than all that is there.  `AtHome`: a segment is in, or on its way to, the
  field its session was begun in.  `Accounted`: each segment heard is in a line, coming,
  or dropped.
* The first phase's record is the end of the field and of what waits for it
  (`EndsWith`), so that what a rewrite deletes is the take's own text; that no text
  comes between the claim and the end is `RewriteAlone`, and that whoever types has a
  field, and a flush the head of the buffer, is `TypingInField`.

All but `Accounted` hold however many calls fail.  The second failure of a rewrite
loses the text it deleted: the restoring call has failed too, and `finish.text` was
the only copy.  That is why `NothingLost` is for one failure, and `RewriteAlone` has
the conjunct that a text which is to be restored has cost a failure already.

### Voice files

`VoiceWatch_proofs` proves, from `SlotAssumption`, `QueueAssumption` and
`WatchAssumption`, for any files, tasks, tools and threads:

| Theorem | States |
|---|---|
| `VoiceInvariant` | `Spec => []VoiceInv`, the inductive invariant |
| `VoiceTypeCorrect` | `Spec => []TypeOK` |
| `FilesOneAtATime` | `Spec => []OneAtATime` |
| `FilesOnceQueued` | `Spec => []OnceQueued` |
| `NobodyIsForgotten` | `Spec => []NobodyForgotten` |
| `NoStatusIsStale` | `Spec => []NoStaleStatus` |
| `WatchedWhenOn` | `Spec => []WatchesWhenOn` |

`VoiceInv` is `TypeOK /\ SlotInv /\ TaskInv /\ LockInv /\ OnceQueued /\
NobodyForgotten /\ WatchInv /\ StatusInv`.  `SlotInv` ties the controller's flag
to who transcribes, with `StagesApart` for the tools; `TaskInv` ties `scheduled` to
the one task in its loop and that task's file to `active`; together they are
`OneAtATime`.  `OnceQueued` needs `LockInv`: between looking for a file in the
queue and putting it in, a thread has the mutex, and the file it looked for is
still not there.  `NobodyForgotten` needs `TaskInv` (a flag that is up has a task
behind it) and the bit `created` of a thread, which says that it has yet to
schedule.  `NoStaleStatus` speaks of rest only; its inductive form `StatusInv`
says at every moment which job, task or unlisting thread a status belongs to.
`WatchesWhenOn` speaks of an empty channel; `WatchInv` says of the last message
in it what the handle says.

### Models

`ModelIdle_proofs` proves, from `EngineAssumption` and `IdleAssumption`, for any
number of engines, whatever is local, with nothing that keeps reloads apart:

| Theorem | States |
|---|---|
| `EngineInvariant` | `Spec => []EngineInv`, the inductive invariant |
| `ReadyMeansAlive` | `Spec => []ReadyIffAlive` |
| `NobodyWaitsForNothing` | `Spec => []NobodyWaitsInVain` |
| `TranscriberInvariant` | `Spec => []SttInv` |
| `JobFailsOnlyUnderReload` | `Spec => []FailsOnlyUnderReload` |

`EngineInv` adds to the two properties `EngineTypeOK`; `HandleInv`, that who works
with an engine or drops one has one, so that it is held and no fresh one can take
its name; `MutexInv`, that over a step only who waits for a thread's end has the
mutex of its engine, so that `ReadyIffAlive`, which excepts engines with the mutex
taken, says something of all others; and `BoxInv`, that a shutdown nobody has read
is that of who has the mutex, and that an ended thread has an empty channel.
From these: a thread can read a shutdown only while the mutex is taken, so it
never ends behind the back of `ready`; and who waits either has the question in
the channel of a thread that is there, or was told when the channel was dropped.
The steps that only move handles are one lemma (`MovesOn`), those that touch an
engine one each.

`SttInv` adds to the types of the transcriber `ReloadInv` (as long as no two reloads
have met, whenever none is between making an instance and installing it the one in
the cell has a live token) and `JobInv` (a job that no reload has disturbed works
with the instance in the cell, and its weights are there when it takes the lock).

### What is only model-checked

* The liveness properties `StopCompletes`, `BusyEnds`,
  and the fairness half of `ImplementsDelivery`: out of the prover's reach.

## 6. Simplifications

* One abort or recovery at a time (`caller`), as the watch has one handle and
  the command is modal in the user interface.
* `finish_ptt_release` is never skipped for a lock that stays taken for a
  second; there is no clock in the models.
* Disk quota and memory are counted in segments, not in bytes.
* Transcription, text rules and injection are calls that succeed, fail, or find
  nothing; retries happen inside the call.
* In `SegmentQueue` `list_pending` and `total_bytes` read the directory in one step.
* In `AudioCapture` presses and releases come one after the other (their threads
  are `PttCapture`'s matter), and so do restarts; the device never fails, a restart
  always succeeds and is not the one `set_ptt_active` makes itself when it finds
  the stream or the worker gone; and the callbacks are paused by one party at a
  time.  `speech_active`, the
  levels and the channel `segment_tx` are left out: in push-to-talk nothing is
  sent on it while a take can be released, and in continuous capture nobody
  reads it.
* In `DictationPipeline` the text for a field that lost focus is put aside and
  forgotten (`Defer`); what becomes of it is `FocusDefer`'s matter.
* In `FocusDefer` an Enter typed during a flush and the duplicates of the first
  phase's accumulator are left out; a window stands for the field in it.
* In `VoiceQueue` a save of the history is one step (the code truncates first,
  and what cannot be parsed is read as empty), files have the name of their
  content (ids that are made of the time in milliseconds may collide in the
  code), and a file is not moved or deleted after its ingestion.
* In `ModelIdle` jobs that do not rewrite do not take the handle they take in the
  code, one task unloads the transcriber at a time, the forced unload reads
  `loaded` when it begins with the transcriber, and which models are local does
  not change.
* Settings do not change while a take or a job is under way.

## 7. What is left

In the order in which it would be worth doing:

1. A device that fails while it delivers, enabling and disabling, and nested
   pauses of the callbacks in `AudioCapture`.
2. An abstract specification of deferred injection (each text to its field, once,
   in order) for `PttPostprocess` to implement outside the races.
3. A history of voice files that can be truncated.

## 8. Not modelled

* *Retries* (`network/retry.rs`, `app/transcribe_audio.rs`): at most three attempts
  with a delay of 500 ms that doubles up to 4 s, inside one call; no state outlives
  it.
* *Settings, text rules, transcription engines*: data transformations on strings
  and numbers, and calls into native libraries and services; their control is
  straight-line.
* *Subtitles, diarization, separation, speech analysis*: numeric and textual
  algorithms on one file at a time; where they meet the rest, the slot they run in,
  is `ToolSlot`.
* *Desktop shell, user interface*: windows, trays, deep links and pages; they call
  the commands that are modelled and keep no state of their own that these depend
  on.
