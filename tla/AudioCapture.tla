---------------------------- MODULE AudioCapture ----------------------------
(***************************************************************************)
(* The path of the audio from the device to the segment queue              *)
(* (audio/pipeline.rs, the press and the release of lib.rs and             *)
(* hotkey/manager.rs, Restart of lib.rs, the abort of app/context.rs).     *)
(*                                                                         *)
(* The device callback puts chunks on a bounded channel.  The vad-worker   *)
(* thread loops over three steps: look at the gate, answer a flush or      *)
(* follow the gate, read a chunk.  Press and release run on other threads  *)
(* and share with it the gate, a one-place request channel and a           *)
(* one-place answer channel.  A release waits 500 ms for the answer.       *)
(* Presses and releases come one after the other here: how they interleave *)
(* is the matter of PttCapture.  A restart of the pipeline takes no lock    *)
(* they hold for long, and falls between any two of their steps.           *)
(***************************************************************************)
EXTENDS VadDetector, FiniteSets

CONSTANTS Modes,        \* \subseteq {"hold", "toggle", "continuous"}
          Capacity,     \* AUDIO_CHANNEL_CAPACITY, in chunks
          Torn,         \* a press or release may straddle a pass of the worker,
                        \* that of a worker being joined included
          Slow,         \* the worker may need more than PTT_FLUSH_WAIT
          MaxChunks,    \* bound: chunks the device delivers
          MaxTakes,     \* bound: presses
          MaxRestarts   \* bound: restarts of the pipeline

ASSUME AudioAssumption ==
  /\ Modes \subseteq {"hold", "toggle", "continuous"}
  /\ {Torn, Slow} \subseteq BOOLEAN
  /\ {Capacity, MaxChunks, MaxTakes, MaxRestarts} \subseteq Nat

VARIABLES
  mode,       \* CaptureMode, and ptt_hold for push-to-talk
  mic,        \* chunks the device has delivered
  channel,    \* audio_rx
  gate,       \* ptt_gate
  active,     \* ptt_active
  splits,     \* ptt_vad_segments_on_silence
  request,    \* ptt_flush_req: a request is waiting
  answer,     \* ptt_flush: at most one flushed segment
  receiver,   \* of the answers: "here", in ptt_flush_rx; "lent" to a release;
              \* "lost"; "stale" if ptt_flush_rx is that of a stopped pipeline
  callbacks,  \* audio_callbacks_enabled
  worker,     \* the vad-worker thread and its detector
  joining,    \* the last segment of a stopped worker, until it is joined
  user,       \* the press or release under way
  restarts,
  takes,      \* history: what each take may contain, and how it ended
  got         \* history: the segments given to the queue, with their take

gateVars == <<gate, active, splits>>
flushVars == <<request, answer, receiver>>
startVars == <<mode, restarts, joining>>
vars == <<mode, mic, channel, gate, active, splits, request, answer, receiver,
          callbacks, worker, joining, user, restarts, takes, got>>

Ptt == mode # "continuous"
ChunksOf(audio) == {audio[i].n : i \in 1 .. Len(audio)}

(* A release waits on the receiver of the running pipeline, on that of one  *)
(* that has been stopped, or on none.                                       *)
Waits == {"wait", "orphan", "unheard"}
UserSteps == {"rest", "opened", "resumed", "held", "paused", "closed", "done"} \cup Waits

(* A take may contain what was on the channel when it began; seen says      *)
(* whether a pass of the worker found its gate open.                        *)
NewTake == [from |-> IF channel = <<>> THEN mic ELSE channel[1].n - 1,
            seen |-> ~Ptt, spoken |-> {}, ended |-> 0, outcome |-> "open"]
EndTake(outcome) ==
  takes' = IF takes[Len(takes)].outcome = "open"
           THEN [takes EXCEPT ![Len(takes)].outcome = outcome] ELSE takes

With(audio) == Append(got, [take |-> Len(takes), chunks |-> ChunksOf(audio)])
Give(audio) == got' = With(audio)

-----------------------------------------------------------------------------
(* The device.                                                             *)

(* Variant for the checks: an unbounded channel. *)
DeviceCallbackUnbounded ==
  /\ mic < MaxChunks
  /\ mic' = mic + 1
  /\ \E voice \in BOOLEAN :
       channel' = Append(channel, [n |-> mic', voice |-> voice])
  /\ UNCHANGED <<startVars, gateVars, flushVars, callbacks, worker, user, takes, got>>

(* A chunk is dropped when the worker is backlogged.                        *)
DeviceCallback ==
  /\ mic < MaxChunks
  /\ mic' = mic + 1
  /\ \E voice \in BOOLEAN :
       LET chunk == [n |-> mic', voice |-> voice]
       IN IF Len(channel) < Capacity
          THEN /\ channel' = Append(channel, chunk)
               /\ takes' = IF Ptt /\ active
                           THEN [takes EXCEPT ![Len(takes)].spoken = @ \cup {mic'}]
                           ELSE takes
          ELSE UNCHANGED <<channel, takes>>
  /\ UNCHANGED <<startVars, gateVars, flushVars, callbacks, worker, user, got>>

-----------------------------------------------------------------------------
(* The vad-worker.  `was` is gate_was_active, `now` and `split` are what    *)
(* the pass read of the gate and of ptt_vad_segments_on_silence.            *)

FreshWorker(g) ==
  [pc |-> "look", det |-> [NewDetector EXCEPT !.pttRecording = Ptt /\ g],
   was |-> g, now |-> FALSE, split |-> FALSE]

NextPass(det, was) ==
  worker' = [pc |-> "look", det |-> det, was |-> was,
             now |-> FALSE, split |-> FALSE]

(* Between the two halves of a press or a release, unless Torn, the worker  *)
(* does not begin a pass.                                                   *)
Look ==
  /\ worker.pc = "look"
  /\ Torn \/ user \notin {"opened", "resumed", "closed"}
  /\ worker' = [worker EXCEPT
                  !.pc = "decide", !.now = gate, !.split = splits,
                  !.det.endOnSilence = ~Ptt \/ (gate /\ splits)]
  /\ UNCHANGED <<startVars, mic, channel, gateVars, flushVars, callbacks, user, takes, got>>

MustFlush == request \/ (Ptt /\ worker.was /\ ~worker.now)

BeginFlush ==
  /\ worker.pc = "decide" /\ MustFlush
  /\ worker' = [worker EXCEPT !.pc = "flush", !.det.pttRecording = TRUE]
  /\ request' = FALSE
  /\ UNCHANGED <<startVars, mic, channel, gateVars, answer, receiver, callbacks, user, takes, got>>

(* All that waits on the channel is recorded first; the events it raises    *)
(* are not looked at.                                                       *)
DrainChunk ==
  /\ worker.pc = "flush" /\ channel # <<>>
  /\ channel' = Tail(channel)
  /\ worker' = [worker EXCEPT !.det = Push(worker.det, Head(channel)).det]
  /\ UNCHANGED <<startVars, mic, gateVars, flushVars, callbacks, user, takes, got>>

(* The answer is dropped if an older one was not collected, or nobody can.  *)
Flush ==
  LET out == FlushPtt(worker.det)
  IN /\ NextPass([out.det EXCEPT !.pttRecording = FALSE], worker.now)
     /\ answer' = IF out.event = "ended" /\ answer = <<>> /\ receiver \in {"here", "lent"}
                  THEN <<out.audio>> ELSE answer
     /\ UNCHANGED <<startVars, mic, channel, gateVars, request, receiver, callbacks,
                    user, takes, got>>

(* Variant for the checks: what waits on the channel is left there. *)
FlushWithoutDrain == worker.pc = "flush" /\ Flush

FlushTake == worker.pc = "flush" /\ channel = <<>> /\ Flush

Opens == Ptt /\ worker.now /\ ~worker.was

FollowGate ==
  /\ worker.pc = "decide" /\ ~MustFlush
  /\ LET det == IF Opens THEN Reset(worker.det) ELSE worker.det
     IN worker' = [worker EXCEPT
                     !.pc = "read", !.was = IF Ptt THEN worker.now ELSE worker.was,
                     !.det = [det EXCEPT !.pttRecording = Ptt /\ worker.now]]
  /\ takes' = IF Opens THEN [takes EXCEPT ![Len(takes)].seen = TRUE] ELSE takes
  /\ UNCHANGED <<startVars, mic, channel, gateVars, flushVars, callbacks, user, got>>

NothingToRead ==
  /\ worker.pc = "read" /\ channel = <<>>
  /\ NextPass(worker.det, worker.was)
  /\ UNCHANGED <<startVars, mic, channel, gateVars, flushVars, callbacks, user, takes, got>>

(* The gate closed since the pass began: the chunk in hand is dropped.      *)
DropChunk ==
  /\ worker.pc = "read" /\ channel # <<>> /\ Ptt /\ ~gate
  /\ channel' = Tail(channel)
  /\ NextPass(worker.det, worker.was)
  /\ UNCHANGED <<startVars, mic, gateVars, flushVars, callbacks, user, takes, got>>

(* A segment that ends in the middle of a take is handed on only if the     *)
(* pass saw the gate open with splitting on.  on_speech_ended drops it if   *)
(* callbacks are paused, and for the reasons a release may be refused.      *)
Handed == (Ptt => worker.now /\ worker.split) /\ callbacks

PushChunk ==
  /\ worker.pc = "read" /\ channel # <<>> /\ (Ptt => gate)
  /\ channel' = Tail(channel)
  /\ LET out == Push(worker.det, Head(channel))
     IN /\ NextPass(out.det, worker.was)
        /\ \/ out.event = "ended" /\ Handed /\ Give(out.audio)
           \/ UNCHANGED got
  /\ UNCHANGED <<startVars, mic, gateVars, flushVars, callbacks, user, takes>>

Worker ==
  \/ Look \/ BeginFlush \/ DrainChunk \/ FlushTake
  \/ FollowGate \/ NothingToRead \/ DropChunk \/ PushChunk

-----------------------------------------------------------------------------
(* The worker has seen the gate closed and has nothing to flush.            *)
Closed == ~request /\ ~worker.was /\ worker.pc \in {"look", "read"}

(* A press: apply_ptt_active(true).                                         *)

OpenGate ==
  /\ user = "rest" /\ Ptt /\ Len(takes) < MaxTakes
  /\ Torn \/ Closed
  /\ callbacks' = FALSE
  /\ active' = TRUE /\ gate' = TRUE /\ splits' = TRUE
  /\ takes' = Append(takes, NewTake)
  /\ user' = "opened"
  /\ UNCHANGED <<startVars, mic, channel, flushVars, worker, got>>

ResumeCallbacks ==
  /\ user = "opened"
  /\ Torn \/ joining = <<>>
  /\ callbacks' = TRUE
  /\ user' = "resumed"
  /\ UNCHANGED <<startVars, mic, channel, gateVars, flushVars, worker, takes, got>>

(* Silence splits the take only in toggle mode, and only if the controller  *)
(* was not busy at this moment.                                             *)
ChooseSplitting ==
  /\ user = "resumed"
  /\ splits' \in {FALSE, mode = "toggle"}
  /\ user' = "held"
  /\ UNCHANGED <<startVars, mic, channel, gate, active, flushVars, callbacks, worker, takes, got>>

-----------------------------------------------------------------------------
(* A release: spawn_ptt_release, begin_ptt_release, wait_for_ptt_flush,     *)
(* complete_ptt_release.                                                    *)

PauseCallbacks ==
  /\ user = "held"
  /\ callbacks' = FALSE
  /\ user' = "paused"
  /\ UNCHANGED <<startVars, mic, channel, gateVars, flushVars, worker, takes, got>>

(* begin_ptt_release takes whatever receiver there is.                      *)
Borrow ==
  /\ receiver' = IF receiver = "here" THEN "lent" ELSE "lost"
  /\ user' = CASE receiver = "here"  -> "wait"
               [] receiver = "stale" -> "orphan"
               [] OTHER              -> "unheard"

(* A take whose gate a restart has closed asks for nothing.                 *)
CloseGate ==
  /\ user = "paused"
  /\ Torn \/ worker.pc # "decide"
  /\ active' = FALSE /\ gate' = FALSE /\ splits' = FALSE
  /\ IF active THEN user' = "closed" /\ UNCHANGED receiver ELSE Borrow
  /\ UNCHANGED <<startVars, mic, channel, request, answer, callbacks, worker, takes, got>>

RequestFlush ==
  /\ user = "closed"
  /\ request' = TRUE
  /\ Borrow
  /\ UNCHANGED <<startVars, mic, channel, gateVars, answer, callbacks, worker, takes, got>>

(* restore_ptt_flush_rx puts back what the release waited on, whatever is   *)
(* there by now.                                                            *)
Restore == receiver' = IF user = "wait" THEN "here" ELSE "stale"

(* The flushed segment is enqueued, unless it is digital silence or it is   *)
(* refused: the controller is busy, the key is missing, the queue is full.  *)
ReceiveAnswer ==
  /\ user \in {"wait", "orphan"} /\ answer # <<>>
  /\ Restore /\ answer' = <<>>
  /\ \/ Give(answer[1]) /\ EndTake("queued")
     \/ /\ \A i \in 1 .. Len(answer[1]) : ~answer[1][i].voice
        /\ EndTake("silent") /\ UNCHANGED got
     \/ EndTake("refused") /\ UNCHANGED got
  /\ user' = "done"
  /\ UNCHANGED <<startVars, mic, channel, gateVars, request, callbacks, worker>>

(* Variant for the checks: a release that hears nothing keeps the receiver. *)
TimeoutKeepsReceiver ==
  /\ user \in {"wait", "orphan"} /\ answer = <<>>
  /\ user = "wait" => Slow \/ Closed
  /\ receiver' = "lost"
  /\ EndTake(IF user = "wait" THEN "empty" ELSE "deaf")
  /\ user' = "done"
  /\ UNCHANGED <<startVars, mic, channel, gateVars, request, answer, callbacks, worker, got>>

(* Nobody sends on the channel of a stopped pipeline any more.              *)
Timeout ==
  /\ user \in {"wait", "orphan"} /\ answer = <<>>
  /\ user = "wait" => Slow \/ Closed
  /\ Restore
  /\ EndTake(IF user = "wait" THEN "empty" ELSE "deaf")
  /\ user' = "done"
  /\ UNCHANGED <<startVars, mic, channel, gateVars, request, answer, callbacks, worker, got>>

NoReceiver ==
  /\ user = "unheard"
  /\ EndTake("deaf")
  /\ user' = "done"
  /\ UNCHANGED <<startVars, mic, channel, gateVars, flushVars, callbacks, worker, got>>

ReleaseDone ==
  /\ user = "done"
  /\ Torn \/ joining = <<>>
  /\ callbacks' = TRUE
  /\ takes' = [takes EXCEPT ![Len(takes)].ended = mic]
  /\ user' = "rest"
  /\ UNCHANGED <<startVars, mic, channel, gateVars, flushVars, worker, got>>

-----------------------------------------------------------------------------
(* Variant for the checks: the receiver is left to the next release. *)
AbortKeepsReceiver ==
  /\ user = "held"
  /\ Torn \/ worker.pc # "decide"
  /\ active' = FALSE /\ gate' = FALSE /\ splits' = FALSE
  /\ request' = (request \/ active)
  /\ takes' = [takes EXCEPT ![Len(takes)].outcome = "aborted",
                            ![Len(takes)].ended = mic]
  /\ user' = "rest"
  /\ UNCHANGED <<startVars, mic, channel, answer, receiver, callbacks, worker, got>>

(* abort_dictation_on_focus_loss takes the flush receiver and drops it.     *)
AbortTake ==
  /\ user = "held"
  /\ Torn \/ worker.pc # "decide"
  /\ active' = FALSE /\ gate' = FALSE /\ splits' = FALSE
  /\ request' = (request \/ active)
  /\ receiver' = "lost" /\ answer' = <<>>
  /\ takes' = [takes EXCEPT ![Len(takes)].outcome = "aborted",
                            ![Len(takes)].ended = mic]
  /\ user' = "rest"
  /\ UNCHANGED <<startVars, mic, channel, callbacks, worker, got>>

(* The worker is in a pass that will flush.  Such a pass reads nothing that *)
(* a stop or a start writes, and its answer goes to a channel that a        *)
(* waiting release keeps: a stop in its midst is one right after it.        *)
Flushing == worker.pc = "flush" \/ (worker.pc = "decide" /\ MustFlush)

(* stop: whatever take was open is forgotten, with the flush it might want; *)
(* the answer only if no release holds the receiver.                        *)
StopPipeline ==
  /\ active' = FALSE /\ splits' = FALSE
  /\ request' = FALSE
  /\ answer' = IF user \in {"wait", "orphan"} THEN answer ELSE <<>>

(* start: new channels, a new worker, and a gate that only push-to-talk     *)
(* leaves closed.                                                           *)
StartPipeline ==
  /\ gate' = ~Ptt
  /\ channel' = <<>> /\ receiver' = "here"
  /\ worker' = FreshWorker(~Ptt)

(* Restart, stop and start under the lock of the audio.  A release that     *)
(* waits keeps the receiver it has.  The stopped worker ends with flush.    *)
RestartPipeline ==
  /\ user # "closed" /\ joining = <<>> /\ restarts < MaxRestarts
  /\ ~Flushing
  /\ restarts' = restarts + 1
  /\ callbacks' = FALSE
  /\ StopPipeline /\ StartPipeline
  /\ joining' = <<IF worker.det.speaking THEN worker.det.segment ELSE <<>>>>
  /\ IF user # "rest" THEN EndTake("cut") ELSE UNCHANGED takes
  /\ user' = IF user = "wait" THEN "orphan" ELSE user
  /\ UNCHANGED <<mode, mic, got>>

(* The old worker is joined and the callbacks are turned on.  Its last      *)
(* segment goes nowhere, unless a press or a release was quicker to do so.  *)
RestartDone ==
  /\ joining # <<>>
  /\ joining' = <<>>
  /\ callbacks' = TRUE
  /\ got' \in {got} \cup (IF callbacks /\ joining[1] # <<>>
                         THEN {With(joining[1])} ELSE {})
  /\ UNCHANGED <<mode, restarts, mic, channel, gateVars, flushVars, worker, user, takes>>

User ==
  \/ OpenGate \/ ResumeCallbacks \/ ChooseSplitting
  \/ PauseCallbacks \/ CloseGate \/ RequestFlush
  \/ ReceiveAnswer \/ Timeout \/ NoReceiver \/ ReleaseDone
  \/ AbortTake \/ RestartPipeline \/ RestartDone

-----------------------------------------------------------------------------
Init ==
  /\ mode \in Modes
  /\ mic = 0 /\ channel = <<>>
  /\ gate = ~Ptt /\ active = FALSE /\ splits = FALSE
  /\ request = FALSE /\ answer = <<>> /\ receiver = "here"
  /\ callbacks = TRUE
  /\ worker = FreshWorker(~Ptt)
  /\ joining = <<>> /\ user = "rest" /\ restarts = 0
  /\ takes = IF Ptt THEN <<>> ELSE <<NewTake>>
  /\ got = <<>>

Next == DeviceCallback \/ Worker \/ User

Spec == Init /\ [][Next]_vars

-----------------------------------------------------------------------------
(* Properties.                                                             *)

Chunks == [n : 1 .. MaxChunks, voice : BOOLEAN]
WorkerType ==
  [pc : {"look", "decide", "flush", "read"}, det : Detector(Chunks),
   was : BOOLEAN, now : BOOLEAN, split : BOOLEAN]

(* Types; in particular the channel never holds more than its capacity, and *)
(* one answer at most waits for a release.                                  *)
TypeOK ==
  /\ mode \in Modes /\ mic \in 0 .. MaxChunks
  /\ channel \in Seq(Chunks) /\ Len(channel) <= Capacity
  /\ gate \in BOOLEAN /\ active \in BOOLEAN /\ splits \in BOOLEAN
  /\ request \in BOOLEAN /\ callbacks \in BOOLEAN
  /\ answer = <<>> \/ (Len(answer) = 1 /\ answer[1] \in Seq(Chunks))
  /\ receiver \in {"here", "lent", "lost", "stale"}
  /\ joining = <<>> \/ (Len(joining) = 1 /\ joining[1] \in Seq(Chunks))
  /\ user \in UserSteps
  /\ worker \in WorkerType

(* What is typed is typed once and in the order it was spoken: every chunk  *)
(* of a segment was spoken after every chunk of the segments given to the   *)
(* queue before it, whether they came from silence, from the maximum        *)
(* length or from the flush of a release.  A tap that falls between two     *)
(* passes of the worker is excepted: the detector is not reset for it, and  *)
(* may bring up to PttMin of the take before once more.                     *)
SpokenOrder ==
  \A i, j \in 1 .. Len(got) : i < j /\ takes[got[j].take].seen =>
    \A x \in got[i].chunks, y \in got[j].chunks : x < y

(* A take gets no audio from before it, save what was on the channel when   *)
(* it began, and none from after it: the answer a release collects and the  *)
(* detector it was cut from never carry over from another take, but for     *)
(* such a tap.                                                              *)
OwnTake ==
  \A i \in 1 .. Len(got) :
    LET take == takes[got[i].take]
    IN \A x \in got[i].chunks :
         /\ take.seen => x > take.from
         /\ take.ended # 0 => x <= take.ended

(* The chunks of take k that reached the channel and are in none of the     *)
(* segments given to the queue for it.                                      *)
Missing(k) ==
  takes[k].spoken \ UNION {got[i].chunks :
                             i \in {j \in 1 .. Len(got) : got[j].take = k}}

(* A release that was served, of a take long enough to be worth flushing.   *)
Served(k) ==
  /\ takes[k].ended # 0
  /\ takes[k].outcome \in {"queued", "empty"}
  /\ Cardinality(takes[k].spoken) >= PttMin + 2

(* It may lose the chunk the worker held while the gate opened, and the one *)
(* it held while the gate closed, but no more.                              *)
Whole(k) == Cardinality(Missing(k)) <= 2

(* What a tap that falls between two passes may find in the pre-speech      *)
(* buffer, which is not reset for it.                                       *)
Left(k) == IF takes[k].seen THEN 0 ELSE PttMin - 1

(* In hold mode the release of a take shorter than the maximum segment      *)
(* gives all of it to the queue, pauses included.  What such a tap finds    *)
(* fills the segment as well.                                               *)
HeldTakeWhole ==
  mode = "hold" =>
    \A k \in 1 .. Len(takes) :
      Served(k) /\ takes[k].ended - takes[k].from + 1 + Left(k) < MaxSegment => Whole(k)

(* The same with no limit on the length: push-to-talk has no segmentation   *)
(* in hold mode, says the user interface.                                   *)
LongHoldWhole ==
  mode = "hold" => \A k \in 1 .. Len(takes) : Served(k) => Whole(k)

(* No segment outgrows its limit, whatever mixture of modes, silence and    *)
(* flushes the worker goes through: the memory of continuous capture is     *)
(* bounded.                                                                 *)
SegmentFits == Fits(worker.det)

(* Every release hears of its take: whoever takes the flush receiver brings *)
(* it back, says begin_ptt_release.                                         *)
ReleaseHeard == \A k \in 1 .. Len(takes) : takes[k].outcome # "deaf"

(* It does so but after an abort, which drops the receiver, and after a     *)
(* restart within a take, whose release may put the receiver of the stopped *)
(* pipeline over that of the new one.  Nothing else makes a release deaf.   *)
DeafAfterLoss ==
  \A k \in 1 .. Len(takes) : takes[k].outcome = "deaf" =>
    \E j \in 1 .. k - 1 : takes[j].outcome \in {"aborted", "cut"}

=============================================================================
