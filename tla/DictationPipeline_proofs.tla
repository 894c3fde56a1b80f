---------------------- MODULE DictationPipeline_proofs ----------------------
(***************************************************************************)
(* Theorems about DictationPipeline, for every value of the limits and of  *)
(* the settings.  What is proved of SegmentQueue is used through QP: the   *)
(* queue inside the composition is shown to be that queue first.           *)
(***************************************************************************)
EXTENDS DictationPipeline, TLAPS

QP == INSTANCE SegmentFiles_proofs

-----------------------------------------------------------------------------
(* The inductive invariants.                                               *)

(* The states the pipeline ever shows. *)
Shown == {"Ready", "Listening", "Transcribing", "Injecting", "Error",
          "NetworkUnavailable"}

OwnTypes ==
  /\ mode \in Modes
  /\ state \in Shown /\ pttActive \in BOOLEAN
  /\ capture \in Opening \cup {"closed", "listening", "releasing", "flushing",
                              "sending"}
  /\ hearing \in BOOLEAN /\ gate \in BOOLEAN /\ flushQueued \in BOOLEAN /\ watch \in BOOLEAN
  /\ session \in Sessions /\ aborted \in Sessions
  /\ sentIn \in [Q!Segments -> Sessions]
  /\ token \in Nat /\ cancelled \subseteq Tokens /\ jobToken \in Tokens
  /\ cancelledIn \in [Tokens -> Sessions]
  /\ stage \in {"none", "begin", "stt", "heard", "text", "inject", "typing",
                "typed", "failed"}
  /\ caller \in {"none", "abort", "cancelled", "aborting", "recover", "renewed",
                 "restart"}
  /\ recoveries \in 0 .. MaxRecoveries /\ lateTyped \in Nat

(* A take and a recovery bring a new token each; the recovery under way has *)
(* not replaced it yet.                                                    *)
TokenBound ==
  IF caller = "recover" THEN token < TakeNumber + recoveries
                        ELSE token <= TakeNumber + recoveries

(* A take is opened by push-to-talk alone, and has its session when it has  *)
(* begun.                                                                  *)
OpeningInv ==
  /\ capture \in {"planned", "renewed"} => PushToTalk /\ session < MaxSessions
  /\ capture \in {"begun", "watched"} \/ (PushToTalk /\ gate) => session # 0

(* The stages of process_one_segment are those of the queue's worker. *)
StageInv ==
  /\ stage = "begin" => worker.pc \in {"load", "work"}
  /\ stage \in {"stt", "heard", "text", "inject", "typing"} => worker.pc = "work"
  /\ stage = "typed" => worker.pc = "typed"

(* A job of an aborted session that has passed the last check. *)
LateComing == stage = "typing" /\ IsAborted(sentIn[Job])

LateInv == lateTyped = 0 \/ (lateTyped = 1 /\ ~LateComing)

(* Sessions and tokens only grow. *)
TokenInv ==
  /\ \A s \in Q!Segments : sentIn[s] <= session
  /\ \A k \in cancelled : k <= token
  /\ jobToken <= token

(* With push-to-talk a cancelled token was cancelled for the take it served. *)
FreshInv ==
  PushToTalk =>
    /\ token \in cancelled => cancelledIn[token] = TakeNumber
    /\ stage = "begin" /\ jobToken \in cancelled
         => sentIn[Job] <= cancelledIn[jobToken]

(* Somebody is going to recover the controller. *)
Work == pending > 0 \/ worker.pc = "recover"

BusyInv == state \notin {"Ready", "Listening"} => Work

TakeInv ==
  PushToTalk =>
    /\ pttActive => capture \in Opening \cup {"listening"}
    /\ capture \in Opening => pttActive /\ caller = "none"
    /\ gate => pttActive \/ capture = "releasing" \/ caller \in Recovering
    /\ state = "Listening" =>
         \/ Work \/ pttActive \/ capture = "releasing" \/ caller \in Recovering
         \/ capture \in {"flushing", "sending"} /\ ~flushQueued

-----------------------------------------------------------------------------
(* The queue inside the pipeline is SegmentQueue.                          *)

LEMMA QueueLimits == QP!QueueAssumption
BY QueueParameters
   DEF Q!QueueAssumption, QP!QueueAssumption, Q!IsFiniteSet, QP!IsFiniteSet

(* Q and QP are the same queue under two names. *)
LEMMA SameNext == Q!Next => QP!Next
BY DEF Q!Spill, Q!Prepare, Q!SendJob, Q!Replay, Q!ThreadStep, Q!WorkerStep,
   Q!Next, Q!Record, Q!PrepareInMemory, Q!PrepareOnDisk, Q!RefuseDiskFull,
   Q!Hold, Q!TakeNumber, Q!WriteWav, Q!WriteJson, Q!SpillFails, Q!Admit, Q!RefuseQueueFull,
   Q!Count, Q!Send, Q!ReplayNext, Q!ReplayDone, Q!Receive, Q!Load, Q!Discard,
   Q!Insert, Q!Release, Q!Fail, Q!Settle, Q!Recover, Q!ClearSpill, Q!Crash,
   Q!enqueueVars, Q!workerVars, Q!diskVars, Q!bounds, Q!Threads, Q!Segments,
   Q!MaybeSegment, Q!Slots, Q!ListPending, Q!FilesOnDisk, Q!IsNextSeq, Q!At,
   Q!RemoveWav, Q!RemoveJson, Q!Waits, Q!ClearBegins, Q!ClearFile, Q!ClearEnds,
   Q!Idle, Q!AtRest, Q!GoTo, Q!MustSpill, Q!AfterSend,
   Q!GiveBack, Q!Cardinality, QP!Spill, QP!Prepare, QP!SendJob, QP!Replay,
   QP!ThreadStep, QP!WorkerStep, QP!Next, QP!Record, QP!PrepareInMemory,
   QP!PrepareOnDisk, QP!RefuseDiskFull, QP!Hold, QP!TakeNumber, QP!WriteWav, QP!WriteJson,
   QP!SpillFails, QP!Admit, QP!RefuseQueueFull, QP!Count, QP!Send,
   QP!ReplayNext, QP!ReplayDone, QP!Receive, QP!Load, QP!Discard, QP!Insert,
   QP!Release, QP!Fail, QP!Settle, QP!Recover, QP!ClearSpill, QP!Crash,
   QP!enqueueVars, QP!workerVars, QP!diskVars, QP!bounds, QP!Threads,
   QP!Segments, QP!MaybeSegment, QP!Slots, QP!ListPending, QP!FilesOnDisk,
   QP!IsNextSeq, QP!At, QP!RemoveWav, QP!RemoveJson, QP!Waits, QP!ClearBegins, QP!ClearFile,
   QP!ClearEnds, QP!Idle, QP!AtRest, QP!GoTo, QP!MustSpill,
   QP!AfterSend, QP!GiveBack, QP!Cardinality

LEMMA SameSpec == Q!Spec => QP!Spec
<1>1. Q!Init => QP!Init
  BY DEF Q!Init, QP!Init, Q!Idle, QP!Idle, Q!AtRest, QP!AtRest, Q!Threads,
     QP!Threads, Q!Slots, QP!Slots
<1>2. Q!vars = QP!vars
  BY DEF Q!vars, QP!vars, Q!enqueueVars, QP!enqueueVars, Q!workerVars,
     QP!workerVars, Q!diskVars, QP!diskVars, Q!bounds, QP!bounds
<1>3. [Q!Next]_(Q!vars) => [QP!Next]_(QP!vars)
  <2>1. UNCHANGED Q!vars => UNCHANGED QP!vars
    BY DEF Q!vars, QP!vars, Q!enqueueVars, QP!enqueueVars, Q!workerVars,
       QP!workerVars, Q!diskVars, QP!diskVars, Q!bounds, QP!bounds
  <2> QED
    BY <2>1, SameNext
<1> QED
  BY <1>1, <1>3, PTL DEF Q!Spec, QP!Spec

LEMMA QueueUntouched == UNCHANGED queueVars => UNCHANGED Q!vars
BY DEF queueVars, Q!vars, Q!enqueueVars, Q!workerVars, Q!diskVars, Q!bounds

LEMMA TakeQueueStep == Take => [Q!Next]_(Q!vars)
BY QueueUntouched
DEF Take, PressKey, RenewToken, BeginTake, WatchTake, OpenGate, ShowListening, LetKeyGo,
    CloseGate, FlushSegment, FlushNothing, FinishTake, Q!Next, Producers

LEMMA SpeechQueueStep ==
  ASSUME NEW p \in Producers, Speech \/ Enqueue(p)
  PROVE  [Q!Next]_(Q!vars)
<1>1. p \in Q!Threads
  BY DEF Q!Threads
<1> QED
  BY <1>1, QueueUntouched
  DEF Speech, SpeechStarted, WatchSpeech, SpeechEnded, Enqueue, Producers, Q!Next, Q!ThreadStep, Q!SendJob

LEMMA WorkerQueueStep == WorkerStep => [Q!Next]_(Q!vars)
BY QueueUntouched
DEF WorkerStep, TakeJob, SkipAtStart, StartJob, SkipInStt, SttFails, Transcribed,
    SkipHeard, KeepHeard, NoText, TextFails, TextReady, SkipAtInjection, Commit,
    Defer, TypeText, InjectionFails, FinishJob, RecoverController, Dropped, Fails,
    Onward, Q!Next, Q!WorkerStep

LEMMA CallOffQueueStep == CallOff => [Q!Next]_(Q!vars)
BY QueueUntouched
DEF CallOff, LoseFocus, StealHandle, ClearFile, ClearEnds, AbortCancels, AbortStopsWatch,
    AbortEndsTake, RecoverCancels, RecoverRenews, RecoverState, RestartCapture,
    CancelPending, Q!Next, Q!ClearSpill

LEMMA QueueStep == [Next]_vars => [Q!Next]_(Q!vars)
<1>1. CASE UNCHANGED vars
  BY <1>1, QueueUntouched DEF vars
<1> QED
  BY <1>1, TakeQueueStep, SpeechQueueStep, WorkerQueueStep, CallOffQueueStep
  DEF Next, Producers

(* Sessions, tokens and the controller only watch the queue: whatever the  *)
(* pipeline does, its queue makes steps of SegmentQueue, and what is       *)
(* proved of every such queue holds of it (process_one_segment,            *)
(* enqueue_segment, cancel_pending).                                       *)
THEOREM PipelineImplementsQueue == Spec => ImplementsQueue
<1>1. Init => Q!Init
  BY DEF Init
<1>2. [Next]_vars => [Q!Next]_(Q!vars)
  BY QueueStep
<1> QED
  BY <1>1, <1>2, PTL DEF Spec, ImplementsQueue, Q!Spec

(* No two threads or jobs have the same segment, and nothing is replayed.  *)
QueueInv == QP!WaitingInv /\ thread[Boot].pc = "idle"

LEMMA QueueIsApart == Spec => []QueueInv
<1>1. QP!Spec => []QP!WaitingInv
  BY QP!WaitingInvariant, QueueLimits
<1>2. QP!Spec => [](thread[Boot].pc = "idle")
  BY QP!BootRests, QueueLimits DEF MaxCrashes
<1>3. QP!WaitingInv /\ thread[Boot].pc = "idle" => QueueInv
  BY DEF QueueInv
<1> QED
  BY <1>1, <1>2, <1>3, PipelineImplementsQueue, SameSpec, PTL DEF ImplementsQueue

-----------------------------------------------------------------------------
(* The queue in plain terms.                                               *)

(* What the rest of the pipeline has to know of the queue. *)
Queued ==
  /\ pending \in Nat /\ worker \in Q!WorkerStates
  /\ Q!WorkerBusy => pending >= 1
  /\ worker.pc \in {"load", "work"} => Job \in Q!Segments
  /\ \A p \in Producers : thread[p].pc = "send" =>
       /\ pending >= 1 /\ thread[p].seg \in Q!Segments
       /\ worker.pc \in {"load", "work"} => thread[p].seg # Job
  /\ (\A p \in Producers : thread[p].pc = "idle") /\ queue = <<>> /\ worker.pc = "recv"
       => pending = 0

(* A thread about to send is counted, and one that is not is not. *)
LEMMA SendersCounted ==
  ASSUME QueueInv
  PROVE  /\ \A p \in Producers : thread[p].pc = "send" => pending >= 1
         /\ (\A p \in Producers : thread[p].pc = "idle") /\ queue = <<>>
              /\ worker.pc = "recv" => pending = 0
<1>1. /\ QP!TypeOK /\ QP!PendingExact /\ thread[Boot].pc = "idle"
  BY DEF QueueInv, QP!WaitingInv, QP!CountInv
<1>2. QP!IsFiniteSet(QP!At("send")) /\ QP!Cardinality(QP!At("send")) \in Nat
  BY QP!AtFinite, QueueLimits
<1>3. ASSUME NEW p \in Producers, thread[p].pc = "send"
      PROVE  pending >= 1
  <2>1. p \in QP!At("send")
    BY <1>3 DEF QP!At, QP!Threads
  <2>2. QP!Cardinality(QP!At("send")) # 0
    BY <1>2, <2>1, QP!FS_EmptySet, QueueLimits
  <2> QED
    BY <1>1, <1>2, <2>2 DEF QP!TypeOK, QP!PendingExact
<1>4. ASSUME \A p \in Producers : thread[p].pc = "idle", queue = <<>>, worker.pc = "recv"
      PROVE  pending = 0
  <2>1. QP!At("send") = {}
    BY <1>1, <1>4 DEF QP!At, QP!Threads
  <2>2. QP!Cardinality(QP!At("send")) = 0
    BY <1>2, <2>1, QP!FS_EmptySet, QueueLimits
  <2> QED
    BY <1>1, <1>4, <2>2 DEF QP!TypeOK, QP!PendingExact, QP!WorkerBusy
<1> QED
  BY <1>3, <1>4

LEMMA QueueFacts == QueueInv => Queued
<1> SUFFICES ASSUME QueueInv PROVE Queued
  OBVIOUS
<1>1. /\ QP!TypeOK /\ QP!PendingExact /\ QP!Distinct /\ QP!Carried
  BY DEF QueueInv, QP!WaitingInv, QP!WaitKept, QP!CountInv
<1>2. pending \in Nat /\ worker \in Q!WorkerStates /\ recorded \in 0 .. MaxSegments
  BY <1>1 DEF QP!TypeOK, QP!WorkerStates, Q!WorkerStates, QP!Jobs, Q!Jobs, QP!MaybeSegment,
     Q!MaybeSegment, QP!Segments, Q!Segments, QP!Slots, Q!Slots
<1>0. MaxSegments \in Nat
  BY QueueParameters DEF Q!QueueAssumption
<1>3. Q!WorkerBusy => pending >= 1
  BY <1>1, QP!BusyIsCounted, QueueLimits DEF Q!WorkerBusy, QP!WorkerBusy
<1>4. worker.pc \in {"load", "work"} => Job \in Q!Segments
  BY <1>0, <1>1, <1>2 DEF QP!Distinct, QP!Untyped, Q!Segments, Job
<1>5. ASSUME NEW p \in Producers, thread[p].pc = "send"
      PROVE  /\ thread[p].seg \in Q!Segments
             /\ worker.pc \in {"load", "work"} => thread[p].seg # Job
  <2>1. p \in QP!Threads /\ QP!Carries(p)
    BY <1>5 DEF QP!Threads, QP!Carries
  <2>2. QP!NotWaiting(thread[p].seg)
    BY <1>1, <2>1 DEF QP!Carried, QP!Fresh
  <2> QED
    BY <1>0, <1>2, <2>2 DEF QP!NotWaiting, QP!Untyped, Q!Segments, Job
<1> QED
  BY <1>2, <1>3, <1>4, <1>5, SendersCounted DEF Queued

(* What each step of the queue does to the count and to the worker. *)
LEMMA WorkerMoves ==
  ASSUME Queued
  PROVE  /\ Q!Receive => worker.pc = "recv" /\ worker'.pc = "load" /\ pending' = pending
         /\ Q!Load => /\ worker.pc = "load" /\ worker'.pc = "work"
                      /\ Job' = Job /\ pending' = pending
         /\ Q!Discard => /\ worker.pc = "work" /\ worker'.pc \in {"settle", "unlink"}
                         /\ pending' = pending
         /\ Q!Insert => worker.pc = "work" /\ worker'.pc = "typed" /\ pending' = pending
         /\ Q!Release => /\ worker.pc = "typed" /\ worker'.pc \in {"settle", "unlink"}
                         /\ pending' = pending
         /\ Q!RemoveJson => worker.pc = "unlink" /\ worker'.pc = "settle"
                            /\ pending' = pending
         /\ Q!Fail => worker.pc \in {"work", "typed"} /\ worker'.pc = "fail"
                      /\ pending' = pending
         /\ Q!Settle => /\ worker.pc \in {"settle", "fail"} /\ pending' = pending - 1
                        /\ worker'.pc = IF pending = 1 THEN "recover" ELSE "recv"
         /\ Q!Recover => worker.pc = "recover" /\ worker'.pc = "recv" /\ pending' = pending
<1>1. \A pc : [worker EXCEPT !.pc = pc].pc = pc
  BY DEF Queued, Q!WorkerStates
<1>2. Q!GiveBack => worker'.pc \in {"settle", "unlink"} /\ pending' = pending
  BY <1>1 DEF Q!GiveBack
<1>3. Q!Load => /\ worker.pc = "load" /\ worker'.pc = "work"
                /\ Job' = Job /\ pending' = pending
  BY DEF Queued, Q!WorkerStates, Q!Load, Job
<1>4. Q!Settle => /\ worker.pc \in {"settle", "fail"} /\ pending' = pending - 1
                  /\ worker'.pc = IF pending = 1 THEN "recover" ELSE "recv"
  BY <1>1 DEF Q!Settle, Q!AtRest
<1>5. Q!Discard \/ Q!Release => worker'.pc \in {"settle", "unlink"} /\ pending' = pending
  BY <1>2 DEF Q!Discard, Q!Release
<1>10. Q!RemoveJson => worker.pc = "unlink" /\ worker'.pc = "settle" /\ pending' = pending
  BY <1>1 DEF Q!RemoveJson
<1>6. Q!Insert => worker.pc = "work" /\ worker'.pc = "typed" /\ pending' = pending
  BY <1>1 DEF Q!Insert
<1>7. Q!Fail => worker.pc \in {"work", "typed"} /\ worker'.pc = "fail"
                /\ pending' = pending
  BY <1>1 DEF Q!Fail
<1>8. Q!Receive => worker.pc = "recv" /\ worker'.pc = "load" /\ pending' = pending
  BY DEF Q!Receive
<1>9. Q!Recover => worker.pc = "recover" /\ worker'.pc = "recv" /\ pending' = pending
  BY DEF Q!Recover, Q!AtRest
<1> QED
  BY <1>3, <1>4, <1>5, <1>6, <1>7, <1>8, <1>9, <1>10 DEF Q!Discard, Q!Release

LEMMA ThreadMoves ==
  ASSUME NEW p \in Producers
  PROVE  /\ Q!Record(p) \/ Q!Prepare(p) \/ Q!Spill(p) \/ Q!Admit(p)
              \/ Q!RefuseQueueFull(p) => worker' = worker /\ pending' = pending
         /\ Q!Count(p) => worker' = worker /\ pending' = pending + 1
         /\ Q!Send(p) => /\ worker' = worker /\ pending' = pending
                         /\ thread[p].pc = "send"
BY DEF Q!Record, Q!Prepare, Q!Spill, Q!Admit, Q!RefuseQueueFull, Q!Count, Q!Send,
   Q!PrepareInMemory, Q!PrepareOnDisk, Q!RefuseDiskFull, Q!Hold, Q!TakeNumber, Q!WriteWav, Q!WriteJson,
   Q!SpillFails, Q!workerVars

LEMMA QueueStays ==
  /\ UNCHANGED queueVars => worker' = worker /\ pending' = pending
  /\ Q!ClearBegins \/ Q!ClearFile \/ Q!ClearEnds => worker' = worker /\ pending' = pending
BY DEF queueVars, Q!ClearBegins, Q!ClearFile, Q!ClearEnds, Q!workerVars

(* The transitions the pipeline asks for, from the states it shows. *)
LEMMA Transitions ==
  ASSUME NEW s \in Shown
  PROVE  /\ Transition(s, "Ready") = "Ready"
         /\ Transition(s, "Listening") = IF s = "Ready" THEN "Listening" ELSE s
         /\ Transition(s, "Injecting") = IF s = "Transcribing" THEN "Injecting" ELSE s
         /\ Announce(s) = IF s \in {"Ready", "Listening"} THEN "Transcribing" ELSE s
         /\ FinishRestart(s) = "Ready"
         /\ \A b \in BOOLEAN : ReportError(s, b) \in Shown
BY DEF Shown, Transition, CanTransition, Successors, Announce, FinishRestart, ReportError

-----------------------------------------------------------------------------
(* The inductive invariant, step by step.                                  *)

OwnInv ==
  /\ OwnTypes /\ OpeningInv /\ TokenBound /\ StageInv /\ LateInv
  /\ TokenInv /\ FreshInv /\ BusyInv

LEMMA Limits ==
  /\ MaxSessions \in Nat /\ MaxRecoveries \in Nat
  /\ \A m \in Modes : m.push_to_talk \in BOOLEAN /\ (m.push_to_talk => m.ptt_hold)
  /\ token \in Nat /\ session \in Sessions /\ recoveries \in 0 .. MaxRecoveries
       /\ TokenBound /\ OpeningInv => token \in Tokens /\ TakeNumber \in Sessions
BY PipelineAssumption
   DEF PipelineAssumption, Sessions, Tokens, TokenBound, OpeningInv, TakeNumber

(* Any step that leaves the queue alone. *)
LEMMA QueueUnread ==
  ASSUME worker' = worker, pending' = pending
  PROVE  Job' = Job /\ (Work' <=> Work)
BY DEF Job, Work

(* What the steps of a take do. *)
LEMMA TakeEffects ==
  ASSUME Queued, OwnInv, Take
  PROVE  /\ worker' = worker /\ pending' = pending
         /\ UNCHANGED <<mode, hearing, sentIn, aborted, cancelled, cancelledIn, caller,
                        recoveries, stage, jobToken, lateTyped>>
         /\ session' = session \/ (session < MaxSessions /\ session' = session + 1)
         /\ \/ token' = token /\ TakeNumber' = TakeNumber
            \/ token' = token + 1 /\ TakeNumber' = TakeNumber + 1
         /\ OpeningInv'
         /\ state' = state \/ state' \in {"Ready", "Listening"}
         /\ /\ pttActive' \in BOOLEAN /\ gate' \in BOOLEAN
            /\ flushQueued' \in BOOLEAN /\ watch' \in BOOLEAN
            /\ capture' \in Opening \cup {"closed", "listening", "releasing", "flushing",
                                         "sending"}
<1> USE DEF Take, PressKey, RenewToken, BeginTake, WatchTake, OpenGate, ShowListening,
    LetKeyGo, CloseGate, FlushSegment, FlushNothing, FinishTake, NewSession,
    StartWatch, controllerVars, takeVars, sessionVars, cancelVars, jobVars
<1>1. worker' = worker /\ pending' = pending
  BY ThreadMoves, QueueStays DEF Producers
<1>2. UNCHANGED <<mode, hearing, sentIn, aborted, cancelled, cancelledIn, caller,
                  recoveries, stage, jobToken, lateTyped>>
  OBVIOUS
<1>3. session' = session \/ (session < MaxSessions /\ session' = session + 1)
  OBVIOUS
<1>4. \/ token' = token /\ TakeNumber' = TakeNumber
      \/ token' = token + 1 /\ TakeNumber' = TakeNumber + 1
  BY DEF TakeNumber, OwnInv, OwnTypes, Sessions
<1>5. OpeningInv'
  BY DEF OpeningInv, OwnInv, OwnTypes, Sessions, PushToTalk
<1>6. state' = state \/ state' \in {"Ready", "Listening"}
  BY Transitions DEF OwnInv, OwnTypes, RecoverAfterSegment
<1>7. /\ pttActive' \in BOOLEAN /\ gate' \in BOOLEAN
      /\ flushQueued' \in BOOLEAN /\ watch' \in BOOLEAN
      /\ capture' \in Opening \cup {"closed", "listening", "releasing", "flushing",
                                   "sending"}
  BY PipelineAssumption DEF PipelineAssumption, OwnInv, OwnTypes, AbortOnLoss, Opening
<1> QED
  BY <1>1, <1>2, <1>3, <1>4, <1>5, <1>6, <1>7

(* A take that opens gets a token of its own, and then a session. *)
LEMMA TakeStep ==
  ASSUME Queued, OwnInv, Take
  PROVE  OwnInv'
<1>1. Job' = Job /\ (Work' <=> Work)
  BY TakeEffects, QueueUnread
<1>2. UNCHANGED <<mode, hearing, sentIn, aborted, cancelled, cancelledIn, caller,
                  recoveries, stage, jobToken, lateTyped>>
  BY TakeEffects
<1>3. session' = session \/ (session < MaxSessions /\ session' = session + 1)
  BY TakeEffects
<1>11. \/ token' = token /\ TakeNumber' = TakeNumber
       \/ token' = token + 1 /\ TakeNumber' = TakeNumber + 1
  BY TakeEffects
<1>12. session \in Nat /\ token \in Nat /\ recoveries \in Nat /\ TakeNumber \in Nat
  BY Limits DEF OwnInv, OwnTypes, Sessions
<1>4. OwnTypes'
  <2>1. token' \in Nat /\ session' \in Sessions
    BY <1>3, <1>11, <1>12, Limits DEF OwnInv, OwnTypes, Sessions
  <2> QED
    BY <1>2, <2>1, TakeEffects DEF OwnInv, OwnTypes, Shown
<1>5. TokenBound'
  BY <1>2, <1>11, <1>12 DEF OwnInv, TokenBound
<1>6. StageInv'
  BY <1>2, TakeEffects DEF OwnInv, StageInv
<1>7. LateInv'
  BY <1>1, <1>2 DEF OwnInv, LateInv, LateComing, IsAborted
<1>8. TokenInv'
  BY <1>2, <1>3, <1>11, <1>12 DEF OwnInv, OwnTypes, Sessions, Tokens, TokenInv
<1>9. FreshInv'
  <2>1. token' # token => token' \notin cancelled
    BY <1>11, <1>12 DEF OwnInv, TokenInv, OwnTypes, Tokens
  <2>2. (PushToTalk' <=> PushToTalk) /\ Job' = Job
    BY <1>1, <1>2 DEF PushToTalk
  <2>3. ASSUME PushToTalk, token' \in cancelled'
        PROVE  cancelledIn'[token'] = TakeNumber'
    <3>1. token \in cancelled /\ token' = token /\ TakeNumber' = TakeNumber
      BY <1>2, <1>11, <1>12, <2>1, <2>3
    <3>2. cancelledIn[token] = TakeNumber
      BY <2>3, <3>1 DEF OwnInv, FreshInv
    <3> QED
      BY <1>2, <3>1, <3>2
  <2>4. PushToTalk /\ stage' = "begin" /\ jobToken' \in cancelled'
          => sentIn'[Job'] <= cancelledIn'[jobToken']
    BY <1>2, <2>2 DEF OwnInv, FreshInv
  <2> QED
    BY <2>2, <2>3, <2>4 DEF FreshInv
<1>10. BusyInv'
  BY <1>1, TakeEffects DEF OwnInv, BusyInv
<1> QED
  BY <1>4, <1>5, <1>6, <1>7, <1>8, <1>9, <1>10, TakeEffects DEF OwnInv

(* Speech begins a session only where no take is held. *)
LEMMA SpeechStep ==
  ASSUME Queued, OwnInv, Speech
  PROVE  OwnInv'
<1>1. worker' = worker /\ pending' = pending
  BY ThreadMoves, QueueStays DEF Speech, SpeechStarted, WatchSpeech, SpeechEnded, Producers
<1>2. Job' = Job /\ (Work' <=> Work)
  BY <1>1, QueueUnread
<1>3. UNCHANGED <<mode, sentIn, aborted, cancelled, cancelledIn, caller, recoveries, stage,
                  jobToken, lateTyped, pttActive, capture, gate, flushQueued, token>>
  BY DEF Speech, SpeechStarted, WatchSpeech, SpeechEnded, NewSession, StartWatch,
     controllerVars, takeVars, sessionVars, cancelVars, jobVars
<1>4. \/ session' = session
      \/ session < MaxSessions /\ session' = session + 1 /\ ~PushToTalk
  <2>1. CASE SpeechEnded \/ WatchSpeech
    BY <2>1 DEF SpeechEnded, WatchSpeech, sessionVars
  <2>2. CASE SpeechStarted
    <3>1. PushToTalk => PttHold /\ (gate => session # 0)
      BY Limits DEF OwnInv, OwnTypes, OpeningInv, PushToTalk, PttHold
    <3> QED
      BY <2>2, <3>1 DEF SpeechStarted, NewSession, SpeechAnew, sessionVars
  <2> QED
    BY <2>1, <2>2 DEF Speech
<1>5. state' = state \/ state' \in {"Ready", "Listening"}
  BY DEF Speech, SpeechStarted, WatchSpeech, SpeechEnded, SpeechStart, controllerVars
<1>6. OwnTypes'
  <2>1. watch' \in BOOLEAN /\ hearing' \in BOOLEAN
    BY Limits, PipelineAssumption DEF Speech, SpeechStarted, WatchSpeech, SpeechEnded,
       StartWatch, controllerVars, takeVars,
       sessionVars, cancelVars, jobVars, OwnInv, OwnTypes, AbortOnLoss,
       PipelineAssumption
  <2> QED
    BY <1>3, <1>4, <1>5, <2>1, Limits DEF OwnInv, OwnTypes, Shown, Sessions
<1>13. OpeningInv'
  BY <1>3, <1>4 DEF OwnInv, OwnTypes, Sessions, OpeningInv, PushToTalk
<1>14. (PushToTalk => TakeNumber' = TakeNumber) /\ TakeNumber' >= TakeNumber
  BY <1>3, <1>4 DEF OwnInv, OwnTypes, Sessions, TakeNumber
<1>7. TokenBound'
  <2>1. session \in Nat /\ token \in Nat /\ recoveries \in Nat
    BY DEF OwnInv, OwnTypes, Sessions
  <2>2. token' = token /\ caller' = caller /\ recoveries' = recoveries /\ capture' = capture
    BY <1>3
  <2>3. session' \in {session, session + 1}
    BY <1>4
  <2>4. TokenBound
    BY DEF OwnInv
  <2>5. TakeNumber \in Nat /\ TakeNumber' \in {TakeNumber, TakeNumber + 1}
    <3>1. TakeNumber = session \/ TakeNumber = session + 1
      BY DEF TakeNumber
    <3>2. TakeNumber' = session' \/ TakeNumber' = session' + 1
      BY DEF TakeNumber
    <3>3. TakeNumber \in Nat
      BY <2>1, <3>1
    <3>4. CASE capture = "renewed"
      BY <2>1, <2>2, <2>3, <3>3, <3>4 DEF TakeNumber
    <3>5. CASE capture # "renewed"
      BY <2>1, <2>2, <2>3, <3>3, <3>5 DEF TakeNumber
    <3> QED
     BY <3>4, <3>5
  <2>6. CASE caller = "recover"
    <3>1. token < TakeNumber + recoveries
      BY <2>4, <2>6 DEF TokenBound
    <3>2. token' < TakeNumber' + recoveries'
      <4>1. CASE TakeNumber' = TakeNumber
        BY <2>2, <3>1, <4>1
      <4>2. CASE TakeNumber' = TakeNumber + 1
        BY <2>1, <2>2, <2>5, <3>1, <4>2
      <4> QED
        BY <2>5, <4>1, <4>2
    <3> QED
      BY <2>2, <2>6, <3>2 DEF TokenBound
  <2>7. CASE caller # "recover"
    <3>1. token <= TakeNumber + recoveries
      BY <2>4, <2>7 DEF TokenBound
    <3>2. token' <= TakeNumber' + recoveries'
      <4>1. CASE TakeNumber' = TakeNumber
        BY <2>2, <3>1, <4>1
      <4>2. CASE TakeNumber' = TakeNumber + 1
        BY <2>1, <2>2, <2>5, <3>1, <4>2
      <4> QED
        BY <2>5, <4>1, <4>2
    <3> QED
      BY <2>2, <2>7, <3>2 DEF TokenBound
  <2> QED
    BY <2>6, <2>7
<1>8. StageInv'
  BY <1>1, <1>3 DEF OwnInv, StageInv
<1>9. LateInv'
  BY <1>2, <1>3 DEF OwnInv, LateInv, LateComing, IsAborted
<1>10. TokenInv'
  BY <1>3, <1>4 DEF OwnInv, OwnTypes, Sessions, Tokens, TokenInv
<1>11. FreshInv'
  BY <1>2, <1>3, <1>14 DEF OwnInv, FreshInv, PushToTalk
<1>12. BusyInv'
  BY <1>2, <1>5 DEF OwnInv, BusyInv
<1> QED
  BY <1>6, <1>7, <1>8, <1>9, <1>10, <1>11, <1>12, <1>13 DEF OwnInv

(* A segment that is sent is not the one in hand, so the session the worker *)
(* looks up is not written over.                                           *)
LEMMA EnqueueStep ==
  ASSUME Queued, OwnInv, NEW p \in Producers, Enqueue(p)
  PROVE  OwnInv'
<1>1. worker' = worker /\ pending' \in {pending, pending + 1}
  BY ThreadMoves DEF Enqueue
<1>2. Job' = Job /\ (Work => Work')
  BY <1>1 DEF Job, Work, Queued
<1>3. UNCHANGED <<mode, state, pttActive, capture, hearing, gate, session, aborted, watch, token,
                  cancelled, cancelledIn, caller, recoveries, stage, jobToken, lateTyped>>
  BY DEF Enqueue, controllerVars, takeVars, sessionVars, cancelVars, jobVars
<1>4. \/ sentIn' = sentIn
      \/ /\ thread[p].pc = "send"
         /\ sentIn' = [sentIn EXCEPT ![thread[p].seg] = session]
  BY ThreadMoves DEF Enqueue, sessionVars
<1>5. /\ sentIn' \in [Q!Segments -> Sessions]
      /\ \A s \in Q!Segments : sentIn'[s] \in {sentIn[s], session}
      /\ worker.pc \in {"load", "work"} => sentIn'[Job] = sentIn[Job]
  BY <1>4 DEF OwnInv, OwnTypes, Queued
<1>6. OwnTypes'
  <2>1. flushQueued' \in BOOLEAN
    BY DEF Enqueue, takeVars, OwnInv, OwnTypes
  <2> QED
    BY <1>3, <1>5, <2>1 DEF OwnInv, OwnTypes
<1>7. OpeningInv' /\ TokenBound'
  BY <1>3 DEF OwnInv, OpeningInv, TokenBound, TakeNumber, PushToTalk
<1>8. StageInv'
  BY <1>1, <1>3 DEF OwnInv, StageInv
<1>9. LateInv'
  BY <1>2, <1>3, <1>5 DEF OwnInv, StageInv, LateInv, LateComing, IsAborted
<1>10. TokenInv'
  BY <1>3, <1>5 DEF OwnInv, OwnTypes, Sessions, TokenInv
<1>11. FreshInv'
  BY <1>2, <1>3, <1>5 DEF OwnInv, StageInv, FreshInv, TakeNumber, PushToTalk
<1>12. BusyInv'
  BY <1>2, <1>3 DEF OwnInv, BusyInv
<1> QED
  BY <1>6, <1>7, <1>8, <1>9, <1>10, <1>11, <1>12 DEF OwnInv

(* What the steps of process_one_segment do. *)
LEMMA WorkEffects ==
  ASSUME Queued, Queued', OwnInv, WorkerStep
  PROVE  /\ UNCHANGED <<mode, pttActive, takeVars, session, sentIn, aborted, token,
                        cancelled, cancelledIn, caller, recoveries>>
         /\ stage' = "begin" =>
              /\ worker'.pc \in {"load", "work"}
              /\ jobToken' = token \/ (jobToken' = jobToken /\ stage = "begin" /\ Job' = Job)
         /\ /\ jobToken' \in {jobToken, token} /\ watch' \in BOOLEAN
            /\ stage' \in {"none", "begin", "stt", "heard", "text", "inject", "typing",
                           "typed", "failed"}
         /\ \/ /\ lateTyped' = lateTyped
               /\ stage' = "typing" => /\ Job' = Job
                                       /\ stage = "typing" \/ ~IsAborted(sentIn[Job])
            \/ /\ stage = "typing" /\ stage' = "typed"
               /\ lateTyped' = IF IsAborted(sentIn[Job]) THEN lateTyped + 1 ELSE lateTyped
         /\ state' \in Shown
         /\ state' = state \/ state' \in {"Ready", "Listening"} \/ Q!WorkerBusy'
         /\ Work /\ ~Work' => state' \in {"Ready", "Listening"}
         /\ state' = "Listening" => Work' \/ pttActive \/ (state = "Listening" /\ ~Work)
         /\ StageInv'
<1> USE DEF WorkerStep, TakeJob, SkipAtStart, StartJob, SkipInStt, SttFails,
    Transcribed, SkipHeard, KeepHeard, NoText, TextFails, TextReady,
    SkipAtInjection, Commit, Defer, TypeText, InjectionFails, FinishJob,
    RecoverController, Dropped, Fails, Onward, KeepOthers, controllerVars,
    takeVars, sessionVars, cancelVars, jobVars
<1>1. UNCHANGED <<mode, pttActive, takeVars, session, sentIn, aborted, token,
                  cancelled, cancelledIn, caller, recoveries>>
  OBVIOUS
<1>2. stage' = "begin" =>
        /\ worker'.pc \in {"load", "work"}
        /\ jobToken' = token \/ (jobToken' = jobToken /\ stage = "begin" /\ Job' = Job)
  BY WorkerMoves, QueueStays DEF OwnInv, StageInv
<1>3. /\ jobToken' \in {jobToken, token} /\ watch' \in BOOLEAN
      /\ stage' \in {"none", "begin", "stt", "heard", "text", "inject", "typing",
                     "typed", "failed"}
  BY DEF OwnInv, OwnTypes
<1>4. \/ /\ lateTyped' = lateTyped
         /\ stage' = "typing" => /\ Job' = Job
                                 /\ stage = "typing" \/ ~IsAborted(sentIn[Job])
      \/ /\ stage = "typing" /\ stage' = "typed"
         /\ lateTyped' = IF IsAborted(sentIn[Job]) THEN lateTyped + 1 ELSE lateTyped
  BY WorkerMoves, QueueStays DEF OwnInv, StageInv, ShouldSkip, Job
<1>5. state' \in Shown
  BY Transitions DEF OwnInv, OwnTypes, RecoverAfterSegment, Shown
<1>6. state' = state \/ state' \in {"Ready", "Listening"} \/ Q!WorkerBusy'
  BY Transitions, WorkerMoves, QueueStays
     DEF OwnInv, OwnTypes, RecoverAfterSegment, Q!WorkerBusy, Queued
<1>7. Work /\ ~Work' => state' \in {"Ready", "Listening"}
  BY Transitions, WorkerMoves, QueueStays
     DEF OwnInv, OwnTypes, RecoverAfterSegment, Work, Queued, Q!WorkerBusy
<1>8. state' = "Listening" => Work' \/ pttActive \/ (state = "Listening" /\ ~Work)
  BY Transitions, WorkerMoves, QueueStays
     DEF OwnInv, OwnTypes, RecoverAfterSegment, Work, Queued, Q!WorkerBusy
<1>9. StageInv'
  BY WorkerMoves, QueueStays DEF OwnInv, StageInv
<1> QED
  BY <1>1, <1>2, <1>3, <1>4, <1>5, <1>6, <1>7, <1>8, <1>9

(* The worker takes the token when it takes the job, and passes the last    *)
(* check only with a session that was not aborted.                         *)
LEMMA WorkStep ==
  ASSUME Queued, Queued', OwnInv, WorkerStep
  PROVE  OwnInv'
<1>1. /\ UNCHANGED <<mode, pttActive, capture, hearing, gate, flushQueued>>
      /\ UNCHANGED <<session, sentIn, aborted, token, cancelled, cancelledIn>>
      /\ UNCHANGED <<caller, recoveries>>
  BY WorkEffects DEF takeVars
<1>2. stage' = "begin" =>
        /\ worker'.pc \in {"load", "work"}
        /\ jobToken' = token \/ (jobToken' = jobToken /\ stage = "begin" /\ Job' = Job)
  BY WorkEffects
<1>3. \/ /\ lateTyped' = lateTyped
         /\ stage' = "typing" => /\ Job' = Job
                                 /\ stage = "typing" \/ ~IsAborted(sentIn[Job])
      \/ /\ stage = "typing" /\ stage' = "typed"
         /\ lateTyped' = IF IsAborted(sentIn[Job]) THEN lateTyped + 1 ELSE lateTyped
  BY WorkEffects
<1>4. OwnTypes'
  <2>1. lateTyped' \in Nat
    BY <1>3 DEF OwnInv, OwnTypes
  <2>2. jobToken' \in {jobToken, token} /\ token \in Tokens
    BY WorkEffects, Limits DEF OwnInv, OwnTypes
  <2> QED
    BY <1>1, <2>1, <2>2, WorkEffects DEF OwnInv, OwnTypes
<1>5. OpeningInv' /\ TokenBound'
  BY <1>1 DEF OwnInv, OpeningInv, TokenBound, TakeNumber, PushToTalk
<1>6. StageInv'
  BY WorkEffects
<1>7. LateInv'
  BY <1>1, <1>3 DEF OwnInv, LateInv, LateComing, IsAborted
<1>8. TokenInv'
  <2>1. jobToken' \in {jobToken, token}
    BY WorkEffects
  <2> QED
    BY <1>1, <2>1 DEF OwnInv, OwnTypes, TokenInv
<1>9. FreshInv'
  <2>1. stage' = "begin" => Job' \in Q!Segments
    BY <1>2 DEF Queued
  <2> QED
    BY <1>1, <1>2, <2>1, Limits
    DEF OwnInv, OwnTypes, Sessions, FreshInv, TokenInv, TakeNumber, PushToTalk
<1>10. BusyInv'
  <2>1. Q!WorkerBusy' => Work'
    BY DEF Queued, Work
  <2> QED
    BY <2>1, WorkEffects DEF OwnInv, BusyInv
<1> QED
  BY <1>4, <1>5, <1>6, <1>7, <1>8, <1>9, <1>10 DEF OwnInv

(* What calling work off does. *)
LEMMA CallOffEffects ==
  ASSUME Queued, OwnInv, CallOff
  PROVE  /\ worker' = worker /\ pending' = pending
         /\ UNCHANGED <<mode, capture, hearing, flushQueued, session, sentIn, stage, jobToken>>
         /\ \/ /\ token' = token /\ recoveries' = recoveries
               /\ caller' = "recover" => caller = "recover"
            \/ /\ caller = "recover" /\ caller' # "recover"
               /\ token' = token + 1 /\ recoveries' = recoveries
            \/ /\ caller = "none" /\ token' = token
               /\ recoveries < MaxRecoveries /\ recoveries' = recoveries + 1
         /\ \/ UNCHANGED <<cancelled, cancelledIn>>
            \/ /\ cancelled' = cancelled \cup {token} /\ token' = token
               /\ cancelledIn' = [cancelledIn EXCEPT ![token] = TakeNumber]
         /\ \/ UNCHANGED <<aborted, lateTyped>>
            \/ (lateTyped' = 0 /\ aborted' \in {aborted, session})
         /\ state' = state \/ state' \in {"Ready", "Listening"}
         /\ gate' => gate \/ ~PushToTalk
         /\ /\ pttActive' \in BOOLEAN /\ gate' \in BOOLEAN /\ watch' \in BOOLEAN
            /\ caller' \in {"none", "abort", "cancelled", "aborting", "recover", "renewed",
                          "restart"}
<1> USE DEF CallOff, LoseFocus, StealHandle, ClearFile, ClearEnds, AbortCancels,
    AbortStopsWatch, AbortEndsTake, RecoverCancels, RecoverRenews, RecoverState,
    RestartCapture, CancelPending, AbortCurrent,
    controllerVars, takeVars, sessionVars, cancelVars, jobVars
<1>1. worker' = worker /\ pending' = pending
  BY QueueStays
<1>2. UNCHANGED <<mode, capture, hearing, flushQueued, session, sentIn, stage, jobToken>>
  OBVIOUS
<1>3. \/ /\ token' = token /\ recoveries' = recoveries
         /\ caller' = "recover" => caller = "recover"
      \/ /\ caller = "recover" /\ caller' # "recover"
         /\ token' = token + 1 /\ recoveries' = recoveries
      \/ /\ caller = "none" /\ token' = token
         /\ recoveries < MaxRecoveries /\ recoveries' = recoveries + 1
  OBVIOUS
<1>4. \/ UNCHANGED <<cancelled, cancelledIn>>
      \/ /\ cancelled' = cancelled \cup {token} /\ token' = token
         /\ cancelledIn' = [cancelledIn EXCEPT ![token] = TakeNumber]
  OBVIOUS
<1>5. \/ UNCHANGED <<aborted, lateTyped>>
      \/ (lateTyped' = 0 /\ aborted' \in {aborted, session})
  OBVIOUS
<1>6. state' = state \/ state' \in {"Ready", "Listening"}
  BY Transitions DEF OwnInv, OwnTypes
<1>7. gate' => gate \/ ~PushToTalk
  OBVIOUS
<1>8. /\ pttActive' \in BOOLEAN /\ gate' \in BOOLEAN /\ watch' \in BOOLEAN
      /\ caller' \in {"none", "abort", "cancelled", "aborting", "recover", "renewed",
                          "restart"}
  BY Limits DEF OwnInv, OwnTypes, PushToTalk
<1> QED
  BY <1>1, <1>2, <1>3, <1>4, <1>5, <1>6, <1>7, <1>8

(* Calling work off cancels the token for the take it serves. *)
LEMMA CallOffStep ==
  ASSUME Queued, OwnInv, CallOff
  PROVE  OwnInv'
<1>1. Job' = Job /\ (Work' <=> Work)
  BY CallOffEffects, QueueUnread
<1>2. UNCHANGED <<mode, capture, hearing, flushQueued, session, sentIn, stage, jobToken>>
  BY CallOffEffects
<1>3. \/ /\ token' = token /\ recoveries' = recoveries
         /\ caller' = "recover" => caller = "recover"
      \/ /\ caller = "recover" /\ caller' # "recover"
         /\ token' = token + 1 /\ recoveries' = recoveries
      \/ /\ caller = "none" /\ token' = token
         /\ recoveries < MaxRecoveries /\ recoveries' = recoveries + 1
  BY CallOffEffects
<1>4. \/ UNCHANGED <<cancelled, cancelledIn>>
      \/ /\ cancelled' = cancelled \cup {token} /\ token' = token
         /\ cancelledIn' = [cancelledIn EXCEPT ![token] = TakeNumber]
  BY CallOffEffects
<1>5. /\ \A k \in cancelled : k \in Nat /\ k <= token
      /\ token \in Nat /\ token \in Tokens
      /\ jobToken \in Nat /\ jobToken <= token
      /\ TakeNumber' = TakeNumber /\ TakeNumber \in Sessions /\ session <= TakeNumber
  BY <1>2, Limits DEF OwnInv, OwnTypes, TokenInv, Tokens, Sessions, TakeNumber
<1>6. /\ token' \in {token, token + 1}
      /\ token' # token => UNCHANGED <<cancelled, cancelledIn>>
  BY <1>3, <1>4, <1>5
<1>7. \/ UNCHANGED <<aborted, lateTyped>>
      \/ (lateTyped' = 0 /\ aborted' \in {aborted, session})
  BY CallOffEffects
<1>8. OwnTypes'
  <2>1. cancelled' \subseteq Tokens /\ cancelledIn' \in [Tokens -> Sessions]
    BY <1>4, <1>5 DEF OwnInv, OwnTypes
  <2>2. aborted' \in Sessions /\ lateTyped' \in Nat
    BY <1>7 DEF OwnInv, OwnTypes
  <2>3. token' \in Nat /\ recoveries' \in 0 .. MaxRecoveries
    BY <1>3, Limits DEF OwnInv, OwnTypes
  <2> QED
    BY <1>2, <2>1, <2>2, <2>3, CallOffEffects DEF OwnInv, OwnTypes, Shown
<1>9. OpeningInv' /\ TokenBound'
  <2>1. OpeningInv'
    BY <1>2, CallOffEffects DEF OwnInv, OpeningInv, PushToTalk
  <2>2. TokenBound'
    BY <1>3, <1>5 DEF OwnInv, OwnTypes, Sessions, TokenBound
  <2> QED
    BY <2>1, <2>2
<1>10. StageInv'
  BY <1>2, CallOffEffects DEF OwnInv, StageInv
<1>11. LateInv'
  BY <1>1, <1>2, <1>7 DEF OwnInv, LateInv, LateComing, IsAborted
<1>12. TokenInv'
  <2>1. \A k \in cancelled' : k <= token'
    <3>1. token <= token'
      BY <1>5, <1>6
    <3>2. token' = token => cancelled' \subseteq cancelled \cup {token}
      BY <1>4
    <3>3. \A k \in cancelled' : k \in Nat /\ k <= token
      BY <1>5, <1>6, <3>2
    <3> QED
      BY <1>5, <1>6, <3>1, <3>3
  <2>2. jobToken' <= token'
    BY <1>2, <1>5, <1>6 DEF OwnInv, OwnTypes
  <2> QED
    BY <1>2, <2>1, <2>2 DEF OwnInv, TokenInv
<1>13. FreshInv'
  <2>1. PushToTalk' = PushToTalk
    BY <1>2 DEF PushToTalk
  <2>2. ASSUME PushToTalk, token' \in cancelled'
        PROVE  cancelledIn'[token'] = TakeNumber
    BY <1>4, <1>5, <1>6, <2>2 DEF OwnInv, OwnTypes, FreshInv
  <2>3. ASSUME PushToTalk, stage = "begin", jobToken \in cancelled'
        PROVE  sentIn[Job] <= cancelledIn'[jobToken]
    <3>1. Job \in Q!Segments
      BY <2>3 DEF OwnInv, StageInv, Queued
    <3>2. sentIn[Job] <= session
      BY <3>1 DEF OwnInv, TokenInv
    <3>3. sentIn[Job] <= TakeNumber
      BY <1>5, <3>1, <3>2 DEF OwnInv, OwnTypes, Sessions
    <3> QED
      BY <1>4, <1>5, <2>3, <3>3 DEF OwnInv, OwnTypes, FreshInv
  <2> QED
    BY <1>1, <1>2, <1>5, <2>1, <2>2, <2>3 DEF OwnInv, FreshInv
<1>14. BusyInv'
  BY <1>1, CallOffEffects DEF OwnInv, BusyInv
<1> QED
  BY <1>8, <1>9, <1>10, <1>11, <1>12, <1>13, <1>14 DEF OwnInv

LEMMA InitOwn == Init => OwnInv
<1> SUFFICES ASSUME Init PROVE OwnInv
  OBVIOUS
<1>1. worker.pc = "recv" /\ pending = 0 /\ 0 \in Sessions /\ 0 \in Tokens
  BY Limits DEF Init, Q!Init, Q!AtRest, Sessions, Tokens
<1>2. mode \in Modes /\ gate \in BOOLEAN /\ (PushToTalk => ~gate)
  BY Limits DEF Init, PushToTalk
<1>3. /\ sentIn \in [Q!Segments -> Sessions] /\ cancelledIn \in [Tokens -> Sessions]
      /\ \A s \in Q!Segments : sentIn[s] = 0
  BY <1>1 DEF Init
<1>4. /\ pttActive \in BOOLEAN /\ flushQueued \in BOOLEAN /\ watch \in BOOLEAN
      /\ hearing \in BOOLEAN
  BY DEF Init
<1>5. /\ state = "Ready" /\ capture = "closed" /\ session = 0 /\ aborted = 0
      /\ token = 0 /\ cancelled = {} /\ jobToken = 0 /\ stage = "none"
      /\ caller = "none" /\ recoveries = 0 /\ lateTyped = 0
  BY DEF Init
<1>6. OwnTypes
  BY <1>1, <1>2, <1>3, <1>4, <1>5, Limits DEF OwnTypes, Shown
<1>7. OpeningInv /\ TokenBound /\ StageInv /\ LateInv /\ BusyInv
  BY <1>1, <1>2, <1>5
  DEF OpeningInv, TokenBound, TakeNumber, StageInv, LateInv, BusyInv
<1>8. TokenInv
  BY <1>3, <1>5 DEF TokenInv
<1>9. FreshInv
  <2>1. token \notin cancelled /\ jobToken \notin cancelled
    BY <1>5
  <2> QED
    BY <1>2, <2>1 DEF FreshInv
<1> QED
  BY <1>6, <1>7, <1>8, <1>9 DEF OwnInv

(* Whatever the settings, and whenever work is called off. *)
THEOREM PipelineInvariant == Spec => []OwnInv
<1>1. Init => OwnInv
  BY InitOwn
<1>2. Queued /\ Queued' /\ OwnInv /\ [Next]_vars => OwnInv'
  <2>1. ASSUME Queued, OwnInv, UNCHANGED vars
        PROVE  OwnInv'
    <3>1. worker' = worker /\ pending' = pending
      BY <2>1 DEF vars, queueVars
    <3>2. Job' = Job /\ (Work' <=> Work)
      BY <3>1, QueueUnread
    <3> QED
      BY <2>1, <3>1, <3>2 DEF vars, controllerVars, takeVars, sessionVars,
         cancelVars, jobVars, OwnInv, OwnTypes, OpeningInv, TokenBound, TakeNumber, StageInv,
         LateInv, LateComing, IsAborted, TokenInv, FreshInv, BusyInv, PushToTalk
  <2> QED
    BY <2>1, TakeStep, SpeechStep, EnqueueStep, WorkStep, CallOffStep DEF Next
<1>3. Spec => []Queued
  BY QueueIsApart, QueueFacts, PTL
<1> QED
  BY <1>1, <1>2, <1>3, PTL DEF Spec

(* Every variable keeps its type (the state of one dictation, from the key *)
(* press to the typed text).                                               *)
THEOREM TypeCorrect == Spec => []TypeOK
<1>1. QueueInv /\ OwnInv => TypeOK
  <2> SUFFICES ASSUME QueueInv, OwnInv PROVE TypeOK
    OBVIOUS
  <2>1. QP!TypeOK
    BY DEF QueueInv, QP!WaitingInv, QP!CountInv
  <2>2. Q!TypeOK
    BY <2>1 DEF Q!TypeOK, QP!TypeOK, Q!Threads, QP!Threads, Q!ThreadStates, QP!ThreadStates,
       Q!WorkerStates, QP!WorkerStates, Q!Jobs, QP!Jobs, Q!MaybeSegment, QP!MaybeSegment,
       Q!Segments, QP!Segments, Q!Slots, QP!Slots
  <2>3. state \in AppStates /\ token \in Tokens
    BY Limits DEF OwnInv, OwnTypes, Shown, AppStates
  <2> QED
    BY <2>2, <2>3 DEF TypeOK, OwnInv, OwnTypes
<1> QED
  BY <1>1, QueueIsApart, PipelineInvariant, PTL

(* Once a session is aborted at most one more text of it is typed: that of *)
(* the job that had passed the last check of process_one_segment.          *)
THEOREM LateTextBounded == Spec => []AtMostOneLateText
<1>1. OwnInv => AtMostOneLateText
  BY DEF OwnInv, LateInv, AtMostOneLateText
<1> QED
  BY <1>1, PipelineInvariant, PTL

(* With push-to-talk a take is never skipped for what was cancelled before *)
(* its reset_cancel: the token it installs is its own.                     *)
THEOREM NewTakeRuns == Spec => []FreshTakeRuns
<1>1. OwnInv => FreshTakeRuns
  BY DEF OwnInv, FreshInv, FreshTakeRuns, FreshSessionRuns
<1> QED
  BY <1>1, PipelineInvariant, PTL

(* At rest nothing is pending. *)
LEMMA RestIsIdle == Queued /\ AtRest => ~Work
BY DEF Queued, AtRest, Work

(* With continuous capture the controller is Ready or hears speech again   *)
(* once everything is at rest, however the jobs ended (finish,             *)
(* handle_pipeline_error, recover_engine).                                 *)
THEOREM RestIsCalm == Spec => []IdleAtRest
<1>1. Queued /\ OwnInv => IdleAtRest
  BY RestIsIdle DEF OwnInv, BusyInv, IdleAtRest
<1> QED
  BY <1>1, QueueIsApart, QueueFacts, PipelineInvariant, PTL

-----------------------------------------------------------------------------
(* The take, when work is not called off while the key goes down.          *)

LEMMA TakeTakeStep ==
  ASSUME ~Overlap, Queued, OwnInv, TakeInv, Take
  PROVE  TakeInv'
<1>1. worker' = worker /\ pending' = pending
  BY TakeEffects
<1>2. Work' <=> Work
  BY <1>1, QueueUnread
<1>3. state \in Shown /\ pttActive \in BOOLEAN
  BY DEF OwnInv, OwnTypes
<1> USE <1>2, <1>3, Transitions
<1> USE DEF controllerVars, takeVars, sessionVars, cancelVars, jobVars,
    TakeInv, PushToTalk
<1>4. CASE PressKey
  BY <1>4 DEF PressKey, Opening
<1>5. CASE RenewToken \/ BeginTake \/ WatchTake \/ OpenGate
  BY <1>5 DEF RenewToken, BeginTake, WatchTake, OpenGate, Opening
<1>6. CASE ShowListening
  BY <1>6 DEF ShowListening, Opening
<1>7. CASE LetKeyGo
  BY <1>7 DEF LetKeyGo, Opening
<1>8. CASE CloseGate
  BY <1>8 DEF CloseGate, Opening
<1>9. CASE FlushSegment \/ FlushNothing
  BY <1>9 DEF FlushSegment, FlushNothing, Opening
<1>10. CASE FinishTake
  BY <1>10 DEF FinishTake, RecoverAfterSegment, Opening
<1> QED
  BY <1>4, <1>5, <1>6, <1>7, <1>8, <1>9, <1>10 DEF Take

LEMMA SpeechTakeStep ==
  ASSUME Queued, OwnInv, TakeInv, Speech
  PROVE  TakeInv'
<1>1. worker' = worker /\ pending' = pending
  BY ThreadMoves, QueueStays DEF Speech, SpeechStarted, WatchSpeech, SpeechEnded, Producers
<1>2. Work' <=> Work
  BY <1>1, QueueUnread
<1> QED
  BY <1>2 DEF Speech, SpeechStarted, WatchSpeech, SpeechEnded, SpeechStart, controllerVars, takeVars,
     cancelVars, TakeInv, PushToTalk

LEMMA EnqueueTakeStep ==
  ASSUME Queued, OwnInv, TakeInv, NEW p \in Producers, Enqueue(p)
  PROVE  TakeInv'
<1>1. /\ pending' \in {pending, pending + 1} /\ worker' = worker
      /\ Q!Send(p) => pending' >= 1
  BY ThreadMoves DEF Enqueue, Queued
<1>2. Work => Work'
  BY <1>1 DEF Work, Queued
<1>3. flushQueued' = flushQueued \/ Work'
  BY <1>1 DEF Enqueue, takeVars, Work, Queued
<1>4. UNCHANGED <<mode, state, pttActive, capture, gate, caller>>
  BY DEF Enqueue, controllerVars, takeVars, cancelVars
<1> QED
  BY <1>2, <1>3, <1>4 DEF TakeInv, PushToTalk

LEMMA WorkTakeStep ==
  ASSUME Queued, Queued', OwnInv, TakeInv, WorkerStep
  PROVE  TakeInv'
<1>1. UNCHANGED <<mode, pttActive, takeVars, caller>>
  BY WorkEffects
<1>2. state' = "Listening" => Work' \/ pttActive \/ (state = "Listening" /\ ~Work)
  BY WorkEffects
<1> QED
  BY <1>1, <1>2 DEF takeVars, TakeInv, PushToTalk

LEMMA CallOffTakeStep ==
  ASSUME ~Overlap, Queued, OwnInv, TakeInv, CallOff
  PROVE  TakeInv'
<1>1. worker' = worker /\ pending' = pending
  BY CallOffEffects
<1>2. Work' <=> Work
  BY <1>1, QueueUnread
<1> QED
  BY <1>2, Transitions DEF CallOff, LoseFocus, StealHandle, ClearFile, ClearEnds,
     AbortCancels, AbortStopsWatch, AbortEndsTake, RecoverCancels, RecoverRenews,
     RecoverState, RestartCapture, Opening, Recovering,
     CancelPending, AbortCurrent, controllerVars, takeVars, sessionVars,
     cancelVars, jobVars, OwnInv, OwnTypes, TakeInv, PushToTalk

(* When nothing is called off while a take opens, whoever opened the        *)
(* microphone or left the controller Listening is still there to close it   *)
(* or to bring it back.                                                    *)
THEOREM TakeInvariant == ~Overlap /\ Spec => []TakeInv
<1> SUFFICES ASSUME ~Overlap PROVE Spec => []TakeInv
  OBVIOUS
<1>1. Init => TakeInv
  BY DEF Init, TakeInv, PushToTalk, Opening
<1>2. Queued /\ Queued' /\ OwnInv /\ TakeInv /\ [Next]_vars => TakeInv'
  <2>1. ASSUME TakeInv, UNCHANGED vars
        PROVE  TakeInv'
    BY <2>1, QueueUnread DEF vars, queueVars, controllerVars, takeVars, cancelVars, TakeInv,
       PushToTalk
  <2> QED
    BY <2>1, TakeTakeStep, SpeechTakeStep, EnqueueTakeStep, WorkTakeStep, CallOffTakeStep
    DEF Next
<1>3. Spec => []Queued
  BY QueueIsApart, QueueFacts, PTL
<1> QED
  BY <1>1, <1>2, <1>3, PipelineInvariant, PTL DEF Spec

(* Once the key is up and the take is over nothing is captured any more,   *)
(* unless recover_engine is about to restart capture                       *)
(* (plan_hotkey_released, begin_ptt_release).                              *)
THEOREM KeyUpIsFinal == ~Overlap /\ Spec => []KeyUpEndsCapture
<1> SUFFICES ASSUME ~Overlap PROVE Spec => []KeyUpEndsCapture
  OBVIOUS
<1>1. TakeInv => KeyUpEndsCapture
  BY DEF TakeInv, KeyUpEndsCapture, Opening
<1> QED
  BY <1>1, TakeInvariant, PTL

(* With the take closed and nothing under way the controller is Ready: the *)
(* last job out, finish_ptt_release, the abort or recover_engine left it   *)
(* so.                                                                     *)
THEOREM RestIsReady == ~Overlap /\ Spec => []ReadyAtRest
<1> SUFFICES ASSUME ~Overlap PROVE Spec => []ReadyAtRest
  OBVIOUS
<1>1. Queued /\ OwnInv /\ TakeInv => ReadyAtRest
  BY RestIsIdle DEF OwnInv, BusyInv, TakeInv, ReadyAtRest, AtRest, Recovering
<1> QED
  BY <1>1, TakeInvariant, QueueIsApart, QueueFacts, PipelineInvariant, PTL

=============================================================================
