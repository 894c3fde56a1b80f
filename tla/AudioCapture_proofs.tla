------------------------ MODULE AudioCapture_proofs ------------------------
(***************************************************************************)
(* AudioCapture keeps its types, and no segment of the detector outgrows   *)
(* its limit, for all values of the constants.  When a press or a release  *)
(* does not straddle a pass of the worker and waits long enough for it,    *)
(* the queue is given the audio of each take, once and in order, and all of *)
(* it when a held take fits in one segment.                                *)
(***************************************************************************)
EXTENDS AudioCapture, TLAPS, FiniteSetTheorems

-----------------------------------------------------------------------------
(* The detector: what each call preserves.                                 *)

Good(d, F) == d \in Detector(F) /\ Fits(d)

(* The ring buffer keeps its capacity. *)
LEMMA RememberFits ==
  ASSUME NEW F, NEW pre \in Seq(F), NEW frame \in F, Len(pre) <= PreFrames
  PROVE  Remember(pre, frame) \in Seq(F) /\ Len(Remember(pre, frame)) <= PreFrames
BY DetectorAssumption DEF Remember

LEMMA ResetGood ==
  ASSUME NEW F, NEW d \in Detector(F)
  PROVE  Good(Reset(d), F)
<1>1. <<>> \in Seq(F) /\ Len(<<>>) = 0  OBVIOUS
<1>2. PreFrames \in Nat /\ MaxSegment \in Nat /\ MaxSegment # 0
  BY DetectorAssumption
<1>3. Reset(d) \in Detector(F)  BY <1>1 DEF Reset, Detector
<1>4. Reset(d).pre = <<>> /\ Reset(d).segment = <<>>  BY DEF Reset, Detector
<1>5. QED  BY <1>1, <1>2, <1>3, <1>4 DEF Good, Fits

LEMMA TakeSegmentGood ==
  ASSUME NEW F, NEW d \in Detector(F)
  PROVE  Good(TakeSegment(d), F)
<1>1. <<>> \in Seq(F) /\ Len(<<>>) = 0  OBVIOUS
<1>2. PreFrames \in Nat /\ MaxSegment \in Nat /\ MaxSegment # 0
  BY DetectorAssumption
<1>3. TakeSegment(d) \in Detector(F)  BY <1>1 DEF TakeSegment, Detector
<1>4. TakeSegment(d).pre = <<>> /\ TakeSegment(d).segment = <<>>
  BY DEF TakeSegment, Detector
<1>5. QED  BY <1>1, <1>2, <1>3, <1>4 DEF Good, Fits

LEMMA MarkDeliveredGood ==
  ASSUME NEW F, NEW d, Good(d, F)
  PROVE  Good(MarkDelivered(d), F)
BY DEF MarkDelivered, Good, Detector, Fits

LEMMA HearIdleGood ==
  ASSUME NEW F, NEW d, Good(d, F), NEW frame \in F
  PROVE  Good(HearIdle(d, frame).det, F)
<1> DEFINE pre == Remember(d.pre, frame)
<1>1. pre \in Seq(F) /\ Len(pre) <= PreFrames
  BY RememberFits DEF Good, Detector, Fits
<1> HIDE DEF pre
<1>2. Append(pre, frame) \in Seq(F) /\ Len(Append(pre, frame)) <= PreFrames + 1
  BY <1>1, DetectorAssumption
<1>3. Len(Append(pre, frame)) <= IF MaxSegment > PreFrames + 1
                                 THEN MaxSegment - 1 ELSE PreFrames + 1
  BY <1>2, DetectorAssumption
<1>4. CASE frame.voice
  BY <1>1, <1>2, <1>3, <1>4, DetectorAssumption
  DEF HearIdle, pre, Outcome, Good, Detector, Fits
<1>5. CASE ~frame.voice
  BY <1>1, <1>5 DEF HearIdle, pre, Quiet, Outcome, Good, Detector, Fits
<1>6. QED  BY <1>4, <1>5

(* A segment that did not fit is taken away in the same call. *)
LEMMA HearSpeakingGood ==
  ASSUME NEW F, NEW d, Good(d, F), NEW frame \in F
  PROVE  /\ Good(HearSpeaking(d, frame).det, F)
         /\ HearSpeaking(d, frame).audio \in Seq(F)
<1> DEFINE s == [d EXCEPT !.segment = Append(d.segment, frame),
                          !.silence = IF frame.voice THEN 0 ELSE d.silence + 1]
           over == ~frame.voice /\ s.endOnSilence /\ s.silence >= SilenceTimeout
           taken == [TakeSegment(s) EXCEPT !.speaking = FALSE]
<1>1. d \in Detector(F) /\ Len(d.pre) <= PreFrames  BY DEF Good, Fits
<1>2. Append(d.segment, frame) \in Seq(F)  BY <1>1 DEF Detector
<1>3. s \in Detector(F) /\ s.pre = d.pre
  <2>1. (IF frame.voice THEN 0 ELSE d.silence + 1) \in Nat
    BY <1>1 DEF Detector
  <2>2. QED  BY <1>1, <1>2, <2>1 DEF Detector
<1>4. s.segment \in Seq(F)  BY <1>3 DEF Detector
<1>5. Good(TakeSegment(s), F)  BY <1>3, TakeSegmentGood
<1>6. Good(taken, F)
  <2>1. taken \in Detector(F) /\ taken.pre = TakeSegment(s).pre
        /\ taken.segment = TakeSegment(s).segment
    BY <1>5 DEF Good, Detector
  <2>2. QED  BY <1>5, <2>1 DEF Good, Fits
<1>7. Good(MarkDelivered(taken), F) /\ Good(MarkDelivered(TakeSegment(s)), F)
  BY <1>5, <1>6, MarkDeliveredGood
<1>8. Good(Reset(s), F)  BY <1>3, ResetGood
<1>9. <<>> \in Seq(F)  OBVIOUS
<1> HIDE DEF s, taken
<1>10. CASE over /\ Len(s.segment) >= MinSpeech
  <2>1. HearSpeaking(d, frame) = Outcome(MarkDelivered(taken), "ended", s.segment)
    BY <1>10 DEF HearSpeaking, s, taken
  <2>2. QED  BY <2>1, <1>4, <1>7 DEF Outcome
<1>11. CASE over /\ ~(Len(s.segment) >= MinSpeech)
  <2>1. HearSpeaking(d, frame) = Quiet(Reset(s))
    BY <1>11 DEF HearSpeaking, s
  <2>2. QED  BY <2>1, <1>8, <1>9 DEF Quiet, Outcome
<1>12. CASE ~over /\ Len(s.segment) >= MaxSegment
  <2>1. HearSpeaking(d, frame)
          = Outcome(MarkDelivered(TakeSegment(s)), "ended", s.segment)
    BY <1>12 DEF HearSpeaking, s
  <2>2. QED  BY <2>1, <1>4, <1>7 DEF Outcome
<1>13. CASE ~over /\ ~(Len(s.segment) >= MaxSegment)
  <2>1. HearSpeaking(d, frame) = Quiet(s)
    BY <1>13 DEF HearSpeaking, s
  <2>2. Len(s.segment) \in Nat  BY <1>4
  <2>3. Fits(s)  BY <1>1, <1>3, <1>13, <2>2, DetectorAssumption DEF Fits
  <2>4. QED  BY <1>3, <1>9, <2>1, <2>3 DEF Quiet, Outcome, Good
<1>14. QED  BY <1>10, <1>11, <1>12, <1>13

LEMMA PushGood ==
  ASSUME NEW F, NEW d, Good(d, F), NEW frame \in F
  PROVE  /\ Good(Push(d, frame).det, F)
         /\ Push(d, frame).audio \in Seq(F)
<1> DEFINE c == IF d.pttRecording
                THEN [d EXCEPT !.capture = Append(d.capture, frame)] ELSE d
<1>1. Good(c, F)
  <2>1. d \in Detector(F)  BY DEF Good
  <2>2. Append(d.capture, frame) \in Seq(F)  BY <2>1 DEF Detector
  <2>3. c \in Detector(F) /\ c.pre = d.pre /\ c.segment = d.segment
    BY <2>1, <2>2 DEF Detector
  <2>4. QED  BY <2>3 DEF Good, Fits
<1> HIDE DEF c
<1>2. CASE c.speaking
  <2>1. Push(d, frame) = HearSpeaking(c, frame)  BY <1>2 DEF Push, c
  <2>2. QED  BY <1>1, <2>1, HearSpeakingGood
<1>3. CASE ~c.speaking
  <2>1. Push(d, frame) = HearIdle(c, frame)  BY <1>3 DEF Push, c
  <2>2. HearIdle(c, frame).audio = <<>>  BY DEF HearIdle, Outcome, Quiet
  <2>3. QED  BY <1>1, <2>1, <2>2, HearIdleGood
<1>4. QED  BY <1>2, <1>3

LEMMA FlushPttGood ==
  ASSUME NEW F, NEW d, Good(d, F)
  PROVE  /\ Good(FlushPtt(d).det, F)
         /\ FlushPtt(d).audio \in Seq(F)
<1> DEFINE stopped == [d EXCEPT !.pttRecording = FALSE]
           unsplit == [stopped EXCEPT !.subsegmentsSent = FALSE]
           cut == [TakeSegment(unsplit) EXCEPT !.capture = <<>>]
           idle == [TakeSegment(stopped) EXCEPT !.speaking = FALSE]
<1>1. d \in Detector(F)  BY DEF Good
<1>2. <<>> \in Seq(F)  OBVIOUS
<1>3. stopped \in Detector(F)  BY <1>1 DEF Detector
<1>4. unsplit \in Detector(F)  BY <1>3 DEF Detector
<1>5. Good(TakeSegment(unsplit), F) /\ Good(TakeSegment(stopped), F)
  BY <1>3, <1>4, TakeSegmentGood
<1>6. Good(cut, F)
  <2>1. cut \in Detector(F) /\ cut.pre = TakeSegment(unsplit).pre
        /\ cut.segment = TakeSegment(unsplit).segment
    BY <1>2, <1>5 DEF Good, Detector
  <2>2. QED  BY <1>5, <2>1 DEF Good, Fits
<1>7. Good(idle, F)
  <2>1. idle \in Detector(F) /\ idle.pre = TakeSegment(stopped).pre
        /\ idle.segment = TakeSegment(stopped).segment
    BY <1>5 DEF Good, Detector
  <2>2. QED  BY <1>5, <2>1 DEF Good, Fits
<1>8. Good(Reset(stopped), F)  BY <1>3, ResetGood
<1>9. d.segment \in Seq(F) /\ d.capture \in Seq(F) /\ d.pre \in Seq(F)
  BY <1>1 DEF Detector
<1> HIDE DEF stopped, unsplit, cut, idle
<1>10. FlushPtt(d) \in {Outcome(cut, "ended", d.segment), Quiet(Reset(stopped)),
                        Outcome(Reset(stopped), "ended", d.capture),
                        Outcome(idle, "ended", d.segment),
                        Outcome(Reset(stopped), "ended", d.pre), Quiet(d)}
  BY DEF FlushPtt, stopped, unsplit, cut, idle
<1>11. FlushPtt(d).det \in {cut, Reset(stopped), idle, d}
  BY <1>10 DEF Outcome, Quiet
<1>12. FlushPtt(d).audio \in {d.segment, d.capture, d.pre, <<>>}
  BY <1>10 DEF Outcome, Quiet
<1>13. QED  BY <1>2, <1>6, <1>7, <1>8, <1>9, <1>11, <1>12

-----------------------------------------------------------------------------
(* The worker and what shares the channel with it.                         *)

Inv == TypeOK /\ SegmentFits

LEMMA FreshWorkerGood ==
  ASSUME NEW g \in BOOLEAN
  PROVE  FreshWorker(g) \in WorkerType /\ Fits(FreshWorker(g).det)
<1> DEFINE det == [NewDetector EXCEPT !.pttRecording = Ptt /\ g]
<1>1. <<>> \in Seq(Chunks) /\ Len(<<>>) = 0  OBVIOUS
<1>2. PreFrames \in Nat /\ MaxSegment \in Nat /\ MaxSegment # 0
  BY DetectorAssumption
<1>3. NewDetector \in Detector(Chunks)  BY <1>1 DEF NewDetector, Detector
<1>4. (Ptt /\ g) \in BOOLEAN  BY DEF Ptt
<1>5. det \in Detector(Chunks)  BY <1>3, <1>4 DEF Detector
<1>6. det.pre = <<>> /\ det.segment = <<>>  BY DEF NewDetector
<1>7. Fits(det)  BY <1>1, <1>2, <1>6 DEF Fits
<1> HIDE DEF det
<1>8. FreshWorker(g) = [pc |-> "look", det |-> det, was |-> g,
                        now |-> FALSE, split |-> FALSE]
  BY DEF FreshWorker, det
<1>9. QED  BY <1>5, <1>7, <1>8 DEF WorkerType

LEMMA Start == Init => Inv
<1> SUFFICES ASSUME Init PROVE Inv  OBVIOUS
<1>1. <<>> \in Seq(Chunks) /\ Len(<<>>) = 0  OBVIOUS
<1>2. 0 \in 0 .. MaxChunks /\ 0 <= Capacity  BY AudioAssumption
<1>3. (~Ptt) \in BOOLEAN  BY DEF Ptt
<1>4. worker \in WorkerType /\ Fits(worker.det)
  BY <1>3, FreshWorkerGood DEF Init
<1>5. gate \in BOOLEAN  BY <1>3 DEF Init
<1>6. QED
  BY <1>1, <1>2, <1>4, <1>5 DEF Inv, TypeOK, SegmentFits, Init, UserSteps

(* A pass ends with a detector that is still good. *)
LEMMA NextPassGood ==
  ASSUME NEW det, Good(det, Chunks), NEW was \in BOOLEAN, NextPass(det, was)
  PROVE  worker' \in WorkerType /\ Fits(worker'.det)
BY DEF NextPass, WorkerType, Good

LEMMA DeviceStep == Inv /\ DeviceCallback => Inv'
<1> SUFFICES ASSUME Inv, DeviceCallback PROVE Inv'  OBVIOUS
<1> USE DEF Inv, TypeOK
<1>1. mic' \in 0 .. MaxChunks /\ mic' \in 1 .. MaxChunks
  BY AudioAssumption DEF DeviceCallback
<1>2. PICK voice \in BOOLEAN :
        \/ /\ Len(channel) < Capacity
           /\ channel' = Append(channel, [n |-> mic', voice |-> voice])
        \/ channel' = channel
  BY DEF DeviceCallback
<1>3. [n |-> mic', voice |-> voice] \in Chunks  BY <1>1 DEF Chunks
<1>4. channel' \in Seq(Chunks) /\ Len(channel') <= Capacity
  BY <1>2, <1>3, AudioAssumption
<1>5. UNCHANGED <<mode, joining, gate, active, splits, request, callbacks, answer,
                  receiver, user, worker>>
  BY DEF DeviceCallback, startVars, gateVars, flushVars
<1>6. QED
  BY <1>1, <1>4, <1>5 DEF SegmentFits, WorkerType, Detector, Chunks, Fits

LEMMA WorkerStep == Inv /\ Worker => Inv'
<1> SUFFICES ASSUME Inv, Worker PROVE Inv'  OBVIOUS
<1> USE DEF Inv, TypeOK
<1>1. /\ worker \in WorkerType /\ Good(worker.det, Chunks)
      /\ worker.was \in BOOLEAN /\ worker.now \in BOOLEAN
  BY DEF WorkerType, Good, SegmentFits
<1>2. ASSUME channel # <<>>
      PROVE  /\ Head(channel) \in Chunks /\ Tail(channel) \in Seq(Chunks)
             /\ Len(Tail(channel)) <= Capacity
  BY <1>2, AudioAssumption
<1> DEFINE Rest == UNCHANGED <<mode, joining, mic, gate, active, splits, callbacks,
                               receiver, user>>
<1>3. ASSUME worker' \in WorkerType, Fits(worker'.det), Rest,
             UNCHANGED <<channel, request, answer>>
      PROVE  Inv'
  BY <1>3 DEF SegmentFits
<1>4. CASE Look
  <2>1. worker' \in WorkerType /\ worker'.det.pre = worker.det.pre
        /\ worker'.det.segment = worker.det.segment
    BY <1>1, <1>4 DEF Look, WorkerType, Detector
  <2>2. QED  BY <1>1, <1>3, <1>4, <2>1
    DEF Look, startVars, gateVars, flushVars, Good, Fits
<1>5. CASE BeginFlush
  <2>1. worker' \in WorkerType /\ worker'.det.pre = worker.det.pre
        /\ worker'.det.segment = worker.det.segment
    BY <1>1, <1>5 DEF BeginFlush, WorkerType, Detector
  <2>2. Fits(worker'.det)  BY <1>1, <2>1 DEF Good, Fits
  <2>3. QED  BY <1>5, <2>1, <2>2
    DEF BeginFlush, startVars, gateVars, SegmentFits
<1>6. CASE DrainChunk
  <2>1. channel # <<>>  BY <1>6 DEF DrainChunk
  <2>2. Good(Push(worker.det, Head(channel)).det, Chunks)
    BY <1>1, <1>2, <2>1, PushGood
  <2>3. worker' = [worker EXCEPT !.det = Push(worker.det, Head(channel)).det]
    BY <1>6 DEF DrainChunk
  <2>4. worker' \in WorkerType /\ Fits(worker'.det)
    BY <1>1, <2>2, <2>3 DEF WorkerType, Good
  <2>5. QED  BY <1>2, <1>6, <2>1, <2>4
    DEF DrainChunk, startVars, gateVars, flushVars, SegmentFits
<1>7. CASE FlushTake
  <2> DEFINE out == FlushPtt(worker.det)
             det == [out.det EXCEPT !.pttRecording = FALSE]
  <2>1. Good(out.det, Chunks) /\ out.audio \in Seq(Chunks)
    BY <1>1, FlushPttGood
  <2>2. /\ NextPass(det, worker.now)
        /\ answer' = answer \/ answer' = <<out.audio>>
        /\ request' = request /\ channel' = channel /\ Rest
    BY <1>7 DEF FlushTake, Flush, startVars, gateVars
  <2> HIDE DEF out
  <2>3. det \in Detector(Chunks) /\ det.pre = out.det.pre
        /\ det.segment = out.det.segment
    BY <2>1 DEF Good, Detector
  <2>4. Good(det, Chunks)  BY <2>1, <2>3 DEF Good, Fits
  <2>5. worker' \in WorkerType /\ Fits(worker'.det)
    BY <1>1, <2>2, <2>4, NextPassGood
  <2>6. answer' = <<>> \/ (Len(answer') = 1 /\ answer'[1] \in Seq(Chunks))
    BY <2>1, <2>2
  <2>7. QED  BY <2>2, <2>5, <2>6 DEF SegmentFits
<1>8. CASE FollowGate
  <2> DEFINE det == IF Opens THEN Reset(worker.det) ELSE worker.det
             told == [det EXCEPT !.pttRecording = Ptt /\ worker.now]
  <2>1. Good(det, Chunks)
    BY <1>1, ResetGood DEF Good
  <2>2. worker' = [worker EXCEPT
                     !.pc = "read", !.was = IF Ptt THEN worker.now ELSE worker.was,
                     !.det = told]
    BY <1>8 DEF FollowGate
  <2> HIDE DEF det
  <2>3. told \in Detector(Chunks) /\ told.pre = det.pre /\ told.segment = det.segment
    BY <1>1, <2>1 DEF Good, Detector
  <2>4. Fits(told)  BY <2>1, <2>3 DEF Good, Fits
  <2> HIDE DEF told
  <2>5. worker' \in WorkerType /\ Fits(worker'.det)
    BY <1>1, <2>2, <2>3, <2>4 DEF WorkerType
  <2>6. QED  BY <1>3, <1>8, <2>5 DEF FollowGate, startVars, gateVars, flushVars
<1>9. CASE NothingToRead
  <2>1. worker' \in WorkerType /\ Fits(worker'.det)
    BY <1>1, <1>9, NextPassGood DEF NothingToRead
  <2>2. QED  BY <1>3, <1>9, <2>1 DEF NothingToRead, startVars, gateVars, flushVars
<1>10. CASE DropChunk
  <2>1. worker' \in WorkerType /\ Fits(worker'.det)
    BY <1>1, <1>10, NextPassGood DEF DropChunk
  <2>2. QED  BY <1>2, <1>10, <2>1
    DEF DropChunk, startVars, gateVars, flushVars, SegmentFits
<1>11. CASE PushChunk
  <2>1. channel # <<>>  BY <1>11 DEF PushChunk
  <2>2. Good(Push(worker.det, Head(channel)).det, Chunks)
    BY <1>1, <1>2, <2>1, PushGood
  <2>3. worker' \in WorkerType /\ Fits(worker'.det)
    BY <1>1, <1>11, <2>2, NextPassGood DEF PushChunk
  <2>4. QED  BY <1>2, <1>11, <2>1, <2>3
    DEF PushChunk, startVars, gateVars, flushVars, SegmentFits
<1>12. QED
  BY <1>4, <1>5, <1>6, <1>7, <1>8, <1>9, <1>10, <1>11 DEF Worker

(* The threads of the user never touch the detector, except that a restart  *)
(* puts a new one in its place.                                             *)
LEMMA UserStep == Inv /\ User => Inv'
<1> SUFFICES ASSUME Inv, User PROVE Inv'  OBVIOUS
<1> USE DEF Inv, TypeOK, SegmentFits, UserSteps, Waits, startVars, gateVars, flushVars
<1>1. CASE OpenGate  BY <1>1 DEF OpenGate
<1>2. CASE ResumeCallbacks  BY <1>2 DEF ResumeCallbacks
<1>3. CASE ChooseSplitting  BY <1>3 DEF ChooseSplitting
<1>4. CASE PauseCallbacks  BY <1>4 DEF PauseCallbacks
<1>5. CASE CloseGate  BY <1>5 DEF CloseGate, Borrow
<1>6. CASE RequestFlush  BY <1>6 DEF RequestFlush, Borrow
<1>7. CASE ReceiveAnswer  BY <1>7 DEF ReceiveAnswer, Restore
<1>8. CASE Timeout  BY <1>8 DEF Timeout, Restore
<1>9. CASE NoReceiver  BY <1>9 DEF NoReceiver
<1>10. CASE ReleaseDone  BY <1>10 DEF ReleaseDone
<1>11. CASE AbortTake  BY <1>11 DEF AbortTake
<1>12. CASE RestartPipeline
  <2>1. <<>> \in Seq(Chunks) /\ Len(<<>>) = 0  OBVIOUS
  <2>2. Capacity \in Nat  BY AudioAssumption
  <2>3. worker' \in WorkerType /\ Fits(worker'.det)
    <3>1. (~Ptt) \in BOOLEAN  BY DEF Ptt
    <3>2. worker' = FreshWorker(~Ptt)  BY <1>12 DEF RestartPipeline, StartPipeline
    <3>3. QED  BY <3>1, <3>2, FreshWorkerGood
  <2>4. /\ channel' = <<>> /\ (answer' = answer \/ answer' = <<>>) /\ receiver' = "here"
        /\ request' \in BOOLEAN /\ active' \in BOOLEAN /\ gate' \in BOOLEAN
        /\ splits' \in BOOLEAN /\ callbacks' \in BOOLEAN /\ user' \in UserSteps
        /\ mode' = mode /\ mic' = mic
    BY <1>12 DEF RestartPipeline, StopPipeline, StartPipeline, Ptt
  <2>5. Len(joining') = 1 /\ joining'[1] \in Seq(Chunks)
    BY <1>12, <2>1 DEF RestartPipeline, WorkerType, Detector
  <2> QED
    BY <2>1, <2>2, <2>3, <2>4, <2>5
<1>13. CASE RestartDone  BY <1>13 DEF RestartDone
<1>14. QED
  BY <1>1, <1>2, <1>3, <1>4, <1>5, <1>6, <1>7, <1>8, <1>9, <1>10, <1>11, <1>12,
     <1>13 DEF User

LEMMA CaptureInvariant == Spec => []Inv
<1>1. Inv /\ [Next]_vars => Inv'
  <2>1. Inv /\ UNCHANGED vars => Inv'
    BY DEF Inv, TypeOK, SegmentFits, vars, Chunks, WorkerType, Detector, Fits
  <2>2. QED  BY <2>1, DeviceStep, WorkerStep, UserStep DEF Next
<1>2. QED  BY Start, <1>1, PTL DEF Spec

(* Every variable keeps its type; the channel of chunks never holds more    *)
(* than its capacity and at most one flushed take waits for a release.      *)
THEOREM CaptureTypeCorrect == Spec => []TypeOK
<1>1. Inv => TypeOK  BY DEF Inv
<1>2. QED  BY <1>1, CaptureInvariant, PTL

(* However long the voice goes on and whatever the timing of press, release *)
(* and restart, the detector's buffers stay within their limits.            *)
THEOREM SegmentsFit == Spec => []SegmentFits
<1>1. Inv => SegmentFits  BY DEF Inv
<1>2. QED  BY <1>1, CaptureInvariant, PTL

-----------------------------------------------------------------------------
(* Audio as the set of its chunks.                                         *)

LEMMA NoChunks == ChunksOf(<<>>) = {}
BY DEF ChunksOf

LEMMA AppendChunks ==
  ASSUME NEW audio \in Seq(Chunks), NEW frame \in Chunks
  PROVE  ChunksOf(Append(audio, frame)) = ChunksOf(audio) \cup {frame.n}
<1> DEFINE all == Append(audio, frame)
           n == Len(audio)
<1>1. /\ n \in Nat /\ Len(all) = n + 1 /\ all[n + 1] = frame
      /\ \A i \in 1 .. n : all[i] = audio[i]
  OBVIOUS
<1> HIDE DEF all
<1>2. ASSUME NEW i \in 1 .. n
      PROVE  all[i].n \in ChunksOf(audio) /\ audio[i].n \in ChunksOf(all)
  <2>1. i \in 1 .. Len(all) /\ all[i] = audio[i]
    BY <1>1
  <2> QED
    BY <2>1 DEF ChunksOf
<1>3. frame.n \in ChunksOf(all)
  <2>1. n + 1 \in 1 .. Len(all)
    BY <1>1
  <2> QED
    BY <1>1, <2>1 DEF ChunksOf
<1>4. ASSUME NEW x \in ChunksOf(all)
      PROVE  x \in ChunksOf(audio) \cup {frame.n}
  <2>1. PICK i \in 1 .. Len(all) : x = all[i].n
    BY DEF ChunksOf
  <2>2. i \in 1 .. n \/ i = n + 1
    BY <1>1
  <2> QED
    BY <1>1, <1>2, <2>1, <2>2
<1>5. ASSUME NEW x \in ChunksOf(audio)
      PROVE  x \in ChunksOf(all)
  BY <1>2 DEF ChunksOf
<1> QED
  BY <1>3, <1>4, <1>5 DEF all

LEMMA TailChunks ==
  ASSUME NEW audio \in Seq(Chunks), audio # <<>>
  PROVE  ChunksOf(Tail(audio)) \subseteq ChunksOf(audio)
<1> DEFINE rest == Tail(audio)
<1>1. \A i \in 1 .. Len(rest) : rest[i] = audio[i + 1] /\ i + 1 \in 1 .. Len(audio)
  OBVIOUS
<1> HIDE DEF rest
<1>2. ASSUME NEW x \in ChunksOf(rest)
      PROVE  x \in ChunksOf(audio)
  <2>1. PICK i \in 1 .. Len(rest) : x = rest[i].n
    BY DEF ChunksOf
  <2>2. x = audio[i + 1].n /\ i + 1 \in 1 .. Len(audio)
    BY <1>1, <2>1
  <2> QED
    BY <2>2 DEF ChunksOf
<1> QED
  BY <1>2 DEF rest

(* The audio the detector may still bring, and all of its audio. *)
Deliverable(d) == ChunksOf(d.pre) \cup ChunksOf(d.segment)
                    \cup (IF d.subsegmentsSent THEN {} ELSE ChunksOf(d.capture))
Heard(d) == ChunksOf(d.pre) \cup ChunksOf(d.segment) \cup ChunksOf(d.capture)

LEMMA RememberChunks ==
  ASSUME NEW pre \in Seq(Chunks), NEW frame \in Chunks
  PROVE  ChunksOf(Remember(pre, frame)) \subseteq ChunksOf(pre) \cup {frame.n}
<1>1. Append(pre, frame) \in Seq(Chunks) /\ Append(pre, frame) # <<>>
  OBVIOUS
<1> QED
  BY <1>1, AppendChunks, TailChunks DEF Remember

LEMMA ResetChunks ==
  ASSUME NEW d \in Detector(Chunks)
  PROVE  /\ Heard(Reset(d)) = {} /\ Deliverable(Reset(d)) = {}
         /\ Reset(d).pttRecording = d.pttRecording /\ Reset(d).capture = <<>>
<1>1. /\ Reset(d).pre = <<>> /\ Reset(d).segment = <<>> /\ Reset(d).capture = <<>>
      /\ Reset(d).pttRecording = d.pttRecording
  BY DEF Reset, Detector
<1> QED
  BY <1>1, NoChunks DEF Heard, Deliverable

(* What a call makes of the audio of the detector: nothing comes from       *)
(* anywhere else than from there and from the frame, and nothing that was    *)
(* brought can be brought again.                                           *)
HearsOneChunk(d, frame, out) ==
  /\ Heard(out.det) \subseteq Heard(d) \cup {frame.n}
  /\ Deliverable(out.det) \subseteq Deliverable(d) \cup {frame.n}
  /\ ChunksOf(out.audio) \subseteq Deliverable(d) \cup {frame.n}
  /\ out.det.pttRecording = d.pttRecording
  /\ out.event = "ended" /\ (d.pttRecording \/ d.capture = <<>>)
       => Deliverable(out.det) = {}
  /\ d.capture = <<>> => out.det.capture = <<>>

LEMMA HearIdleChunks ==
  ASSUME NEW d \in Detector(Chunks), NEW frame \in Chunks
  PROVE  HearsOneChunk(d, frame, HearIdle(d, frame))
<1> DEFINE pre == Remember(d.pre, frame)
           out == HearIdle(d, frame)
<1>1. d.pre \in Seq(Chunks) /\ d.segment \in Seq(Chunks)
  BY DEF Detector
<1>2. pre \in Seq(Chunks)
  <2>1. Append(d.pre, frame) \in Seq(Chunks) /\ Append(d.pre, frame) # <<>>
    BY <1>1
  <2> QED
    BY <2>1 DEF Remember
<1>3. ChunksOf(pre) \subseteq ChunksOf(d.pre) \cup {frame.n}
  BY <1>1, RememberChunks
<1>4. ChunksOf(Append(pre, frame)) = ChunksOf(pre) \cup {frame.n}
  BY <1>2, AppendChunks
<1> HIDE DEF pre
<1>5. /\ out.event # "ended" /\ out.audio = <<>>
      /\ out.det.pre = pre /\ out.det.capture = d.capture
      /\ out.det.subsegmentsSent = d.subsegmentsSent
      /\ out.det.pttRecording = d.pttRecording
      /\ out.det.segment = d.segment \/ out.det.segment = Append(pre, frame)
  BY DEF HearIdle, Outcome, Quiet, Detector, pre
<1> HIDE DEF out
<1> QED
  BY <1>3, <1>4, <1>5, NoChunks DEF HearsOneChunk, Heard, Deliverable, out

LEMMA HearSpeakingChunks ==
  ASSUME NEW d \in Detector(Chunks), NEW frame \in Chunks
  PROVE  HearsOneChunk(d, frame, HearSpeaking(d, frame))
<1> DEFINE all == Append(d.segment, frame)
           s == [d EXCEPT !.segment = all,
                          !.silence = IF frame.voice THEN 0 ELSE d.silence + 1]
           taken == [TakeSegment(s) EXCEPT !.speaking = FALSE]
           out == HearSpeaking(d, frame)
<1>1. ChunksOf(all) = ChunksOf(d.segment) \cup {frame.n}
  BY AppendChunks DEF Detector
<1>2. all \in Seq(Chunks)
  BY DEF Detector
<1> HIDE DEF all
<1>3. /\ s.segment = all /\ s.pre = d.pre /\ s.capture = d.capture
      /\ s.subsegmentsSent = d.subsegmentsSent /\ s.pttRecording = d.pttRecording
  BY DEF Detector
<1>4. s \in Detector(Chunks)
  <2>1. (IF frame.voice THEN 0 ELSE d.silence + 1) \in Nat
    BY DEF Detector
  <2> QED
    BY <1>2, <2>1 DEF Detector
<1>5. \A t \in {TakeSegment(s), taken} :
        LET m == MarkDelivered(t)
        IN /\ m.segment = <<>> /\ m.pre = <<>> /\ m.capture = d.capture
           /\ m.subsegmentsSent = (d.subsegmentsSent \/ d.pttRecording)
           /\ m.pttRecording = d.pttRecording
  BY <1>3, <1>4 DEF TakeSegment, MarkDelivered, Detector
<1>6. /\ Heard(Reset(s)) = {} /\ Deliverable(Reset(s)) = {}
      /\ Reset(s).pttRecording = d.pttRecording /\ Reset(s).capture = <<>>
  BY <1>3, <1>4, ResetChunks
<1> HIDE DEF s, taken
<1>7. \/ out = Outcome(MarkDelivered(taken), "ended", s.segment)
      \/ out = Quiet(Reset(s))
      \/ out = Outcome(MarkDelivered(TakeSegment(s)), "ended", s.segment)
      \/ out = Quiet(s)
  BY DEF HearSpeaking, s, taken, all
<1> HIDE DEF out
<1>8. ASSUME NEW t \in {TakeSegment(s), taken},
             out = Outcome(MarkDelivered(t), "ended", s.segment)
      PROVE  HearsOneChunk(d, frame, out)
  <2> DEFINE m == MarkDelivered(t)
  <2>1. /\ m.segment = <<>> /\ m.pre = <<>> /\ m.capture = d.capture
        /\ m.subsegmentsSent = (d.subsegmentsSent \/ d.pttRecording)
        /\ m.pttRecording = d.pttRecording
    BY <1>5
  <2>2. out.det = m /\ out.audio = all
    BY <1>3, <1>8 DEF Outcome
  <2> HIDE DEF m
  <2>3. d.subsegmentsSent \in BOOLEAN /\ d.pttRecording \in BOOLEAN
    BY DEF Detector
  <2>4. Deliverable(m) \subseteq Deliverable(d)
    BY <2>1, <2>3, NoChunks DEF Deliverable
  <2>5. d.pttRecording \/ d.capture = <<>> => Deliverable(m) = {}
    BY <2>1, <2>3, NoChunks DEF Deliverable
  <2>6. Heard(m) \subseteq Heard(d)
    BY <2>1, NoChunks DEF Heard
  <2>7. ChunksOf(all) \subseteq Deliverable(d) \cup {frame.n}
    BY <1>1 DEF Deliverable
  <2> QED
    BY <2>1, <2>2, <2>4, <2>5, <2>6, <2>7 DEF HearsOneChunk
<1>9. ASSUME out = Quiet(Reset(s))
      PROVE  HearsOneChunk(d, frame, out)
  <2>1. out.det = Reset(s) /\ out.audio = <<>> /\ out.event = "none"
    BY <1>9 DEF Quiet, Outcome
  <2> QED
    BY <1>6, <2>1, NoChunks DEF HearsOneChunk
<1>10. ASSUME out = Quiet(s)
       PROVE  HearsOneChunk(d, frame, out)
  <2>1. out.det = s /\ out.audio = <<>> /\ out.event = "none"
    BY <1>10 DEF Quiet, Outcome
  <2>2. /\ Heard(s) \subseteq Heard(d) \cup {frame.n}
        /\ Deliverable(s) \subseteq Deliverable(d) \cup {frame.n}
    BY <1>1, <1>3 DEF Heard, Deliverable
  <2> QED
    BY <1>3, <2>1, <2>2, NoChunks DEF HearsOneChunk
<1> QED
  BY <1>7, <1>8, <1>9, <1>10 DEF out

LEMMA PushHears ==
  ASSUME NEW d \in Detector(Chunks), NEW frame \in Chunks
  PROVE  LET out == Push(d, frame)
         IN /\ Heard(out.det) \subseteq Heard(d) \cup {frame.n}
            /\ Deliverable(out.det) \subseteq Deliverable(d) \cup {frame.n}
            /\ ChunksOf(out.audio) \subseteq Deliverable(d) \cup {frame.n}
            /\ out.det.pttRecording = d.pttRecording
            /\ out.event = "ended" /\ (d.pttRecording \/ d.capture = <<>>)
                 => Deliverable(out.det) = {}
            /\ ~d.pttRecording /\ d.capture = <<>> => out.det.capture = <<>>
<1> DEFINE c == IF d.pttRecording
                THEN [d EXCEPT !.capture = Append(d.capture, frame)] ELSE d
           out == Push(d, frame)
<1>1. Append(d.capture, frame) \in Seq(Chunks)
      /\ ChunksOf(Append(d.capture, frame)) = ChunksOf(d.capture) \cup {frame.n}
  BY AppendChunks DEF Detector
<1>2. /\ c \in Detector(Chunks) /\ c.pre = d.pre /\ c.segment = d.segment
      /\ c.subsegmentsSent = d.subsegmentsSent /\ c.pttRecording = d.pttRecording
      /\ c.capture = d.capture
         \/ (d.pttRecording /\ c.capture = Append(d.capture, frame))
  BY <1>1 DEF Detector
<1>3. /\ Heard(c) \subseteq Heard(d) \cup {frame.n}
      /\ Deliverable(c) \subseteq Deliverable(d) \cup {frame.n}
  BY <1>1, <1>2 DEF Heard, Deliverable
<1> HIDE DEF c
<1>4. out = HearSpeaking(c, frame) \/ out = HearIdle(c, frame)
  BY DEF Push, c
<1> HIDE DEF out
<1>5. HearsOneChunk(c, frame, out)
  BY <1>2, <1>4, HearIdleChunks, HearSpeakingChunks
<1>6. QED
  BY <1>2, <1>3, <1>5 DEF HearsOneChunk, out

LEMMA FlushHears ==
  ASSUME NEW d \in Detector(Chunks)
  PROVE  /\ Heard(FlushPtt(d).det) \subseteq Heard(d)
         /\ ChunksOf(FlushPtt(d).audio) \subseteq Deliverable(d)
<1> DEFINE stopped == [d EXCEPT !.pttRecording = FALSE]
           unsplit == [stopped EXCEPT !.subsegmentsSent = FALSE]
           cut == [TakeSegment(unsplit) EXCEPT !.capture = <<>>]
           idle == [TakeSegment(stopped) EXCEPT !.speaking = FALSE]
           out == FlushPtt(d)
<1>1. stopped \in Detector(Chunks)
  BY DEF Detector
<1>2. Heard(Reset(stopped)) = {}
  BY <1>1, ResetChunks
<1>3. /\ cut.pre = <<>> /\ cut.segment = <<>> /\ cut.capture = <<>>
      /\ idle.pre = <<>> /\ idle.segment = <<>> /\ idle.capture = d.capture
  BY DEF TakeSegment, Detector
<1>4. Heard(cut) \subseteq Heard(d) /\ Heard(idle) \subseteq Heard(d)
  BY <1>3, NoChunks DEF Heard
<1> HIDE DEF stopped, cut, idle
<1>5. \/ out \in {Outcome(cut, "ended", d.segment), Outcome(idle, "ended", d.segment),
                  Outcome(Reset(stopped), "ended", d.pre),
                  Quiet(Reset(stopped)), Quiet(d)}
      \/ ~d.subsegmentsSent /\ out = Outcome(Reset(stopped), "ended", d.capture)
  BY DEF FlushPtt, stopped, cut, idle
<1> HIDE DEF out
<1>6. out.det \in {cut, idle, Reset(stopped), d}
  BY <1>5 DEF Outcome, Quiet
<1>7. \/ out.audio \in {d.segment, d.pre, <<>>}
      \/ ~d.subsegmentsSent /\ out.audio = d.capture
  BY <1>5 DEF Outcome, Quiet
<1>8. ChunksOf(out.audio) \subseteq Deliverable(d)
  BY <1>7, NoChunks DEF Deliverable
<1> QED
  BY <1>2, <1>4, <1>6, <1>8 DEF out

-----------------------------------------------------------------------------
(* Whose audio is where, when presses and releases do not straddle a pass   *)
(* of the worker and a release waits long enough for it (~Torn, ~Slow).      *)

Outcomes == {"open", "queued", "silent", "refused", "empty", "deaf", "aborted", "cut"}
Takes == [from : Nat, seen : BOOLEAN, spoken : SUBSET Nat, ended : Nat,
          outcome : Outcomes]
Given == [take : Nat, chunks : SUBSET Nat]

(* The take that was begun last. *)
Last == takes[Len(takes)]

HistoryTypes ==
  /\ takes \in Seq(Takes) /\ got \in Seq(Given)
  /\ \A i \in 1 .. Len(got) : got[i].take \in 1 .. Len(takes)

(* Nothing but the last take goes on, and an open gate is its gate. *)
TakeInv ==
  /\ (~Ptt \/ user # "rest") => Len(takes) > 0 /\ Last.ended = 0
  /\ Ptt => (gate <=> active)
  /\ Ptt /\ active => user \in {"opened", "resumed", "held", "paused"}

(* Without push-to-talk there is one take, and nobody flushes. *)
ContinuousInv ==
  ~Ptt => /\ user = "rest" /\ gate /\ ~request /\ answer = <<>>
          /\ worker.was /\ worker.pc # "flush"
          /\ ~worker.det.pttRecording /\ worker.det.capture = <<>>

(* The pass of the worker, and what the user's threads know of it. *)
PassInv ==
  /\ Ptt /\ worker.pc = "decide" => worker.now = gate
  /\ worker.pc = "read" => /\ Ptt => worker.was = worker.now
                           /\ worker.det.pttRecording = (Ptt /\ worker.now)
  /\ worker.pc = "flush" => ~worker.now /\ ~gate /\ ~request
  /\ user \in {"opened", "resumed", "closed"} => worker.pc \in {"look", "read"} /\ ~request
  /\ user \in {"opened", "resumed"} => ~worker.was

(* A take whose gate is closed again is flushed at once, for the release    *)
(* that waits or, where the receiver is gone, for nobody.                  *)
FlushInv ==
  /\ request => ~gate /\ Ptt
  /\ request \/ worker.pc = "flush" =>
       \/ user = "wait"
       \/ receiver \in {"lost", "stale"} /\ user \in {"orphan", "unheard", "done", "rest"}
  /\ user = "wait" <=> receiver = "lent"
  /\ Ptt /\ worker.was /\ ~gate => user = "closed" \/ request \/ worker.pc = "flush"
  /\ answer # <<>> => /\ user = "wait" \/ (user = "orphan" /\ receiver = "here")
                      /\ ~request /\ worker.pc # "flush" /\ ~worker.was

(* While a stopped worker is joined the callbacks are off. *)
JoinInv == joining # <<>> => ~callbacks

(* The worker that saw the last take begin is still at it. *)
SeenInv ==
  /\ worker.was => Len(takes) > 0 /\ Last.seen
  /\ Ptt /\ Len(takes) > 0 /\ Last.seen
       /\ (gate \/ user = "closed"
           \/ (user = "wait" /\ (request \/ worker.pc = "flush")))
     => worker.was

(* Audio moves in the order it was spoken: what was given to the queue and   *)
(* what the detector has heard is older than what waits on the channel.     *)
ChannelInv ==
  /\ \A i \in 1 .. Len(channel) :
       /\ channel[i].n <= mic
       /\ Len(takes) > 0 => channel[i].n > Last.from
       /\ \A j \in 1 .. Len(channel) : i < j => channel[i].n < channel[j].n
       /\ \A k \in 1 .. Len(got) : \A x \in got[k].chunks : x < channel[i].n
       /\ \A x \in Heard(worker.det) : x < channel[i].n
  /\ \A k \in 1 .. Len(got) : \A x \in got[k].chunks : x <= mic
  /\ \A x \in Heard(worker.det) : x <= mic
  /\ Len(takes) > 0 => Last.from <= mic

(* What the detector may bring of a take it was reset for is new. *)
DetectorInv ==
  worker.was => \A x \in Deliverable(worker.det) :
                  /\ x > Last.from
                  /\ \A k \in 1 .. Len(got) : \A y \in got[k].chunks : y < x

(* So is what waits for a release. *)
AnswerInv ==
  answer # <<>> => \A x \in ChunksOf(answer[1]) :
    /\ x <= mic
    /\ \A i \in 1 .. Len(channel) : x < channel[i].n
    /\ Last.seen => /\ x > Last.from
                    /\ \A k \in 1 .. Len(got) : \A y \in got[k].chunks : y < x

(* A take that no pass has seen yet has brought nothing. *)
UnseenInv ==
  Ptt /\ gate /\ ~Last.seen => \A k \in 1 .. Len(got) : got[k].take # Len(takes)

ControlInv == TakeInv /\ ContinuousInv /\ PassInv /\ FlushInv /\ SeenInv /\ JoinInv
OrderInv ==
  ChannelInv /\ DetectorInv /\ UnseenInv /\ AnswerInv /\ SpokenOrder /\ OwnTake
AudioInv == Inv /\ HistoryTypes /\ ControlInv /\ OrderInv

-----------------------------------------------------------------------------
(* The takes: what a step leaves of them.                                  *)

SameTakes ==
  /\ takes' \in Seq(Takes) /\ Len(takes') = Len(takes)
  /\ \A k \in 1 .. Len(takes) : /\ takes'[k].from = takes[k].from
                                /\ takes'[k].seen = takes[k].seen
                                /\ takes'[k].ended = takes[k].ended

LEMMA TakesUnchanged ==
  ASSUME HistoryTypes, takes' = takes
  PROVE  SameTakes
BY DEF HistoryTypes, SameTakes

LEMMA TakeEnds ==
  ASSUME HistoryTypes, NEW outcome \in Outcomes, EndTake(outcome), Len(takes) > 0
  PROVE  SameTakes
<1> DEFINE n == Len(takes)
           r == [takes[n] EXCEPT !.outcome = outcome]
<1>1. n \in 1 .. Len(takes) /\ takes \in Seq(Takes)
  BY DEF HistoryTypes
<1>2. takes[n] \in Takes
  BY <1>1
<1>3. r \in Takes /\ r.from = takes[n].from /\ r.seen = takes[n].seen
      /\ r.ended = takes[n].ended
  BY <1>2 DEF Takes
<1>4. takes' = takes \/ takes' = [takes EXCEPT ![n] = r]
  BY <1>2 DEF EndTake, Takes
<1> HIDE DEF r, n
<1>5. CASE takes' = [takes EXCEPT ![n] = r]
  <2>1. takes' \in Seq(Takes) /\ Len(takes') = Len(takes) /\ takes'[n] = r
        /\ \A k \in 1 .. Len(takes) : k # n => takes'[k] = takes[k]
    BY <1>1, <1>3, <1>5
  <2> QED
    BY <1>1, <1>3, <2>1 DEF SameTakes
<1> QED
  BY <1>4, <1>5, TakesUnchanged

LEMMA LastKept ==
  ASSUME SameTakes, Len(takes) > 0, Len(takes) \in Nat
  PROVE  /\ Len(takes') = Len(takes)
         /\ Last'.from = Last.from /\ Last'.seen = Last.seen /\ Last'.ended = Last.ended
<1>1. Len(takes) \in 1 .. Len(takes)
  OBVIOUS
<1> QED
  BY <1>1 DEF SameTakes, Last

(* What waits on the channel may be read, in its order, or thrown away. *)
Consumed == \/ channel' = channel \/ channel' = <<>>
            \/ channel # <<>> /\ channel' = Tail(channel)

LEMMA WhatIsLeft ==
  ASSUME TypeOK, Consumed
  PROVE  /\ channel' \in Seq(Chunks)
         /\ \E d \in Nat : \A i \in 1 .. Len(channel') :
              i + d \in 1 .. Len(channel) /\ channel'[i] = channel[i + d]
<1>0. channel \in Seq(Chunks)
  BY DEF TypeOK
<1>1. CASE channel' = channel
  <2>1. \A i \in 1 .. Len(channel') :
          i + 0 \in 1 .. Len(channel) /\ channel'[i] = channel[i + 0]
    BY <1>0, <1>1
  <2> QED
    BY <1>0, <1>1, <2>1
<1>2. CASE channel' = <<>>
  <2>1. \A i \in 1 .. Len(channel') :
          i + 0 \in 1 .. Len(channel) /\ channel'[i] = channel[i + 0]
    BY <1>2
  <2>2. channel' \in Seq(Chunks)
    BY <1>2
  <2> QED
    BY <2>1, <2>2
<1>3. CASE channel # <<>> /\ channel' = Tail(channel)
  <2>1. \A i \in 1 .. Len(channel') :
          i + 1 \in 1 .. Len(channel) /\ channel'[i] = channel[i + 1]
    BY <1>0, <1>3
  <2>2. channel' \in Seq(Chunks)
    BY <1>0, <1>3
  <2> QED
    BY <2>1, <2>2
<1> QED
  BY <1>1, <1>2, <1>3 DEF Consumed

(* A step that hands no audio on, and puts none where it could be handed     *)
(* on from, keeps the order.                                               *)
LEMMA OrderKept ==
  ASSUME AudioInv, SameTakes, UNCHANGED <<mode, got, mic>>, Consumed,
         answer' = answer \/ answer' = <<>> \/ AnswerInv', Ptt /\ gate' => gate,
         Heard(worker'.det) \subseteq Heard(worker.det),
         worker'.was => /\ worker.was
                        /\ Deliverable(worker'.det) \subseteq Deliverable(worker.det)
  PROVE  HistoryTypes' /\ OrderInv'
<1> USE DEF AudioInv, Inv
<1>1. PICK d \in Nat : \A i \in 1 .. Len(channel') :
        i + d \in 1 .. Len(channel) /\ channel'[i] = channel[i + d]
  BY WhatIsLeft
<1>2. channel' \in Seq(Chunks) /\ Len(channel') \in Nat
  BY WhatIsLeft
<1>3. takes \in Seq(Takes) /\ Len(takes) \in Nat /\ Len(takes') = Len(takes)
  BY DEF HistoryTypes, SameTakes
<1>4. Len(takes) > 0 => /\ Last'.from = Last.from /\ Last'.seen = Last.seen
  BY <1>3, LastKept
<1>5. HistoryTypes'
  BY DEF HistoryTypes, SameTakes
<1>6. ChannelInv'
  <2> USE DEF OrderInv, ChannelInv
  <2>1. ASSUME NEW i \in 1 .. Len(channel')
        PROVE  /\ channel'[i].n <= mic'
               /\ Len(takes') > 0 => channel'[i].n > Last'.from
               /\ \A k \in 1 .. Len(got') : \A x \in got'[k].chunks : x < channel'[i].n
               /\ \A x \in Heard(worker'.det) : x < channel'[i].n
    BY <1>1, <1>3, <1>4
  <2>2. ASSUME NEW i \in 1 .. Len(channel'), NEW j \in 1 .. Len(channel'), i < j
        PROVE  channel'[i].n < channel'[j].n
    <3>1. /\ i + d \in 1 .. Len(channel) /\ channel'[i] = channel[i + d]
          /\ j + d \in 1 .. Len(channel) /\ channel'[j] = channel[j + d]
          /\ i + d < j + d
      BY <1>1, <1>2, <2>2
    <3> QED
      BY <3>1
  <2>3. /\ \A k \in 1 .. Len(got') : \A x \in got'[k].chunks : x <= mic'
        /\ \A x \in Heard(worker'.det) : x <= mic'
        /\ Len(takes') > 0 => Last'.from <= mic'
    BY <1>3, <1>4
  <2> QED
    BY <2>1, <2>2, <2>3
<1>7. DetectorInv'
  <2>1. worker.was => Len(takes) > 0
    BY DEF ControlInv, SeenInv
  <2> QED
    BY <1>4, <2>1 DEF OrderInv, DetectorInv
<1>8. AnswerInv'
  <2>1. answer # <<>> => Len(takes) > 0
    BY DEF ControlInv, TakeInv, ContinuousInv, FlushInv
  <2>2. ASSUME answer' # <<>>, NEW x \in ChunksOf(answer'[1])
        PROVE  /\ x <= mic' /\ \A i \in 1 .. Len(channel') : x < channel'[i].n
               /\ Last'.seen => /\ x > Last'.from
                                /\ \A k \in 1 .. Len(got') : \A y \in got'[k].chunks : y < x
    BY <1>1, <1>4, <2>1, <2>2 DEF OrderInv, AnswerInv
  <2> QED
    BY <2>2 DEF AnswerInv
<1>9. UnseenInv'
  <2>1. (Ptt' <=> Ptt) /\ (Ptt /\ gate => Len(takes) > 0)
    BY DEF Ptt, ControlInv, TakeInv
  <2> QED
    BY <1>3, <1>4, <2>1 DEF OrderInv, UnseenInv
<1>10. SpokenOrder' /\ OwnTake'
  BY DEF OrderInv, SpokenOrder, OwnTake, SameTakes, HistoryTypes
<1> QED
  BY <1>5, <1>6, <1>7, <1>8, <1>10, <1>9 DEF OrderInv

-----------------------------------------------------------------------------
(* The threads of the user.                                                *)

(* A press, a release, a restart between the points where something is      *)
(* handed over: they leave the audio alone.                                *)
LEMMA UserKeepsControl ==
  ASSUME AudioInv, ~Torn, ~Slow, SameTakes, worker' = worker, mode' = mode,
         \/ ResumeCallbacks \/ ChooseSplitting \/ PauseCallbacks \/ CloseGate
         \/ RequestFlush \/ ReceiveAnswer \/ Timeout \/ NoReceiver \/ RestartDone
  PROVE  ControlInv'
<1> USE DEF AudioInv, ControlInv, Inv, TypeOK
<1>0. worker.pc \in {"look", "decide", "flush", "read"}
  BY DEF WorkerType
<1>1. Len(takes) \in Nat /\ Len(takes') = Len(takes) /\ (Ptt' <=> Ptt)
  BY DEF HistoryTypes, SameTakes, Ptt
<1>2. Len(takes) > 0 => Last'.ended = Last.ended /\ Last'.seen = Last.seen
  BY <1>1, LastKept
<1>3. CASE ResumeCallbacks
  BY <1>1, <1>2, <1>3 DEF ResumeCallbacks, startVars, gateVars, flushVars,
     TakeInv, ContinuousInv, PassInv, FlushInv, SeenInv, JoinInv
<1>4. CASE ChooseSplitting
  BY <1>1, <1>2, <1>4 DEF ChooseSplitting, startVars, gateVars, flushVars,
     TakeInv, ContinuousInv, PassInv, FlushInv, SeenInv, JoinInv
<1>5. CASE PauseCallbacks
  BY <1>1, <1>2, <1>5 DEF PauseCallbacks, startVars, gateVars, flushVars,
     TakeInv, ContinuousInv, PassInv, FlushInv, SeenInv, JoinInv
<1>6. CASE CloseGate
  BY <1>0, <1>1, <1>2, <1>6 DEF CloseGate, Borrow, startVars, gateVars, flushVars,
     TakeInv, ContinuousInv, PassInv, FlushInv, SeenInv, JoinInv
<1>7. CASE RequestFlush
  BY <1>1, <1>2, <1>7 DEF RequestFlush, Borrow, startVars, gateVars, flushVars,
     TakeInv, ContinuousInv, PassInv, FlushInv, SeenInv, JoinInv
<1>8. CASE ReceiveAnswer
  BY <1>1, <1>2, <1>8 DEF ReceiveAnswer, Restore, startVars, gateVars, flushVars,
     TakeInv, ContinuousInv, PassInv, FlushInv, SeenInv, JoinInv
<1>9. CASE Timeout
  BY <1>1, <1>2, <1>9 DEF Timeout, Restore, Closed, startVars, gateVars, flushVars,
     TakeInv, ContinuousInv, PassInv, FlushInv, SeenInv, JoinInv
<1>10. CASE NoReceiver
  BY <1>1, <1>2, <1>10 DEF NoReceiver, startVars, gateVars, flushVars,
     TakeInv, ContinuousInv, PassInv, FlushInv, SeenInv, JoinInv
<1>11. CASE RestartDone
  BY <1>1, <1>2, <1>11 DEF RestartDone, startVars, gateVars, flushVars,
     TakeInv, ContinuousInv, PassInv, FlushInv, SeenInv, JoinInv
<1> QED
  BY <1>3, <1>4, <1>5, <1>6, <1>7, <1>8, <1>9, <1>10, <1>11

LEMMA QuietUserSteps ==
  ASSUME AudioInv, ~Torn, ~Slow,
         \/ ResumeCallbacks \/ ChooseSplitting \/ PauseCallbacks \/ CloseGate
         \/ RequestFlush \/ Timeout \/ NoReceiver \/ RestartDone
  PROVE  AudioInv'
<1>1. worker' = worker /\ mode' = mode /\ UNCHANGED <<got, mic, channel, answer>>
  BY DEF AudioInv, ControlInv, JoinInv, ResumeCallbacks, ChooseSplitting, PauseCallbacks, CloseGate, RequestFlush,
         Timeout, NoReceiver, RestartDone, startVars, gateVars, flushVars
<1>2. SameTakes
  <2>1. CASE Timeout \/ NoReceiver
    <3>1. user # "rest" /\ (EndTake("empty") \/ EndTake("deaf"))
      BY <2>1 DEF Timeout, NoReceiver
    <3>2. Len(takes) > 0
      BY <3>1 DEF AudioInv, ControlInv, TakeInv
    <3> QED
      BY <3>1, <3>2, TakeEnds DEF AudioInv, Outcomes
  <2>2. CASE ~(Timeout \/ NoReceiver)
    <3>1. takes' = takes
      BY <2>2 DEF ResumeCallbacks, ChooseSplitting, PauseCallbacks, CloseGate,
                  RequestFlush, RestartDone
    <3> QED
      BY <3>1, TakesUnchanged DEF AudioInv
  <2> QED
    BY <2>1, <2>2
<1>3. ControlInv'
  BY <1>1, <1>2, UserKeepsControl
<1>4. HistoryTypes' /\ OrderInv'
  <2>1. Ptt /\ gate' => gate
    BY DEF ResumeCallbacks, ChooseSplitting, PauseCallbacks, CloseGate, RequestFlush,
           Timeout, NoReceiver, RestartDone, gateVars
  <2> QED
    BY <1>1, <1>2, <2>1, OrderKept DEF Consumed
<1>5. Inv'
  BY UserStep DEF AudioInv, User
<1> QED
  BY <1>3, <1>4, <1>5 DEF AudioInv

(* Audio that is newer than all that was given is given to the last take. *)
LEMMA GiveKeepsOrder ==
  ASSUME AudioInv, SameTakes, UNCHANGED <<mode, mic>>, NEW audio \in Seq(Chunks), Give(audio),
         Consumed, Len(takes) > 0, Last.ended = 0, Ptt /\ gate' => Last.seen,
         Heard(worker'.det) \subseteq Heard(worker.det)
           \cup (IF channel' = channel THEN {} ELSE {Head(channel).n}),
         worker'.was => Deliverable(worker'.det) = {} /\ Last.seen, answer' = <<>>,
         \A x \in ChunksOf(audio) :
           /\ x <= mic /\ \A i \in 1 .. Len(channel') : x < channel'[i].n
           /\ Last.seen => /\ x > Last.from
                           /\ \A k \in 1 .. Len(got) : \A y \in got[k].chunks : y < x
  PROVE  HistoryTypes' /\ OrderInv'
<1> DEFINE n == Len(got)
           given == [take |-> Len(takes), chunks |-> ChunksOf(audio)]
<1> USE DEF AudioInv, Inv
<1>0. takes \in Seq(Takes) /\ Len(takes) \in Nat /\ Len(takes) \in 1 .. Len(takes)
      /\ got \in Seq(Given) /\ n \in Nat
  BY DEF HistoryTypes
<1>1. /\ got' = Append(got, given) /\ given \in Given
      /\ given.take = Len(takes) /\ given.chunks = ChunksOf(audio)
  <2>1. ChunksOf(audio) \in SUBSET Nat
    <3>1. \A i \in 1 .. Len(audio) : audio[i] \in Chunks
      OBVIOUS
    <3>2. \A c \in Chunks : c.n \in Nat
      BY AudioAssumption DEF Chunks
    <3> QED
      BY <3>1, <3>2 DEF ChunksOf
  <2> QED
    BY <1>0, <2>1 DEF Give, With, Given
<1> HIDE DEF given
<1>2. /\ got' \in Seq(Given) /\ Len(got') = n + 1 /\ got'[n + 1] = given
      /\ \A k \in 1 .. n : got'[k] = got[k]
  BY <1>0, <1>1
<1> HIDE DEF n
<1>3. \A k \in 1 .. Len(got') : k \in 1 .. n \/ k = n + 1
  BY <1>0, <1>2
<1>4. Len(takes') = Len(takes) /\ Last'.from = Last.from /\ Last'.seen = Last.seen
      /\ Last'.ended = 0
  BY <1>0, LastKept
<1>5. HistoryTypes'
  BY <1>0, <1>1, <1>2, <1>3, <1>4 DEF HistoryTypes, SameTakes, n
<1>6. PICK d \in Nat : \A i \in 1 .. Len(channel') :
        i + d \in 1 .. Len(channel) /\ channel'[i] = channel[i + d]
  BY WhatIsLeft
<1>7. ASSUME NEW k \in 1 .. Len(got'), NEW x \in got'[k].chunks
      PROVE  x <= mic' /\ \A i \in 1 .. Len(channel') : x < channel'[i].n
  <2>1. CASE k = n + 1
    BY <1>1, <1>2, <1>7, <2>1
  <2>2. CASE k \in 1 .. n
    <3>1. x \in got[k].chunks /\ k \in 1 .. Len(got)
      BY <1>2, <1>7, <2>2 DEF n
    <3> QED
      BY <1>6, <3>1 DEF OrderInv, ChannelInv
  <2> QED
    BY <1>3, <2>1, <2>2
<1>8. ChannelInv'
  <2> USE DEF OrderInv, ChannelInv
  <2>0. channel' \in Seq(Chunks) /\ Len(channel') \in Nat /\ Len(channel) \in Nat
    BY WhatIsLeft DEF TypeOK
  <2>1. ASSUME NEW i \in 1 .. Len(channel')
        PROVE  channel'[i].n <= mic' /\ channel'[i].n > Last'.from
    BY <1>4, <1>6
  <2>2. ASSUME NEW i \in 1 .. Len(channel'), NEW j \in 1 .. Len(channel'), i < j
        PROVE  channel'[i].n < channel'[j].n
    <3>1. /\ i + d \in 1 .. Len(channel) /\ channel'[i] = channel[i + d]
          /\ j + d \in 1 .. Len(channel) /\ channel'[j] = channel[j + d]
          /\ i + d < j + d
      BY <1>6, <2>0, <2>2
    <3> QED
      BY <3>1
  <2>3. ASSUME NEW x \in Heard(worker'.det)
        PROVE  x <= mic' /\ \A i \in 1 .. Len(channel') : x < channel'[i].n
    <3>1. CASE x \in Heard(worker.det)
      BY <1>6, <3>1
    <3>2. CASE channel' # channel /\ x = Head(channel).n
      <4>1. CASE channel' = <<>>
        <5>1. x <= mic
          <6>1. channel # <<>>
            BY <3>2, <4>1
          <6>2. 1 \in 1 .. Len(channel) /\ x = channel[1].n
            BY <2>0, <3>2, <6>1 DEF TypeOK
          <6> QED
            BY <6>2
        <5> QED
          BY <4>1, <5>1
      <4>2. CASE channel # <<>> /\ channel' = Tail(channel)
        <5>1. 1 \in 1 .. Len(channel) /\ x = channel[1].n
          BY <2>0, <3>2, <4>2 DEF TypeOK
        <5>2. \A i \in 1 .. Len(channel') :
                i + 1 \in 1 .. Len(channel) /\ channel'[i] = channel[i + 1] /\ 1 < i + 1
          BY <2>0, <4>2 DEF TypeOK
        <5> QED
          BY <5>1, <5>2
      <4> QED
        BY <3>2, <4>1, <4>2 DEF Consumed
    <3> QED
      BY <2>3, <3>1, <3>2
  <2> QED
    BY <1>0, <1>4, <1>7, <2>1, <2>2, <2>3
<1>9. DetectorInv' /\ AnswerInv' /\ UnseenInv'
  <2>1. Ptt' <=> Ptt
    BY DEF Ptt
  <2> QED
    BY <1>4, <2>1 DEF DetectorInv, AnswerInv, UnseenInv
<1>10. ASSUME NEW i \in 1 .. Len(got'), NEW j \in 1 .. Len(got'), i < j,
              takes'[got'[j].take].seen,
              NEW x \in got'[i].chunks, NEW y \in got'[j].chunks
       PROVE  x < y
  <2>0. i \in 1 .. n /\ got'[i] = got[i]
    BY <1>0, <1>2, <1>3, <1>10
  <2>1. CASE j = n + 1
    BY <1>0, <1>1, <1>2, <1>4, <1>10, <2>0, <2>1 DEF n, Last
  <2>2. CASE j \in 1 .. n
    <3>1. /\ got'[j] = got[j] /\ j \in 1 .. Len(got) /\ i \in 1 .. Len(got)
          /\ got[j].take \in 1 .. Len(takes)
      BY <1>2, <2>0, <2>2 DEF n, HistoryTypes
    <3>2. takes[got[j].take].seen
      BY <1>10, <3>1 DEF SameTakes
    <3> QED
      BY <1>10, <2>0, <3>1, <3>2 DEF OrderInv, SpokenOrder
  <2> QED
    BY <1>3, <2>1, <2>2
<1>11. ASSUME NEW i \in 1 .. Len(got'), NEW x \in got'[i].chunks
       PROVE  LET take == takes'[got'[i].take]
              IN /\ take.seen => x > take.from
                 /\ take.ended # 0 => x <= take.ended
  <2>1. CASE i = n + 1
    BY <1>0, <1>1, <1>2, <1>4, <1>11, <2>1 DEF Last
  <2>2. CASE i \in 1 .. n
    <3>1. got'[i] = got[i] /\ i \in 1 .. Len(got) /\ got[i].take \in 1 .. Len(takes)
      BY <1>2, <2>2 DEF n, HistoryTypes
    <3> QED
      BY <1>11, <3>1 DEF OrderInv, OwnTake, SameTakes
  <2> QED
    BY <1>3, <2>1, <2>2
<1> QED
  BY <1>5, <1>8, <1>9, <1>10, <1>11 DEF OrderInv, SpokenOrder, OwnTake

LEMMA ReceiveStep ==
  ASSUME AudioInv, ~Torn, ~Slow, ReceiveAnswer
  PROVE  AudioInv'
<1> USE DEF ReceiveAnswer
<1>1. /\ worker' = worker /\ mode' = mode /\ UNCHANGED <<mic, channel>>
      /\ answer' = <<>> /\ answer # <<>> /\ user # "rest"
  BY DEF startVars
<1>2. Len(takes) > 0 /\ Last.ended = 0 /\ ~worker.was /\ Len(answer) = 1
      /\ answer[1] \in Seq(Chunks)
  BY <1>1 DEF AudioInv, Inv, TypeOK, ControlInv, TakeInv, FlushInv
<1>3. SameTakes
  BY <1>2, TakeEnds DEF AudioInv, Outcomes
<1>4. ControlInv'
  BY <1>1, <1>3, UserKeepsControl
<1>5. HistoryTypes' /\ OrderInv'
  <2>0. Ptt /\ gate' => FALSE
    BY <1>1 DEF gateVars, AudioInv, ControlInv, TakeInv
  <2>1. CASE Give(answer[1])
    <3>1. \A x \in ChunksOf(answer[1]) :
            /\ x <= mic /\ \A i \in 1 .. Len(channel) : x < channel[i].n
            /\ Last.seen => /\ x > Last.from
                            /\ \A k \in 1 .. Len(got) : \A y \in got[k].chunks : y < x
      BY <1>1 DEF AudioInv, OrderInv, AnswerInv
    <3> QED
      BY <1>1, <1>2, <1>3, <2>0, <2>1, <3>1, GiveKeepsOrder DEF Consumed
  <2>2. CASE got' = got
    BY <1>1, <1>2, <1>3, <2>0, <2>2, OrderKept DEF Consumed
  <2> QED
    BY <2>1, <2>2
<1>6. Inv'
  BY UserStep DEF AudioInv, User
<1> QED
  BY <1>4, <1>5, <1>6 DEF AudioInv

(* A press: a new take, which may contain what is on the channel. *)
LEMMA OpenStep ==
  ASSUME AudioInv, ~Torn, OpenGate
  PROVE  AudioInv'
<1> USE DEF AudioInv, Inv
<1> DEFINE n == Len(takes)
<1>0. /\ takes \in Seq(Takes) /\ n \in Nat /\ got \in Seq(Given)
      /\ channel \in Seq(Chunks) /\ mic \in Nat
  BY AudioAssumption DEF HistoryTypes, TypeOK
<1>1. /\ user = "rest" /\ user' = "opened" /\ Ptt /\ active' /\ gate'
      /\ ~request /\ ~worker.was /\ worker.pc \in {"look", "read"}
      /\ ~callbacks' /\ UNCHANGED <<mode, mic, channel, request, answer, receiver, worker, got>>
  BY DEF OpenGate, Closed, startVars, flushVars
<1>2. NewTake \in Takes /\ ~NewTake.seen /\ NewTake.ended = 0
  <2>1. channel # <<>> => channel[1].n \in Nat /\ channel[1].n - 1 \in Nat
    <3>1. channel # <<>> => channel[1] \in Chunks
      BY <1>0
    <3>2. \A c \in Chunks : c.n \in Nat /\ c.n - 1 \in Nat
      BY AudioAssumption DEF Chunks
    <3> QED
      BY <3>1, <3>2
  <2>2. (IF channel = <<>> THEN mic ELSE channel[1].n - 1) \in Nat
    BY <1>0, <2>1
  <2> QED
    BY <1>1, <2>2 DEF NewTake, Takes, Outcomes
<1>3. \A i \in 1 .. Len(channel) : channel[i].n > NewTake.from
  <2>1. ASSUME NEW i \in 1 .. Len(channel)
        PROVE  channel[i].n > NewTake.from
    <3>1. channel # <<>> /\ 1 \in 1 .. Len(channel)
      BY <1>0
    <3>2. NewTake.from = channel[1].n - 1
      BY <3>1 DEF NewTake
    <3>3. channel[1] \in Chunks /\ channel[i] \in Chunks
      BY <1>0, <3>1
    <3>4. channel[1].n \in Nat /\ channel[i].n \in Nat
      BY <3>3, AudioAssumption DEF Chunks
    <3>5. i = 1 \/ channel[1].n < channel[i].n
      BY <1>0, <3>1 DEF OrderInv, ChannelInv
    <3> QED
      BY <3>2, <3>4, <3>5
  <2> QED
    BY <2>1
<1>4. NewTake.from <= mic
  <2>1. CASE channel = <<>>
    BY <1>0, <2>1 DEF NewTake
  <2>2. CASE channel # <<>>
    <3>1. 1 \in 1 .. Len(channel) /\ NewTake.from = channel[1].n - 1
      BY <1>0, <2>2 DEF NewTake
    <3>2. channel[1].n <= mic /\ channel[1] \in Chunks
      BY <1>0, <3>1 DEF OrderInv, ChannelInv
    <3> QED
      BY <1>0, <3>1, <3>2, AudioAssumption DEF Chunks
  <2> QED
    BY <2>1, <2>2
<1>5. /\ takes' \in Seq(Takes) /\ Len(takes') = n + 1 /\ takes'[n + 1] = NewTake
      /\ \A k \in 1 .. n : takes'[k] = takes[k]
  BY <1>0, <1>2 DEF OpenGate
<1>6. Len(takes') > 0 /\ Last' = NewTake
  BY <1>0, <1>5 DEF Last
<1>7. answer = <<>>
  BY <1>1 DEF ControlInv, FlushInv
<1> HIDE DEF n
<1>8. HistoryTypes'
  <2>1. \A i \in 1 .. Len(got) : got[i].take \in 1 .. n + 1
    BY <1>0 DEF HistoryTypes, n
  <2> QED
    BY <1>0, <1>1, <1>5, <2>1 DEF HistoryTypes
<1>9. ControlInv'
  <2>1. Ptt'
    BY <1>1 DEF Ptt
  <2> QED
    BY <1>1, <1>2, <1>6, <1>7, <2>1
    DEF ControlInv, TakeInv, ContinuousInv, PassInv, FlushInv, SeenInv, JoinInv
<1>10. ChannelInv'
  BY <1>1, <1>3, <1>6, <1>4 DEF OrderInv, ChannelInv
<1>11. DetectorInv' /\ AnswerInv' /\ UnseenInv'
  <2>1. \A k \in 1 .. Len(got) : got[k].take # n + 1
    BY <1>0 DEF HistoryTypes, n
  <2> QED
    BY <1>1, <1>5, <1>7, <2>1 DEF DetectorInv, AnswerInv, UnseenInv
<1>12. SpokenOrder' /\ OwnTake'
  <2>1. \A i \in 1 .. Len(got) : takes'[got[i].take] = takes[got[i].take]
    BY <1>5 DEF HistoryTypes, n
  <2> QED
    BY <1>1, <2>1 DEF OrderInv, SpokenOrder, OwnTake
<1>13. Inv'
  BY UserStep DEF User
<1> QED
  BY <1>8, <1>9, <1>10, <1>11, <1>12, <1>13 DEF OrderInv

(* The end of the last take: what was given of it is not newer than that. *)
TakeOver ==
  /\ takes' \in Seq(Takes) /\ Len(takes') = Len(takes)
  /\ \A k \in 1 .. Len(takes) : /\ takes'[k].from = takes[k].from
                                /\ takes'[k].seen = takes[k].seen
                                /\ takes'[k].ended \in {takes[k].ended, mic}

LEMMA TakeOverKeepsOrder ==
  ASSUME AudioInv, TakeOver, UNCHANGED <<mode, got, mic, channel, worker>>, answer' = <<>>,
         Ptt /\ gate' => gate
  PROVE  HistoryTypes' /\ OrderInv'
<1> USE DEF AudioInv, Inv
<1>1. Len(takes) \in Nat /\ Len(takes') = Len(takes)
  BY DEF HistoryTypes, TakeOver
<1>2. Len(takes) > 0 => Last'.from = Last.from /\ Last'.seen = Last.seen
  <2>1. Len(takes) > 0 => Len(takes) \in 1 .. Len(takes)
    BY <1>1
  <2> QED
    BY <1>1, <2>1 DEF TakeOver, Last
<1>3. HistoryTypes'
  BY DEF HistoryTypes, TakeOver
<1>4. ChannelInv'
  BY <1>1, <1>2 DEF OrderInv, ChannelInv
<1>5. DetectorInv' /\ AnswerInv'
  <2>1. worker.was => Len(takes) > 0
    BY DEF ControlInv, SeenInv
  <2> QED
    BY <1>2, <2>1 DEF OrderInv, DetectorInv, AnswerInv
<1>6. UnseenInv'
  <2>1. (Ptt' <=> Ptt) /\ (Ptt /\ gate => Len(takes) > 0)
    BY DEF Ptt, ControlInv, TakeInv
  <2> QED
    BY <1>1, <1>2, <2>1 DEF OrderInv, UnseenInv
<1>7. SpokenOrder'
  BY DEF OrderInv, SpokenOrder, TakeOver, HistoryTypes
<1>8. OwnTake'
  <2>1. ASSUME NEW i \in 1 .. Len(got), NEW x \in got[i].chunks
        PROVE  LET take == takes'[got[i].take]
               IN /\ take.seen => x > take.from
                  /\ take.ended # 0 => x <= take.ended
    <3>1. got[i].take \in 1 .. Len(takes)
      BY DEF HistoryTypes
    <3>2. x <= mic
      BY DEF OrderInv, ChannelInv
    <3> QED
      BY <3>1, <3>2 DEF TakeOver, OrderInv, OwnTake
  <2> QED
    BY <2>1 DEF OwnTake
<1> QED
  BY <1>3, <1>4, <1>5, <1>7, <1>8, <1>6 DEF OrderInv

LEMMA EndSteps ==
  ASSUME AudioInv, ~Torn, ~Slow, ReleaseDone \/ AbortTake
  PROVE  AudioInv'
<1> USE DEF AudioInv, Inv
<1>0. /\ takes \in Seq(Takes) /\ Len(takes) \in Nat /\ mic \in Nat
      /\ worker.pc \in {"look", "decide", "flush", "read"}
  BY AudioAssumption DEF HistoryTypes, TypeOK, WorkerType
<1>1. /\ user \in {"done", "held"} /\ user' = "rest"
      /\ (answer' = <<>> \/ answer' = answer)
      /\ mode' = mode /\ UNCHANGED <<got, mic, channel, worker>>
  BY DEF ReleaseDone, AbortTake, startVars, gateVars, flushVars
<1>2. answer' = <<>> /\ Len(takes) > 0
  BY <1>1 DEF ReleaseDone, AbortTake, flushVars, ControlInv, FlushInv, TakeInv
<1>3. TakeOver /\ Len(takes') = Len(takes)
  <2> DEFINE n == Len(takes)
             r == [takes[n] EXCEPT !.ended = mic]
             s == [takes[n] EXCEPT !.ended = mic, !.outcome = "aborted"]
  <2>1. n \in 1 .. Len(takes) /\ takes[n] \in Takes
    BY <1>0, <1>2
  <2>2. /\ r \in Takes /\ r.from = takes[n].from /\ r.seen = takes[n].seen
        /\ r.ended = mic
        /\ s \in Takes /\ s.from = takes[n].from /\ s.seen = takes[n].seen
        /\ s.ended = mic
    BY <1>0, <2>1 DEF Takes, Outcomes
  <2>3. takes' = [takes EXCEPT ![n] = r] \/ takes' = [takes EXCEPT ![n] = s]
    BY <2>1 DEF ReleaseDone, AbortTake, Takes
  <2> HIDE DEF n, r, s
  <2>4. PICK t \in {r, s} : takes' = [takes EXCEPT ![n] = t]
    BY <2>3
  <2>5. /\ takes' \in Seq(Takes) /\ Len(takes') = Len(takes) /\ takes'[n] = t
        /\ \A k \in 1 .. Len(takes) : k # n => takes'[k] = takes[k]
    BY <1>0, <2>1, <2>2, <2>4
  <2> QED
    BY <2>1, <2>2, <2>4, <2>5 DEF TakeOver
<1>4. HistoryTypes' /\ OrderInv'
  <2>1. Ptt /\ gate' => gate
    BY DEF ReleaseDone, AbortTake, gateVars
  <2> QED
    BY <1>1, <1>2, <1>3, <2>1, TakeOverKeepsOrder
<1>5. Last'.seen = Last.seen /\ Len(takes') > 0
  <2>1. Len(takes) \in 1 .. Len(takes)
    BY <1>0, <1>2
  <2> QED
    BY <1>3, <2>1 DEF TakeOver, Last
<1>6. ControlInv'
  <2>1. Ptt' <=> Ptt
    BY <1>1 DEF Ptt
  <2>2. CASE ReleaseDone
    BY <1>0, <1>1, <1>2, <1>5, <2>1, <2>2 DEF ReleaseDone, startVars, gateVars, flushVars, TypeOK,
       ControlInv, TakeInv, ContinuousInv, PassInv, FlushInv, SeenInv, JoinInv
  <2>3. CASE AbortTake
    BY <1>0, <1>1, <1>2, <1>5, <2>1, <2>3 DEF AbortTake, startVars, gateVars, flushVars, TypeOK,
       ControlInv, TakeInv, ContinuousInv, PassInv, FlushInv, SeenInv, JoinInv
  <2> QED
    BY <2>2, <2>3
<1>7. Inv'
  BY UserStep DEF User
<1> QED
  BY <1>4, <1>6, <1>7

(* A restart: a new worker with nothing in hand. *)
LEMMA RestartStep ==
  ASSUME AudioInv, RestartPipeline
  PROVE  AudioInv'
<1> USE DEF AudioInv, Inv
<1>0. takes \in Seq(Takes) /\ Len(takes) \in Nat
  BY DEF HistoryTypes
<1>1. /\ user # "closed" /\ mode' = mode /\ UNCHANGED <<got, mic>>
      /\ user' = (IF user = "wait" THEN "orphan" ELSE user)
      /\ answer' = (IF user \in {"wait", "orphan"} THEN answer ELSE <<>>)
      /\ channel' = <<>> /\ ~active' /\ ~request' /\ ~callbacks'
      /\ receiver' = "here" /\ gate' = ~Ptt /\ worker' = FreshWorker(~Ptt)
  BY DEF RestartPipeline, StopPipeline, StartPipeline
<1>2. /\ worker'.pc = "look" /\ worker'.was = ~Ptt /\ worker'.now = FALSE
      /\ worker'.det.pre = <<>> /\ worker'.det.segment = <<>>
      /\ worker'.det.capture = <<>> /\ ~worker'.det.pttRecording
      /\ worker'.det.subsegmentsSent = FALSE
  <2> DEFINE det == [NewDetector EXCEPT !.pttRecording = Ptt /\ ~Ptt]
  <2>1. /\ det.pre = <<>> /\ det.segment = <<>> /\ det.capture = <<>>
        /\ ~det.pttRecording /\ det.subsegmentsSent = FALSE
    BY DEF NewDetector
  <2> HIDE DEF det
  <2>2. worker' = [pc |-> "look", det |-> det, was |-> ~Ptt, now |-> FALSE,
                   split |-> FALSE]
    BY <1>1 DEF FreshWorker, det
  <2> QED
    BY <2>1, <2>2
<1>3. Heard(worker'.det) = {} /\ Deliverable(worker'.det) = {}
  BY <1>2, NoChunks DEF Heard, Deliverable
<1>4. SameTakes
  <2>1. CASE user # "rest"
    <3>1. Len(takes) > 0
      BY <2>1 DEF ControlInv, TakeInv
    <3> QED
      BY <2>1, <3>1, TakeEnds DEF RestartPipeline, Outcomes
  <2>2. CASE user = "rest"
    BY <2>2, TakesUnchanged DEF RestartPipeline
  <2> QED
    BY <2>1, <2>2
<1>5. worker'.was => worker.was
  BY <1>2 DEF ControlInv, ContinuousInv
<1>6. HistoryTypes' /\ OrderInv'
  BY <1>1, <1>3, <1>4, <1>5, OrderKept DEF Consumed
<1>7. Len(takes') = Len(takes)
      /\ (Len(takes) > 0 => Last'.seen = Last.seen /\ Last'.ended = Last.ended)
  BY <1>0, <1>4, LastKept DEF SameTakes
<1>8. ControlInv'
  <2>1. Ptt' <=> Ptt
    BY <1>1 DEF Ptt
  <2> QED
    BY <1>1, <1>2, <1>7, <2>1
    DEF ControlInv, TakeInv, ContinuousInv, PassInv, FlushInv, SeenInv, JoinInv
<1>9. Inv'
  BY UserStep DEF User
<1> QED
  BY <1>6, <1>8, <1>9

-----------------------------------------------------------------------------
(* The worker.                                                             *)

LEMMA WorkerTypes ==
  ASSUME AudioInv
  PROVE  /\ worker.det \in Detector(Chunks)
         /\ worker.pc \in {"look", "decide", "flush", "read"}
         /\ worker.was \in BOOLEAN /\ worker.now \in BOOLEAN
         /\ channel \in Seq(Chunks) /\ Len(channel) \in Nat
         /\ takes \in Seq(Takes) /\ Len(takes) \in Nat
         /\ gate \in BOOLEAN /\ request \in BOOLEAN
         /\ Ptt \in BOOLEAN
BY DEF AudioInv, Inv, TypeOK, WorkerType, HistoryTypes, Ptt

LEMMA LookStep ==
  ASSUME AudioInv, ~Torn, Look
  PROVE  AudioInv'
<1> DEFINE det == [worker.det EXCEPT !.endOnSilence = ~Ptt \/ (gate /\ splits)]
<1>1. /\ det.pre = worker.det.pre /\ det.segment = worker.det.segment
      /\ det.capture = worker.det.capture
      /\ det.subsegmentsSent = worker.det.subsegmentsSent
      /\ det.pttRecording = worker.det.pttRecording
  BY WorkerTypes DEF Detector
<1>2. worker' = [worker EXCEPT !.pc = "decide", !.now = gate, !.split = splits,
                               !.det = det]
  BY DEF Look
<1> HIDE DEF det
<1>3. /\ worker'.pc = "decide" /\ worker'.now = gate /\ worker'.was = worker.was
      /\ worker'.det = det
  BY <1>2 DEF AudioInv, Inv, TypeOK, WorkerType
<1>4. /\ user \notin {"opened", "resumed", "closed"}
      /\ UNCHANGED <<mode, joining, mic, channel, gate, active, splits, request, answer, receiver,
                     callbacks, user, takes, got>>
      /\ worker.pc = "look"
  BY DEF Look, startVars, gateVars, flushVars
<1>5. Heard(det) = Heard(worker.det) /\ Deliverable(det) = Deliverable(worker.det)
  BY <1>1 DEF Heard, Deliverable
<1>6. SameTakes
  BY <1>4, TakesUnchanged DEF AudioInv
<1>7. HistoryTypes' /\ OrderInv'
  BY <1>3, <1>4, <1>5, <1>6, OrderKept DEF Consumed
<1>8. ControlInv'
  <2>1. (Ptt' <=> Ptt) /\ Last' = Last
    BY <1>4 DEF Ptt, Last
  <2> QED
    BY <1>1, <1>3, <1>4, <2>1
    DEF AudioInv, ControlInv, TakeInv, ContinuousInv, PassInv, FlushInv, SeenInv, JoinInv
<1>9. Inv'
  BY WorkerStep DEF Worker, AudioInv
<1> QED
  BY <1>7, <1>8, <1>9 DEF AudioInv

LEMMA BeginFlushStep ==
  ASSUME AudioInv, BeginFlush
  PROVE  AudioInv'
<1> DEFINE det == [worker.det EXCEPT !.pttRecording = TRUE]
<1>1. /\ det.pre = worker.det.pre /\ det.segment = worker.det.segment
      /\ det.capture = worker.det.capture
      /\ det.subsegmentsSent = worker.det.subsegmentsSent
  BY WorkerTypes DEF Detector
<1>2. worker' = [worker EXCEPT !.pc = "flush", !.det = det]
  BY DEF BeginFlush
<1> HIDE DEF det
<1>3. /\ worker'.pc = "flush" /\ worker'.now = worker.now /\ worker'.was = worker.was
      /\ worker'.det = det
  BY <1>2 DEF AudioInv, Inv, TypeOK, WorkerType
<1>4. /\ UNCHANGED <<mode, joining, mic, channel, gate, active, splits, answer, receiver,
                     callbacks, user, takes, got>>
      /\ worker.pc = "decide" /\ ~request'
      /\ request \/ (Ptt /\ worker.was /\ ~worker.now)
  BY DEF BeginFlush, MustFlush, startVars, gateVars
<1>5. Heard(det) = Heard(worker.det) /\ Deliverable(det) = Deliverable(worker.det)
  BY <1>1 DEF Heard, Deliverable
<1>6. SameTakes
  BY <1>4, TakesUnchanged DEF AudioInv
<1>7. HistoryTypes' /\ OrderInv'
  BY <1>3, <1>4, <1>5, <1>6, OrderKept DEF Consumed
<1>8. ControlInv'
  <2>1. (Ptt' <=> Ptt) /\ Last' = Last
    BY <1>4 DEF Ptt, Last
  <2>2. Ptt /\ ~gate /\ ~worker.now
    BY <1>4, WorkerTypes DEF AudioInv, ControlInv, PassInv, FlushInv
  <2>3. request /\ user # "closed"
    BY <1>4, <2>2 DEF AudioInv, ControlInv, PassInv, FlushInv
  <2> QED
    BY <1>1, <1>3, <1>4, <2>1, <2>2, <2>3
    DEF AudioInv, ControlInv, TakeInv, ContinuousInv, PassInv, FlushInv, SeenInv, JoinInv
<1>9. Inv'
  BY WorkerStep DEF Worker, AudioInv
<1> QED
  BY <1>7, <1>8, <1>9 DEF AudioInv

(* The pass ends without a chunk, or the chunk is thrown away. *)
LEMMA IdlePassStep ==
  ASSUME AudioInv, NothingToRead \/ DropChunk
  PROVE  AudioInv'
<1>1. /\ worker'.pc = "look" /\ worker'.was = worker.was /\ worker'.det = worker.det
      /\ worker'.now = FALSE
  BY DEF NothingToRead, DropChunk, NextPass
<1>2. /\ UNCHANGED <<mode, joining, mic, gate, active, splits, request, answer, receiver,
                     callbacks, user, takes, got>>
      /\ worker.pc = "read"
      /\ channel' = channel \/ (channel # <<>> /\ channel' = Tail(channel))
  BY DEF NothingToRead, DropChunk, startVars, gateVars, flushVars
<1>3. SameTakes
  BY <1>2, TakesUnchanged DEF AudioInv
<1>4. HistoryTypes' /\ OrderInv'
  BY <1>1, <1>2, <1>3, OrderKept DEF Consumed
<1>5. ControlInv'
  <2>1. (Ptt' <=> Ptt) /\ Last' = Last
    BY <1>2 DEF Ptt, Last
  <2> QED
    BY <1>1, <1>2, <2>1
    DEF AudioInv, ControlInv, TakeInv, ContinuousInv, PassInv, FlushInv, SeenInv, JoinInv
<1>6. Inv'
  BY WorkerStep DEF Worker, AudioInv
<1> QED
  BY <1>4, <1>5, <1>6 DEF AudioInv

(* A chunk comes from the channel into the detector, and nothing is given. *)
LEMMA HearKeepsOrder ==
  ASSUME AudioInv, UNCHANGED <<mode, mic, gate, takes, got, answer>>, answer = <<>>,
         channel # <<>>, channel' = Tail(channel),
         Heard(worker'.det) \subseteq Heard(worker.det) \cup {Head(channel).n},
         worker'.was => /\ worker.was
                        /\ Deliverable(worker'.det)
                             \subseteq Deliverable(worker.det) \cup {Head(channel).n}
  PROVE  HistoryTypes' /\ OrderInv'
<1> USE DEF AudioInv, Inv
<1> DEFINE x0 == Head(channel).n
<1>0. channel \in Seq(Chunks) /\ Len(channel) \in Nat
  BY WorkerTypes
<1>1. 1 \in 1 .. Len(channel) /\ x0 = channel[1].n
  BY <1>0
<1>2. /\ \A i \in 1 .. Len(channel') : /\ i + 1 \in 1 .. Len(channel) /\ 1 < i + 1
                                       /\ channel'[i] = channel[i + 1]
      /\ Len(channel') \in Nat
  BY <1>0
<1> HIDE DEF x0
<1>3. Last' = Last
  BY DEF Last
<1>4. /\ x0 <= mic /\ (Len(takes) > 0 => x0 > Last.from)
      /\ \A i \in 1 .. Len(channel') : x0 < channel'[i].n
      /\ \A k \in 1 .. Len(got) : \A y \in got[k].chunks : y < x0
  BY <1>1, <1>2 DEF OrderInv, ChannelInv
<1>5. HistoryTypes'
  BY DEF HistoryTypes
<1>6. ChannelInv'
  <2> USE DEF OrderInv, ChannelInv
  <2>1. ASSUME NEW i \in 1 .. Len(channel')
        PROVE  /\ channel'[i].n <= mic'
               /\ Len(takes') > 0 => channel'[i].n > Last'.from
               /\ \A k \in 1 .. Len(got') : \A x \in got'[k].chunks : x < channel'[i].n
    BY <1>2, <1>3
  <2>2. ASSUME NEW i \in 1 .. Len(channel'), NEW j \in 1 .. Len(channel'), i < j
        PROVE  channel'[i].n < channel'[j].n
    <3>1. /\ i + 1 \in 1 .. Len(channel) /\ channel'[i] = channel[i + 1]
          /\ j + 1 \in 1 .. Len(channel) /\ channel'[j] = channel[j + 1]
          /\ i + 1 < j + 1
      BY <1>2, <2>2
    <3> QED
      BY <3>1
  <2>3. ASSUME NEW x \in Heard(worker'.det)
        PROVE  x <= mic' /\ \A i \in 1 .. Len(channel') : x < channel'[i].n
    <3>1. x \in Heard(worker.det) \/ x = x0
      BY <2>3 DEF x0
    <3> QED
      BY <1>2, <1>4, <3>1
  <2>4. \A k \in 1 .. Len(got') : \A x \in got'[k].chunks : x <= mic'
    OBVIOUS
  <2>5. Len(takes') > 0 => Last'.from <= mic'
    BY <1>3
  <2> QED
    BY <2>1, <2>2, <2>3, <2>4, <2>5
<1>7. DetectorInv'
  <2>1. ASSUME worker'.was, NEW x \in Deliverable(worker'.det)
        PROVE  /\ x > Last'.from
               /\ \A k \in 1 .. Len(got') : \A y \in got'[k].chunks : y < x
    <3>1. x \in Deliverable(worker.det) \/ x = x0
      BY <2>1 DEF x0
    <3>2. worker.was /\ Len(takes) > 0
      BY <2>1 DEF ControlInv, SeenInv
    <3> QED
      BY <1>3, <1>4, <3>1, <3>2 DEF OrderInv, DetectorInv
  <2> QED
    BY <2>1 DEF DetectorInv
<1>8. AnswerInv' /\ UnseenInv' /\ SpokenOrder' /\ OwnTake'
  BY <1>3 DEF OrderInv, AnswerInv, UnseenInv, SpokenOrder, OwnTake, Ptt
<1> QED
  BY <1>5, <1>6, <1>7, <1>8 DEF OrderInv

LEMMA DrainStep ==
  ASSUME AudioInv, DrainChunk
  PROVE  AudioInv'
<1> DEFINE out == Push(worker.det, Head(channel))
<1>1. channel # <<>> /\ Head(channel) \in Chunks /\ worker.det \in Detector(Chunks)
  BY WorkerTypes DEF DrainChunk
<1>2. /\ Heard(out.det) \subseteq Heard(worker.det) \cup {Head(channel).n}
      /\ Deliverable(out.det) \subseteq Deliverable(worker.det) \cup {Head(channel).n}
  BY <1>1, PushHears
<1>3. /\ worker' = [worker EXCEPT !.det = out.det] /\ worker.pc = "flush"
      /\ UNCHANGED <<mode, joining, mic, gate, active, splits, request, answer, receiver,
                     callbacks, user, takes, got>>
      /\ channel' = Tail(channel)
  BY DEF DrainChunk, startVars, gateVars, flushVars
<1> HIDE DEF out
<1>4. /\ worker'.pc = "flush" /\ worker'.now = worker.now /\ worker'.was = worker.was
      /\ worker'.det = out.det
  BY <1>3 DEF AudioInv, Inv, TypeOK, WorkerType
<1>5. answer = <<>>
  BY <1>3 DEF AudioInv, ControlInv, FlushInv
<1>6. HistoryTypes' /\ OrderInv'
  BY <1>1, <1>2, <1>3, <1>4, <1>5, HearKeepsOrder
<1>7. ControlInv'
  <2>1. (Ptt' <=> Ptt) /\ Last' = Last
    BY <1>3 DEF Ptt, Last
  <2> QED
    BY <1>3, <1>4, <2>1
    DEF AudioInv, ControlInv, TakeInv, ContinuousInv, PassInv, FlushInv, SeenInv, JoinInv
<1>8. Inv'
  BY WorkerStep DEF Worker, AudioInv
<1> QED
  BY <1>6, <1>7, <1>8 DEF AudioInv

(* The flush of a take: what it brings waits for the release. *)
LEMMA FlushStep ==
  ASSUME AudioInv, FlushTake
  PROVE  AudioInv'
<1> DEFINE out == FlushPtt(worker.det)
           det == [out.det EXCEPT !.pttRecording = FALSE]
<1>1. worker.pc = "flush" /\ channel = <<>> /\ worker.det \in Detector(Chunks)
  BY WorkerTypes DEF FlushTake
<1>2. out.det \in Detector(Chunks)
  BY FlushPttGood DEF AudioInv, Inv, SegmentFits, Good, TypeOK, WorkerType
<1>3. /\ Heard(out.det) \subseteq Heard(worker.det)
      /\ ChunksOf(out.audio) \subseteq Deliverable(worker.det)
  BY <1>1, FlushHears
<1>4. /\ NextPass(det, worker.now)
      /\ answer' = IF out.event = "ended" /\ answer = <<>> /\ receiver \in {"here", "lent"}
                   THEN <<out.audio>> ELSE answer
      /\ UNCHANGED <<mode, joining, mic, channel, gate, active, splits, request, receiver, callbacks,
                     user, takes, got>>
  BY DEF FlushTake, Flush, startVars, gateVars
<1> HIDE DEF out
<1>5. /\ det.pre = out.det.pre /\ det.segment = out.det.segment
      /\ det.capture = out.det.capture
  BY <1>2 DEF Detector
<1> HIDE DEF det
<1>6. Heard(det) \subseteq Heard(worker.det)
  BY <1>3, <1>5 DEF Heard
<1>7. ~worker.now /\ ~gate /\ answer = <<>> /\ Ptt
      /\ (receiver \in {"lost", "stale"} \/ user = "wait")
  BY <1>1 DEF AudioInv, ControlInv, PassInv, FlushInv, ContinuousInv
<1>8. /\ worker'.pc = "look" /\ ~worker'.was /\ worker'.det = det
  BY <1>4, <1>7 DEF NextPass
<1>9. SameTakes /\ Last' = Last
  BY <1>4, TakesUnchanged DEF AudioInv, Last
<1>10. AnswerInv'
  <2>1. ASSUME answer' # <<>>, NEW x \in ChunksOf(answer'[1])
        PROVE  /\ x <= mic /\ \A i \in 1 .. Len(channel) : x < channel[i].n
               /\ Last.seen => /\ x > Last.from
                               /\ \A k \in 1 .. Len(got) : \A y \in got[k].chunks : y < x
    <3>1. answer' = <<out.audio>> /\ user = "wait"
      BY <1>4, <1>7, <2>1
    <3>2. x \in Deliverable(worker.det)
      BY <1>3, <2>1, <3>1
    <3>3. x \in Heard(worker.det)
      BY <3>2 DEF Deliverable, Heard
    <3>4. Last.seen => worker.was
      BY <1>1, <1>7, <3>1 DEF AudioInv, ControlInv, SeenInv, TakeInv
    <3> QED
      BY <3>2, <3>3, <3>4 DEF AudioInv, OrderInv, ChannelInv, DetectorInv
  <2> QED
    BY <1>4, <1>9, <2>1 DEF AnswerInv
<1>11. HistoryTypes' /\ OrderInv'
  BY <1>4, <1>6, <1>8, <1>9, <1>10, OrderKept DEF Consumed
<1>12. ControlInv'
  <2>1. Ptt' <=> Ptt
    BY <1>4 DEF Ptt
  <2>2. answer' # <<>> => receiver = "lent" /\ user = "wait"
    BY <1>4, <1>7 DEF AudioInv, Inv, TypeOK, ControlInv, FlushInv
  <2> QED
    BY <1>1, <1>4, <1>7, <1>8, <1>9, <2>1, <2>2
    DEF AudioInv, ControlInv, TakeInv, ContinuousInv, PassInv, FlushInv, SeenInv, JoinInv
<1>13. Inv'
  BY WorkerStep DEF Worker, AudioInv
<1> QED
  BY <1>11, <1>12, <1>13 DEF AudioInv

(* The worker takes up what it saw of the gate; a take it sees for the      *)
(* first time finds the detector empty.                                    *)
LEMMA FollowStep ==
  ASSUME AudioInv, FollowGate
  PROVE  AudioInv'
<1> DEFINE old == IF Opens THEN Reset(worker.det) ELSE worker.det
           det == [old EXCEPT !.pttRecording = Ptt /\ worker.now]
<1>0. /\ worker.det \in Detector(Chunks) /\ takes \in Seq(Takes) /\ Len(takes) \in Nat
      /\ worker.pc = "decide" /\ ~request /\ ~(Ptt /\ worker.was /\ ~worker.now)
  BY WorkerTypes DEF FollowGate, MustFlush
<1>1. old \in Detector(Chunks)
  <2>1. Good(Reset(worker.det), Chunks)
    BY ResetGood DEF AudioInv, Inv, SegmentFits, Good, TypeOK, WorkerType
  <2> QED
    BY <1>0, <2>1 DEF Good
<1>2. /\ det.pre = old.pre /\ det.segment = old.segment /\ det.capture = old.capture
      /\ det.subsegmentsSent = old.subsegmentsSent
      /\ det.pttRecording = (Ptt /\ worker.now)
  BY <1>1 DEF Detector
<1>3. /\ worker' = [worker EXCEPT
                      !.pc = "read", !.was = IF Ptt THEN worker.now ELSE worker.was,
                      !.det = det]
      /\ takes' = IF Opens THEN [takes EXCEPT ![Len(takes)].seen = TRUE] ELSE takes
      /\ UNCHANGED <<mode, joining, mic, channel, gate, active, splits, request, answer, receiver,
                     callbacks, user, got>>
  BY DEF FollowGate, startVars, gateVars, flushVars
<1>4. /\ Heard(det) = Heard(old) /\ Deliverable(det) = Deliverable(old)
  BY <1>2 DEF Heard, Deliverable
<1>5. /\ Opens => Heard(old) = {} /\ Deliverable(old) = {} /\ old.capture = <<>>
      /\ ~Opens => old = worker.det
  BY <1>0, ResetChunks
<1> HIDE DEF det, old
<1>6. /\ worker'.pc = "read" /\ worker'.now = worker.now /\ worker'.det = det
      /\ worker'.was = IF Ptt THEN worker.now ELSE worker.was
  BY <1>3 DEF AudioInv, Inv, TypeOK, WorkerType
<1>7. Ptt => worker.now = gate
  BY <1>0 DEF AudioInv, ControlInv, PassInv
<1>8. Inv'
  BY WorkerStep DEF Worker, AudioInv
<1>9. CASE ~Opens
  <2>1. SameTakes /\ Last' = Last /\ (Ptt' <=> Ptt)
    BY <1>3, <1>9, TakesUnchanged DEF AudioInv, Last, Ptt
  <2>2. worker'.was = worker.was
    BY <1>0, <1>6, <1>9, WorkerTypes DEF Opens
  <2>3. HistoryTypes' /\ OrderInv'
    BY <1>3, <1>4, <1>5, <1>6, <1>9, <2>1, <2>2, OrderKept DEF Consumed
  <2>4. ControlInv'
    BY <1>0, <1>2, <1>3, <1>5, <1>6, <1>7, <1>9, <2>1, <2>2
    DEF AudioInv, ControlInv, TakeInv, ContinuousInv, PassInv, FlushInv, SeenInv, JoinInv
  <2> QED
    BY <1>8, <2>3, <2>4 DEF AudioInv
<1>10. CASE Opens
  <2> USE DEF AudioInv
  <2>0. Ptt /\ worker.now /\ gate /\ ~worker.was /\ worker'.was /\ (Ptt' <=> Ptt)
    BY <1>3, <1>6, <1>7, <1>10 DEF Opens, Ptt
  <2>1. Len(takes) > 0 /\ Last.ended = 0 /\ ~Last.seen /\ user \in {"held", "paused"}
    <3>1. active /\ user \in {"opened", "resumed", "held", "paused"}
      BY <2>0 DEF ControlInv, TakeInv
    <3>2. user \in {"held", "paused"}
      BY <1>0, <3>1 DEF ControlInv, PassInv
    <3>3. Len(takes) > 0 /\ Last.ended = 0
      BY <3>2 DEF ControlInv, TakeInv
    <3> QED
      BY <2>0, <3>2, <3>3 DEF ControlInv, SeenInv
  <2>2. \A k \in 1 .. Len(got) : got[k].take # Len(takes)
    BY <2>0, <2>1 DEF OrderInv, UnseenInv
  <2>3. /\ takes' \in Seq(Takes) /\ Len(takes') = Len(takes)
        /\ \A k \in 1 .. Len(takes) : k # Len(takes) => takes'[k] = takes[k]
        /\ Last'.seen /\ Last'.from = Last.from /\ Last'.ended = Last.ended
    <3> DEFINE n == Len(takes)
               r == [takes[n] EXCEPT !.seen = TRUE]
    <3>1. n \in 1 .. Len(takes) /\ takes[n] \in Takes
      BY <1>0, <2>1
    <3>2. r \in Takes /\ r.from = takes[n].from /\ r.seen /\ r.ended = takes[n].ended
      BY <3>1 DEF Takes
    <3>3. takes' = [takes EXCEPT ![n] = r]
      BY <1>3, <1>10, <3>1 DEF Takes
    <3> HIDE DEF n, r
    <3>4. takes' \in Seq(Takes) /\ Len(takes') = Len(takes) /\ takes'[n] = r
          /\ \A k \in 1 .. Len(takes) : k # n => takes'[k] = takes[k]
      BY <1>0, <3>1, <3>2, <3>3
    <3> QED
      BY <3>2, <3>4 DEF Last, n
  <2>4. Heard(det) = {} /\ Deliverable(det) = {} /\ det.capture = <<>>
    BY <1>2, <1>4, <1>5, <1>10
  <2>5. HistoryTypes'
    BY <1>3, <2>3 DEF HistoryTypes
  <2>6. ChannelInv'
    BY <1>3, <1>6, <2>1, <2>3, <2>4 DEF OrderInv, ChannelInv
  <2>7. answer = <<>>
    BY <2>1 DEF ControlInv, FlushInv
  <2>8. DetectorInv' /\ AnswerInv' /\ UnseenInv'
    BY <1>3, <1>6, <2>3, <2>4, <2>7 DEF DetectorInv, AnswerInv, UnseenInv
  <2>9. \A k \in 1 .. Len(got) : takes'[got[k].take] = takes[got[k].take]
    BY <2>2, <2>3 DEF HistoryTypes
  <2>10. SpokenOrder' /\ OwnTake'
    BY <1>3, <2>9 DEF OrderInv, SpokenOrder, OwnTake
  <2>11. ControlInv'
    BY <1>0, <1>2, <1>3, <1>6, <2>0, <2>1, <2>3
    DEF ControlInv, TakeInv, ContinuousInv, PassInv, FlushInv, SeenInv, JoinInv
  <2> QED
    BY <1>8, <2>5, <2>6, <2>8, <2>10, <2>11 DEF OrderInv
<1> QED
  BY <1>9, <1>10

(* A chunk is heard, and a segment that ends with it may be handed on. *)
LEMMA PushStep ==
  ASSUME AudioInv, PushChunk
  PROVE  AudioInv'
<1> DEFINE out == Push(worker.det, Head(channel))
<1>1. channel # <<>> /\ Head(channel) \in Chunks /\ worker.det \in Detector(Chunks)
  BY WorkerTypes DEF PushChunk
<1>2. /\ Heard(out.det) \subseteq Heard(worker.det) \cup {Head(channel).n}
      /\ Deliverable(out.det) \subseteq Deliverable(worker.det) \cup {Head(channel).n}
      /\ ChunksOf(out.audio) \subseteq Deliverable(worker.det) \cup {Head(channel).n}
      /\ out.det.pttRecording = worker.det.pttRecording
      /\ out.event = "ended" /\ (worker.det.pttRecording \/ worker.det.capture = <<>>)
           => Deliverable(out.det) = {}
      /\ ~worker.det.pttRecording /\ worker.det.capture = <<>> => out.det.capture = <<>>
  BY <1>1, PushHears
<1>3. /\ worker.pc = "read" /\ (Ptt => gate)
      /\ channel' = Tail(channel) /\ NextPass(out.det, worker.was)
      /\ (out.event = "ended" /\ Handed /\ Give(out.audio)) \/ UNCHANGED got
      /\ UNCHANGED <<mode, joining, mic, gate, active, splits, request, answer, receiver,
                     callbacks, user, takes>>
  BY DEF PushChunk, startVars, gateVars, flushVars
<1>4. out.audio \in Seq(Chunks)
  BY <1>1, PushGood DEF AudioInv, Inv, SegmentFits, Good
<1> HIDE DEF out
<1>5. /\ worker'.pc = "look" /\ worker'.was = worker.was /\ worker'.det = out.det
      /\ worker'.now = FALSE
  BY <1>3 DEF NextPass
<1>6. answer = <<>>
  BY <1>3 DEF AudioInv, ControlInv, TakeInv, ContinuousInv, FlushInv
<1>7. SameTakes /\ Last' = Last /\ (Ptt' <=> Ptt)
  BY <1>3, TakesUnchanged DEF AudioInv, Last, Ptt
<1>8. ControlInv'
  BY <1>2, <1>3, <1>5, <1>7
  DEF AudioInv, ControlInv, TakeInv, ContinuousInv, PassInv, FlushInv, SeenInv, JoinInv
<1>9. HistoryTypes' /\ OrderInv'
  <2>1. CASE got' = got
    BY <1>1, <1>2, <1>3, <1>5, <1>6, <2>1, HearKeepsOrder
  <2>2. CASE out.event = "ended" /\ Handed /\ Give(out.audio)
    <3>1. worker.was /\ Len(takes) > 0 /\ Last.seen
      <4>1. worker.was
        BY <1>3, <2>2 DEF Handed, AudioInv, ControlInv, ContinuousInv, PassInv
      <4> QED
        BY <4>1 DEF AudioInv, ControlInv, SeenInv
    <3>2. Last.ended = 0
      BY <1>3 DEF AudioInv, ControlInv, TakeInv
    <3>3. worker.det.pttRecording \/ worker.det.capture = <<>>
      BY <1>3, <2>2 DEF Handed, AudioInv, ControlInv, ContinuousInv, PassInv
    <3>4. Deliverable(worker'.det) = {}
      BY <1>2, <1>5, <2>2, <3>3
    <3> DEFINE x0 == Head(channel).n
    <3>5. 1 \in 1 .. Len(channel) /\ x0 = channel[1].n
      BY <1>1, WorkerTypes
    <3>6. \A i \in 1 .. Len(channel') : /\ i + 1 \in 1 .. Len(channel) /\ 1 < i + 1
                                        /\ channel'[i] = channel[i + 1]
      BY <1>1, <1>3, WorkerTypes
    <3>7. Heard(worker'.det) \subseteq Heard(worker.det) \cup {x0} /\ channel' # channel
      BY <1>1, <1>2, <1>3, <1>5, WorkerTypes
    <3> HIDE DEF x0
    <3>8. ASSUME NEW x \in ChunksOf(out.audio)
          PROVE  /\ x <= mic /\ \A i \in 1 .. Len(channel') : x < channel'[i].n
                 /\ Last.seen => /\ x > Last.from
                                 /\ \A k \in 1 .. Len(got) : \A y \in got[k].chunks : y < x
      <4>1. x \in Deliverable(worker.det) \/ x = x0
        BY <1>2, <3>8 DEF x0
      <4>2. CASE x \in Deliverable(worker.det)
        <5>1. x \in Heard(worker.det)
          BY <4>2 DEF Deliverable, Heard
        <5> QED
          BY <3>1, <3>6, <4>2, <5>1 DEF AudioInv, OrderInv, ChannelInv, DetectorInv
      <4>3. CASE x = x0
        BY <3>1, <3>5, <3>6, <4>3 DEF AudioInv, OrderInv, ChannelInv
      <4> QED
        BY <4>1, <4>2, <4>3
    <3>9. Heard(worker'.det) \subseteq Heard(worker.det)
            \cup (IF channel' = channel THEN {} ELSE {Head(channel).n})
      BY <3>7 DEF x0
    <3> QED
      BY <1>1, <1>3, <1>4, <1>6, <1>7, <2>2, <3>1, <3>2, <3>4, <3>8, <3>9, GiveKeepsOrder
      DEF Consumed
  <2> QED
    BY <1>3, <2>1, <2>2
<1>10. Inv'
  BY WorkerStep DEF Worker, AudioInv
<1> QED
  BY <1>8, <1>9, <1>10 DEF AudioInv

-----------------------------------------------------------------------------
(* The device: a chunk is newer than all there was.                        *)

LEMMA DeviceKeepsOrder ==
  ASSUME AudioInv, DeviceCallback
  PROVE  AudioInv'
<1> USE DEF AudioInv, Inv
<1>0. /\ channel \in Seq(Chunks) /\ Len(channel) \in Nat /\ mic \in Nat
      /\ takes \in Seq(Takes) /\ Len(takes) \in Nat
  BY AudioAssumption, WorkerTypes DEF TypeOK
<1>1. /\ mic' = mic + 1
      /\ UNCHANGED <<mode, joining, gate, active, splits, request, answer, receiver, callbacks,
                     worker, user, got>>
  BY DEF DeviceCallback, startVars, gateVars, flushVars
<1>2. PICK voice \in BOOLEAN :
        \/ channel' = Append(channel, [n |-> mic', voice |-> voice])
        \/ channel' = channel
  BY DEF DeviceCallback
<1>3. ASSUME NEW i \in 1 .. Len(channel')
      PROVE  \/ i \in 1 .. Len(channel) /\ channel'[i] = channel[i]
             \/ i = Len(channel) + 1 /\ channel'[i].n = mic'
  <2> DEFINE chunk == [n |-> mic', voice |-> voice]
  <2>1. chunk.n = mic'
    OBVIOUS
  <2> HIDE DEF chunk
  <2>2. CASE channel' = Append(channel, chunk)
    BY <1>0, <2>1, <2>2
  <2> QED
    BY <1>2, <2>2 DEF chunk
<1>4. Len(channel') \in Nat /\ Len(channel') <= Len(channel) + 1
  BY <1>0, <1>2
<1>5. SameTakes
  <2> DEFINE n == Len(takes)
             r == [takes[n] EXCEPT !.spoken = @ \cup {mic'}]
  <2>1. CASE takes' = takes
    BY <2>1, TakesUnchanged
  <2>2. CASE Ptt /\ active /\ takes' = [takes EXCEPT ![n].spoken = @ \cup {mic'}]
    <3>1. Len(takes) > 0
      BY <2>2 DEF ControlInv, TakeInv
    <3>2. n \in 1 .. Len(takes) /\ takes[n] \in Takes
      BY <1>0, <3>1
    <3>3. r \in Takes /\ r.from = takes[n].from /\ r.seen = takes[n].seen
          /\ r.ended = takes[n].ended
      <4>1. takes[n].spoken \cup {mic'} \in SUBSET Nat
        BY <1>0, <1>1, <3>2 DEF Takes
      <4> QED
        BY <3>2, <4>1 DEF Takes
    <3>4. takes' = [takes EXCEPT ![n] = r]
      BY <2>2, <3>2 DEF Takes
    <3> HIDE DEF n, r
    <3>5. takes' \in Seq(Takes) /\ Len(takes') = Len(takes) /\ takes'[n] = r
          /\ \A k \in 1 .. Len(takes) : k # n => takes'[k] = takes[k]
      BY <1>0, <3>2, <3>3, <3>4
    <3> QED
      BY <3>3, <3>5 DEF SameTakes
  <2> QED
    BY <2>1, <2>2 DEF DeviceCallback
<1>6. Len(takes') = Len(takes) /\ (Ptt' <=> Ptt)
      /\ (Len(takes) > 0 => /\ Last'.from = Last.from /\ Last'.seen = Last.seen
                            /\ Last'.ended = Last.ended)
  BY <1>0, <1>1, <1>5, LastKept DEF Ptt, SameTakes
<1>7. HistoryTypes'
  BY <1>1, <1>5 DEF HistoryTypes, SameTakes
<1>8. got \in Seq(Given) /\ (\A k \in 1 .. Len(got) : \A x \in got[k].chunks : x \in Nat)
  <2>1. got \in Seq(Given)
    BY DEF HistoryTypes
  <2>2. \A k \in 1 .. Len(got) : got[k] \in Given
    BY <2>1
  <2> QED
    BY <2>1, <2>2 DEF Given
<1>9. ChannelInv'
  <2> USE DEF OrderInv, ChannelInv
  <2>0. \A x \in Heard(worker.det) : x \in Nat
    <3>1. \A audio \in Seq(Chunks) : \A x \in ChunksOf(audio) : x \in Nat
      <4>1. \A c \in Chunks : c.n \in Nat
        BY AudioAssumption DEF Chunks
      <4>2. \A audio \in Seq(Chunks) : \A i \in 1 .. Len(audio) : audio[i] \in Chunks
        OBVIOUS
      <4> QED
        BY <4>1, <4>2 DEF ChunksOf
    <3>2. /\ worker.det.pre \in Seq(Chunks) /\ worker.det.segment \in Seq(Chunks)
          /\ worker.det.capture \in Seq(Chunks)
      BY WorkerTypes DEF Detector
    <3> QED
      BY <3>1, <3>2 DEF Heard
  <2>1. /\ \A k \in 1 .. Len(got) : \A x \in got[k].chunks : x < mic'
        /\ \A x \in Heard(worker.det) : x < mic'
        /\ Len(takes) > 0 => Last.from < mic'
    <3>1. Len(takes) > 0 => Last.from \in Nat
      <4>1. Len(takes) > 0 => Last \in Takes
        BY <1>0 DEF Last
      <4> QED
        BY <4>1 DEF Takes
    <3> QED
      BY <1>0, <1>1, <1>8, <2>0, <3>1
  <2>2. \A i \in 1 .. Len(channel) : channel[i].n < mic' /\ channel[i].n \in Nat
    <3>1. \A i \in 1 .. Len(channel) : channel[i] \in Chunks
      BY <1>0
    <3>2. \A c \in Chunks : c.n \in Nat
      BY AudioAssumption DEF Chunks
    <3> QED
      BY <1>0, <1>1, <3>1, <3>2
  <2>3. ASSUME NEW i \in 1 .. Len(channel')
        PROVE  /\ channel'[i].n <= mic'
               /\ Len(takes') > 0 => channel'[i].n > Last'.from
               /\ \A k \in 1 .. Len(got') : \A x \in got'[k].chunks : x < channel'[i].n
               /\ \A x \in Heard(worker'.det) : x < channel'[i].n
    <3>1. CASE i \in 1 .. Len(channel) /\ channel'[i] = channel[i]
      BY <1>0, <1>1, <1>6, <2>2, <3>1
    <3>2. CASE channel'[i].n = mic'
      BY <1>0, <1>1, <1>6, <2>1, <3>2
    <3> QED
      BY <1>3, <3>1, <3>2
  <2>4. ASSUME NEW i \in 1 .. Len(channel'), NEW j \in 1 .. Len(channel'), i < j
        PROVE  channel'[i].n < channel'[j].n
    <3>1. i \in 1 .. Len(channel) /\ channel'[i] = channel[i]
      BY <1>0, <1>3, <1>4, <2>4
    <3> QED
      BY <1>3, <2>2, <2>4, <3>1
  <2>5. /\ \A k \in 1 .. Len(got') : \A x \in got'[k].chunks : x <= mic'
        /\ \A x \in Heard(worker'.det) : x <= mic'
        /\ Len(takes') > 0 => Last'.from <= mic'
    <3>1. /\ \A k \in 1 .. Len(got) : \A x \in got[k].chunks : x <= mic'
          /\ \A x \in Heard(worker.det) : x <= mic'
      <4>1. mic' \in Nat
        BY <1>0, <1>1
      <4>2. \A x \in Nat : x < mic' => x <= mic'
        BY <4>1
      <4> QED
        BY <1>8, <2>0, <2>1, <4>2
    <3>2. Len(takes) > 0 => Last.from <= mic'
      <4>1. Len(takes) > 0 => Last \in Takes
        BY <1>0 DEF Last
      <4>2. Len(takes) > 0 => Last.from \in Nat
        BY <4>1 DEF Takes
      <4> QED
        BY <1>0, <1>1, <4>2
    <3> QED
      BY <1>1, <1>6, <3>1, <3>2
  <2> QED
    BY <2>3, <2>4, <2>5
<1>10. DetectorInv'
  <2>1. worker.was => Len(takes) > 0
    BY DEF ControlInv, SeenInv
  <2> QED
    BY <1>1, <1>6, <2>1 DEF OrderInv, DetectorInv
<1>11. AnswerInv'
  <2>1. answer # <<>> => Len(takes) > 0
    BY DEF ControlInv, TakeInv, ContinuousInv, FlushInv
  <2>2. ASSUME answer # <<>>, NEW x \in ChunksOf(answer[1])
        PROVE  x <= mic' /\ \A i \in 1 .. Len(channel') : x < channel'[i].n
    <3>1. x \in Nat /\ x <= mic
      <4>1. answer[1] \in Seq(Chunks)
        BY <2>2 DEF TypeOK
      <4>2. PICK i \in 1 .. Len(answer[1]) : x = answer[1][i].n
        BY <2>2 DEF ChunksOf
      <4>3. answer[1][i] \in Chunks
        BY <4>1
      <4> QED
        BY <2>2, <4>2, <4>3, AudioAssumption DEF Chunks, OrderInv, AnswerInv
    <3>2. x < mic' /\ x <= mic'
      BY <1>0, <1>1, <3>1
    <3>3. \A i \in 1 .. Len(channel) : x < channel[i].n
      BY <2>2 DEF OrderInv, AnswerInv
    <3> QED
      BY <1>3, <3>2, <3>3
  <2> QED
    BY <1>1, <1>6, <2>1, <2>2 DEF OrderInv, AnswerInv
<1>12. UnseenInv'
  <2>1. Ptt /\ gate => Len(takes) > 0
    BY DEF ControlInv, TakeInv
  <2> QED
    BY <1>1, <1>6, <2>1 DEF OrderInv, UnseenInv
<1>13. SpokenOrder' /\ OwnTake'
  BY <1>1, <1>5 DEF OrderInv, SpokenOrder, OwnTake, SameTakes, HistoryTypes
<1>14. ControlInv'
  BY <1>1, <1>6 DEF ControlInv, TakeInv, ContinuousInv, PassInv, FlushInv, SeenInv, JoinInv
<1>15. Inv'
  BY DeviceStep
<1> QED
  BY <1>7, <1>9, <1>10, <1>11, <1>12, <1>13, <1>14, <1>15 DEF OrderInv

-----------------------------------------------------------------------------
LEMMA AudioStart == Init => AudioInv
<1> SUFFICES ASSUME Init PROVE AudioInv
  OBVIOUS
<1>1. Inv
  BY Start
<1>2. /\ mic = 0 /\ channel = <<>> /\ joining = <<>> /\ ~active /\ ~request /\ answer = <<>>
      /\ receiver = "here" /\ user = "rest" /\ got = <<>> /\ gate = ~Ptt
      /\ takes = IF Ptt THEN <<>> ELSE <<NewTake>>
  BY DEF Init
<1>3. /\ worker.pc = "look" /\ worker.was = ~Ptt /\ worker.det.pre = <<>>
      /\ worker.det.segment = <<>> /\ worker.det.capture = <<>>
      /\ ~worker.det.pttRecording
  <2> DEFINE det == [NewDetector EXCEPT !.pttRecording = Ptt /\ ~Ptt]
  <2>1. /\ det.pre = <<>> /\ det.segment = <<>> /\ det.capture = <<>>
        /\ ~det.pttRecording
    BY DEF NewDetector
  <2> HIDE DEF det
  <2>2. worker = [pc |-> "look", det |-> det, was |-> ~Ptt, now |-> FALSE,
                  split |-> FALSE]
    BY DEF Init, FreshWorker, det
  <2> QED
    BY <2>1, <2>2
<1>4. Heard(worker.det) = {} /\ Deliverable(worker.det) = {}
  BY <1>3, NoChunks DEF Heard, Deliverable
<1>5. /\ takes \in Seq(Takes) /\ (Ptt => Len(takes) = 0)
      /\ ~Ptt => Len(takes) = 1 /\ Last.ended = 0 /\ Last.seen /\ Last.from = 0
  <2>1. CASE Ptt
    BY <1>2, <2>1
  <2>2. CASE ~Ptt
    <3>1. NewTake \in Takes /\ NewTake.ended = 0 /\ NewTake.seen /\ NewTake.from = 0
      BY <1>2, <2>2 DEF NewTake, Takes, Outcomes
    <3> HIDE DEF NewTake
    <3> QED
      BY <1>2, <2>2, <3>1 DEF Last
  <2> QED
    BY <2>1, <2>2
<1>6. HistoryTypes
  BY <1>2, <1>5 DEF HistoryTypes
<1>7. ControlInv
  <2>1. Ptt \in BOOLEAN
    BY DEF Ptt
  <2>2. CASE Ptt
    BY <1>2, <1>3, <1>5, <2>2
    DEF ControlInv, TakeInv, ContinuousInv, PassInv, FlushInv, SeenInv, JoinInv
  <2>3. CASE ~Ptt
    <3>1. gate /\ worker.was
      BY <1>2, <1>3, <2>3, Zenon
    <3>2. Len(takes) > 0 /\ Last.ended = 0 /\ Last.seen
      BY <1>5, <2>3
    <3> QED
      BY <1>2, <1>3, <2>3, <3>1, <3>2
      DEF ControlInv, TakeInv, ContinuousInv, PassInv, FlushInv, SeenInv, JoinInv
  <2> QED
    BY <2>2, <2>3
<1>8. OrderInv
  BY <1>2, <1>3, <1>4, <1>5
  DEF OrderInv, ChannelInv, DetectorInv, AnswerInv, UnseenInv, SpokenOrder, OwnTake
<1> QED
  BY <1>1, <1>6, <1>7, <1>8 DEF AudioInv

LEMMA AudioNext ==
  ASSUME ~Torn, ~Slow, AudioInv, [Next]_vars
  PROVE  AudioInv'
<1>1. CASE DeviceCallback
  BY <1>1, DeviceKeepsOrder
<1>2. CASE Worker
  BY <1>2, LookStep, BeginFlushStep, DrainStep, FlushStep, FollowStep, IdlePassStep,
     PushStep DEF Worker
<1>3. CASE User
  BY <1>3, OpenStep, QuietUserSteps, ReceiveStep, EndSteps, RestartStep DEF User
<1>4. CASE UNCHANGED vars
  <2>1. Inv'
    BY <1>4 DEF AudioInv, Inv, TypeOK, SegmentFits, vars, Chunks, WorkerType, Detector, Fits
  <2>2. HistoryTypes' /\ ControlInv' /\ OrderInv'
    <3>1. (Ptt' <=> Ptt) /\ Last' = Last
      BY <1>4 DEF vars, Ptt, Last
    <3>2. HistoryTypes' /\ ControlInv'
      BY <1>4, <3>1 DEF vars, AudioInv, HistoryTypes, ControlInv, TakeInv, ContinuousInv,
         PassInv, FlushInv, SeenInv, JoinInv
    <3>3. ChannelInv' /\ DetectorInv' /\ UnseenInv' /\ AnswerInv'
      BY <1>4, <3>1 DEF vars, AudioInv, OrderInv, ChannelInv, DetectorInv, UnseenInv, AnswerInv
    <3>4. SpokenOrder' /\ OwnTake'
      BY <1>4 DEF vars, AudioInv, OrderInv, SpokenOrder, OwnTake
    <3> QED
      BY <3>2, <3>3, <3>4 DEF OrderInv
  <2> QED
    BY <2>1, <2>2 DEF AudioInv
<1> QED
  BY <1>1, <1>2, <1>3, <1>4 DEF Next

(* When no press or release straddles a pass of the worker and a release    *)
(* waits as long as the worker needs, whose audio is where is settled: an    *)
(* open gate belongs to the last take, the detector and the answer hold     *)
(* nothing older than the take a pass has seen, and what waits on the        *)
(* channel is newer than all that was heard.                               *)
THEOREM TakeAudioInvariant == ~Torn /\ ~Slow => (Spec => []AudioInv)
<1> SUFFICES ASSUME ~Torn, ~Slow PROVE Spec => []AudioInv
  OBVIOUS
<1>1. Init => AudioInv
  BY AudioStart
<1>2. AudioInv /\ [Next]_vars => AudioInv'
  BY AudioNext
<1> QED
  BY <1>1, <1>2, PTL DEF Spec

(* What is given to the queue is given once and in the order it was spoken, *)
(* across silence, maximum length, releases, aborts and restarts, whatever   *)
(* the sizes of the buffers; taps between two passes are excepted.          *)
THEOREM SpokenInOrder == ~Torn /\ ~Slow => (Spec => []SpokenOrder)
<1> SUFFICES ASSUME ~Torn, ~Slow PROVE Spec => []SpokenOrder
  OBVIOUS
<1>1. AudioInv => SpokenOrder
  BY DEF AudioInv, OrderInv
<1> QED
  BY <1>1, TakeAudioInvariant, PTL

(* No take is given audio from before it began or from after it ended: the  *)
(* answer a release collects and the detector it was cut from belong to its *)
(* own take.                                                               *)
THEOREM TakesKeepTheirAudio == ~Torn /\ ~Slow => (Spec => []OwnTake)
<1> SUFFICES ASSUME ~Torn, ~Slow PROVE Spec => []OwnTake
  OBVIOUS
<1>1. AudioInv => OwnTake
  BY DEF AudioInv, OrderInv
<1> QED
  BY <1>1, TakeAudioInvariant, PTL

-----------------------------------------------------------------------------
(* Held takes.  A set with a bound on its elements, counted the way chunks  *)
(* are lost: one at a time.                                                *)
AtMost(G, n) == IsFiniteSet(G) /\ Cardinality(G) <= n

(* Fewer elements are no more. *)
LEMMA AtMostFewer ==
  ASSUME NEW G, NEW H \in SUBSET G, NEW n \in Nat, NEW m \in Nat, n <= m, AtMost(G, n)
  PROVE  AtMost(H, m)
<1>1. IsFiniteSet(H) /\ Cardinality(H) <= Cardinality(G)
  BY FS_Subset DEF AtMost
<1>2. Cardinality(H) \in Nat /\ Cardinality(G) \in Nat
  BY <1>1, FS_CardinalityType DEF AtMost
<1> QED
  BY <1>1, <1>2 DEF AtMost

(* One more element counts one. *)
LEMMA AtMostOneMore ==
  ASSUME NEW G, NEW x, NEW H \in SUBSET (G \cup {x}), NEW n \in Nat, NEW m \in Nat,
         n + 1 <= m, AtMost(G, n)
  PROVE  AtMost(H, m)
<1>1. IsFiniteSet(G \cup {x}) /\ Cardinality(G \cup {x}) <= Cardinality(G) + 1
  <2>1. IsFiniteSet(G)
    BY DEF AtMost
  <2>2. Cardinality(G) \in Nat
    BY <2>1, FS_CardinalityType
  <2>3. /\ IsFiniteSet(G \cup {x})
        /\ Cardinality(G \cup {x}) = IF x \in G THEN Cardinality(G) ELSE Cardinality(G) + 1
    BY <2>1, FS_AddElement
  <2> QED
    BY <2>2, <2>3
<1>2. Cardinality(G) \in Nat /\ Cardinality(G \cup {x}) \in Nat
  BY <1>1, FS_CardinalityType DEF AtMost
<1>3. AtMost(G \cup {x}, m)
  BY <1>1, <1>2 DEF AtMost
<1> QED
  BY <1>3, AtMostFewer

LEMMA AtMostNothing == \A n \in Nat : AtMost({}, n)
BY FS_EmptySet DEF AtMost

(* A recording has no more chunks than its length. *)
LEMMA ChunksCounted ==
  ASSUME NEW audio \in Seq(Chunks)
  PROVE  AtMost(ChunksOf(audio), Len(audio))
<1> DEFINE f == [i \in 1 .. Len(audio) |-> audio[i].n]
<1>1. Len(audio) \in Nat /\ 0 \in Int
  OBVIOUS
<1>2. IsFiniteSet(1 .. Len(audio)) /\ Cardinality(1 .. Len(audio)) = Len(audio)
  BY <1>1, FS_Interval
<1>3. f \in Surjection(1 .. Len(audio), ChunksOf(audio))
  BY DEF Surjection, ChunksOf
<1> HIDE DEF f
<1>4. IsFiniteSet(ChunksOf(audio))
  BY <1>2, <1>3, FS_Surjection
<1>5. Cardinality(ChunksOf(audio)) <= Cardinality(1 .. Len(audio))
  BY <1>2, <1>3, FS_Surjection
<1> QED
  BY <1>2, <1>4, <1>5 DEF AtMost

(* What a recording must have when it lacks little of a long take. *)
LEMMA LongEnough ==
  ASSUME NEW audio \in Seq(Chunks), NEW S, NEW n \in Nat, NEW m \in Nat,
         AtMost(S \ ChunksOf(audio), m), Cardinality(S) >= n + m
  PROVE  Len(audio) >= n
<1> DEFINE A == S \ ChunksOf(audio)
           B == ChunksOf(audio)
<1>1. IsFiniteSet(B) /\ Cardinality(B) <= Len(audio) /\ Len(audio) \in Nat
  BY ChunksCounted DEF AtMost
<1>2. IsFiniteSet(A) /\ Cardinality(A) <= m
  BY DEF AtMost
<1>3. S \in SUBSET (A \cup B)
  OBVIOUS
<1> HIDE DEF A, B
<1>4. Cardinality(A) \in Nat /\ Cardinality(B) \in Nat
  BY <1>1, <1>2, FS_CardinalityType
<1>5. IsFiniteSet(A \cup B) /\ Cardinality(A \cup B) <= Cardinality(A) + Cardinality(B)
  <2>1. A \cap B \in SUBSET A
    OBVIOUS
  <2>2. IsFiniteSet(A \cap B)
    BY <1>2, <2>1, FS_Subset
  <2>3. Cardinality(A \cap B) \in Nat
    BY <2>2, FS_CardinalityType
  <2>4. /\ IsFiniteSet(A \cup B)
        /\ Cardinality(A \cup B) = Cardinality(A) + Cardinality(B) - Cardinality(A \cap B)
    BY <1>1, <1>2, FS_Union
  <2> QED
    BY <1>4, <2>3, <2>4
<1>6. IsFiniteSet(S) /\ Cardinality(S) <= Cardinality(A \cup B)
  BY <1>3, <1>5, FS_Subset
<1>7. Cardinality(S) \in Nat /\ Cardinality(A \cup B) \in Nat
  BY <1>5, <1>6, FS_CardinalityType
<1> QED
  BY <1>1, <1>2, <1>4, <1>5, <1>6, <1>7

(* What one chunk does to a detector that does not look for silence. *)
LEMMA PushGrows ==
  ASSUME NEW d \in Detector(Chunks), NEW frame \in Chunks, ~d.endOnSilence,
         NEW e, e = Push(d, frame).det
  PROVE  /\ ~e.endOnSilence /\ e.pttRecording = d.pttRecording
         /\ e.capture = IF d.pttRecording THEN Append(d.capture, frame) ELSE d.capture
         /\ Len(e.pre) <= Len(d.pre) + 1
         /\ Len(e.segment) <= Len(d.segment) + 1 \/ Len(e.segment) <= Len(d.pre) + 2
         /\ e.subsegmentsSent => d.subsegmentsSent \/ Len(d.segment) + 1 >= MaxSegment
<1> DEFINE c == IF d.pttRecording
                THEN [d EXCEPT !.capture = Append(d.capture, frame)] ELSE d
<1>1. /\ c \in Detector(Chunks) /\ ~c.endOnSilence /\ c.pttRecording = d.pttRecording
      /\ c.capture = IF d.pttRecording THEN Append(d.capture, frame) ELSE d.capture
      /\ c.pre = d.pre /\ c.segment = d.segment /\ c.speaking = d.speaking
      /\ c.subsegmentsSent = d.subsegmentsSent
  <2>1. Append(d.capture, frame) \in Seq(Chunks)
    BY DEF Detector
  <2> QED
    BY <2>1 DEF Detector
<1>2. e = IF c.speaking THEN HearSpeaking(c, frame).det ELSE HearIdle(c, frame).det
  BY DEF Push
<1> HIDE DEF c
<1>3. c.pre \in Seq(Chunks) /\ c.segment \in Seq(Chunks) /\ Len(c.segment) \in Nat
      /\ Len(c.pre) \in Nat /\ Len(<<>>) = 0 /\ MaxSegment \in Nat
  BY <1>1, DetectorAssumption DEF Detector
<1>4. CASE ~c.speaking
  <2> DEFINE p == Remember(c.pre, frame)
  <2>1. p \in Seq(Chunks) /\ Len(p) <= Len(c.pre) + 1
    BY <1>3 DEF Remember
  <2>2. Len(Append(p, frame)) = Len(p) + 1 /\ Len(p) \in Nat
    BY <2>1
  <2>3. /\ e.pre = p /\ e.capture = c.capture /\ e.endOnSilence = c.endOnSilence
        /\ e.pttRecording = c.pttRecording /\ e.subsegmentsSent = c.subsegmentsSent
        /\ e.segment \in {c.segment, Append(p, frame)}
    BY <1>1, <1>2, <1>4 DEF HearIdle, Outcome, Quiet, Detector
  <2> QED
    BY <1>1, <1>3, <2>1, <2>2, <2>3
<1>5. CASE c.speaking
  <2> DEFINE s == [c EXCEPT !.segment = Append(c.segment, frame),
                            !.silence = IF frame.voice THEN 0 ELSE c.silence + 1]
  <2>1. /\ ~s.endOnSilence /\ s.pttRecording = c.pttRecording /\ s.capture = c.capture
        /\ s.pre = c.pre /\ s.segment = Append(c.segment, frame)
        /\ s.subsegmentsSent = c.subsegmentsSent
    BY <1>1 DEF Detector
  <2>2. s \in Detector(Chunks)
    <3>1. Append(c.segment, frame) \in Seq(Chunks)
          /\ (IF frame.voice THEN 0 ELSE c.silence + 1) \in Nat
      BY <1>1, <1>3 DEF Detector
    <3> QED
      BY <1>1, <3>1 DEF Detector
  <2>3. e = IF Len(s.segment) >= MaxSegment THEN MarkDelivered(TakeSegment(s)) ELSE s
    BY <1>2, <1>5, <2>1 DEF HearSpeaking, Outcome, Quiet
  <2> HIDE DEF s
  <2>4. Len(s.segment) = Len(c.segment) + 1
    BY <1>3, <2>1
  <2>5. CASE Len(s.segment) >= MaxSegment
    <3> DEFINE m == MarkDelivered(TakeSegment(s))
    <3>1. /\ m.endOnSilence = s.endOnSilence /\ m.pttRecording = s.pttRecording
          /\ m.capture = s.capture /\ m.pre = <<>> /\ m.segment = <<>>
      BY <2>2 DEF MarkDelivered, TakeSegment, Detector
    <3> HIDE DEF m
    <3> QED
      BY <1>1, <1>3, <2>1, <2>3, <2>4, <2>5, <3>1 DEF m
  <2>6. CASE ~(Len(s.segment) >= MaxSegment)
    BY <1>1, <1>3, <2>1, <2>3, <2>4, <2>6
  <2> QED
    BY <2>5, <2>6
<1> QED
  BY <1>4, <1>5

(* A flush leaves next to nothing, and brings a recording that is long      *)
(* enough and was not split.                                               *)
LEMMA FlushEmpties ==
  ASSUME NEW d \in Detector(Chunks), NEW out, out = FlushPtt(d)
  PROVE  /\ out.det.segment = <<>> /\ Len(out.det.pre) < PttMin /\ ~out.det.subsegmentsSent
         /\ out.det \in Detector(Chunks)
         /\ ~d.subsegmentsSent /\ Len(d.capture) >= PttMin
              => out.event = "ended" /\ out.audio = d.capture
<1> DEFINE stopped == [d EXCEPT !.pttRecording = FALSE]
           unsplit == [stopped EXCEPT !.subsegmentsSent = FALSE]
           cut == [TakeSegment(unsplit) EXCEPT !.capture = <<>>]
           idle == [TakeSegment(stopped) EXCEPT !.speaking = FALSE]
           least == IF PttMin < MinSpeech THEN PttMin ELSE MinSpeech
<1>0. PttMin \in Nat /\ MinSpeech \in Nat /\ 0 < PttMin /\ Len(<<>>) = 0
      /\ <<>> \in Seq(Chunks) /\ Len(d.pre) \in Nat /\ Len(d.capture) \in Nat
  BY DetectorAssumption DEF Detector
<1>1. stopped \in Detector(Chunks) /\ stopped.subsegmentsSent = d.subsegmentsSent
  BY DEF Detector
<1>2. unsplit \in Detector(Chunks) /\ ~unsplit.subsegmentsSent
  BY <1>1 DEF Detector
<1>3. \A s \in Detector(Chunks) :
        /\ TakeSegment(s) \in Detector(Chunks) /\ TakeSegment(s).segment = <<>>
        /\ TakeSegment(s).pre = <<>> /\ TakeSegment(s).subsegmentsSent = s.subsegmentsSent
        /\ Reset(s) \in Detector(Chunks) /\ Reset(s).segment = <<>> /\ Reset(s).pre = <<>>
        /\ ~Reset(s).subsegmentsSent
  BY <1>0 DEF TakeSegment, Reset, Detector
<1>4. /\ cut \in Detector(Chunks) /\ cut.segment = <<>> /\ cut.pre = <<>>
      /\ ~cut.subsegmentsSent
  BY <1>0, <1>2, <1>3 DEF Detector
<1>5. /\ idle \in Detector(Chunks) /\ idle.segment = <<>> /\ idle.pre = <<>>
      /\ idle.subsegmentsSent = d.subsegmentsSent
  BY <1>1, <1>3 DEF Detector
<1> HIDE DEF stopped, unsplit, cut, idle
<1>6. CASE d.subsegmentsSent
  <2>1. out \in {Outcome(cut, "ended", d.segment), Quiet(Reset(stopped))}
    BY <1>6 DEF FlushPtt, stopped, unsplit, cut
  <2> QED
    BY <1>0, <1>1, <1>3, <1>4, <1>6, <2>1 DEF Outcome, Quiet
<1>7. CASE ~d.subsegmentsSent /\ Len(d.capture) >= PttMin
  <2>1. out = Outcome(Reset(stopped), "ended", d.capture)
    BY <1>0, <1>7 DEF FlushPtt, stopped
  <2> QED
    BY <1>0, <1>1, <1>3, <2>1 DEF Outcome
<1>8. CASE ~d.subsegmentsSent /\ Len(d.capture) < PttMin /\ d.segment # <<>>
  <2>1. out = Outcome(idle, "ended", d.segment)
    BY <1>0, <1>8 DEF FlushPtt, stopped, idle
  <2> QED
    BY <1>0, <1>5, <1>8, <2>1 DEF Outcome
<1>9. CASE ~d.subsegmentsSent /\ Len(d.capture) < PttMin /\ d.segment = <<>>
  <2>1. CASE Len(d.pre) >= least
    <3>1. out = Outcome(Reset(stopped), "ended", d.pre)
      BY <1>0, <1>9, <2>1 DEF FlushPtt, stopped
    <3> QED
      BY <1>0, <1>1, <1>3, <1>9, <3>1 DEF Outcome
  <2>2. CASE ~(Len(d.pre) >= least)
    <3>1. out = Quiet(d)
      BY <1>0, <1>9, <2>2 DEF FlushPtt
    <3> QED
      BY <1>0, <1>9, <2>2, <3>1 DEF Outcome, Quiet
  <2> QED
    BY <2>1, <2>2
<1> QED
  BY <1>0, <1>6, <1>7, <1>8, <1>9

-----------------------------------------------------------------------------
(* Held takes: what is known of the worker, of its detector, of what a take *)
(* has lost so far, and of its end.                                        *)

(* Nothing looks for silence, and all that is drained is recorded. *)
UnsplitInv ==
  /\ splits = TRUE => user \in {"opened", "resumed"}
  /\ ~worker.split
  /\ worker.pc # "look" => ~worker.det.endOnSilence
  /\ worker.pc = "flush" => worker.det.pttRecording

(* The number of the last chunk the worker has taken from the channel. *)
Reached == IF channel = <<>> THEN mic ELSE channel[1].n - 1
Leftover == IF Last.seen THEN 0 ELSE PttMin - 1
Long == MaxSegment + Last.from <= Reached + 1 + Leftover

(* The buffers hold no more than what came since the take began, with the   *)
(* rest of a detector that was not reset for it.                           *)
Taking == gate \/ user = "closed" \/ request \/ worker.pc = "flush"
TakenInv ==
  Taking => /\ Len(takes) > 0
            /\ Len(worker.det.pre) + Last.from <= Reached + Leftover
            /\ Len(worker.det.segment) + Last.from <= Reached + 1 + Leftover
            /\ worker.det.subsegmentsSent => Long
EmptyInv ==
  ~Taking => /\ Len(worker.det.pre) < PttMin /\ worker.det.segment = <<>>
             /\ ~worker.det.subsegmentsSent

(* A take loses a chunk to the pass in which it began and one to the pass   *)
(* in which it ended; the rest is on the channel or recorded.              *)
Unflushed == gate \/ user = "closed" \/ (user = "wait" /\ (request \/ worker.pc = "flush"))
Recorded == IF worker.was \/ worker.pc = "flush" THEN ChunksOf(worker.det.capture) ELSE {}
Gone == Last.spoken \ (ChunksOf(channel) \cup Recorded)
Losses == (IF worker.was \/ worker.pc # "read" THEN 1 ELSE 0)
            + (IF ~gate /\ worker.pc # "read" THEN 1 ELSE 0)
GoneInv == Unflushed => AtMost(Gone, Losses)

(* A take is open until its release, or cut by a restart. *)
OutcomeInv ==
  /\ user \notin {"rest", "done"} => Last.outcome \in {"open", "cut"}
  /\ user \in {"opened", "resumed", "held", "paused"} /\ ~active => Last.outcome = "cut"
  /\ user = "orphan" /\ receiver = "here" => Last.outcome = "cut"

(* A take that is worth it is in the answer, and then in the queue. *)
Worth == Cardinality(Last.spoken) >= PttMin + 2
AnsweredInv ==
  user = "wait" /\ receiver = "lent" /\ Last.outcome = "open" /\ ~Unflushed /\ Worth =>
    Long \/ (answer # <<>> /\ AtMost(Last.spoken \ ChunksOf(answer[1]), 2))
DoneInv ==
  user = "done" /\ Last.outcome \in {"queued", "empty"} /\ Worth =>
    Long \/ AtMost(Missing(Len(takes)), 2)

HeldInv == /\ UnsplitInv /\ TakenInv /\ EmptyInv /\ GoneInv
           /\ OutcomeInv /\ AnsweredInv /\ DoneInv /\ HeldTakeWhole

LEMMA HeldTypes ==
  ASSUME AudioInv, mode = "hold"
  PROVE  /\ Ptt /\ mic \in Nat /\ MaxSegment \in Nat /\ PttMin \in Nat /\ 0 < PttMin
         /\ takes \in Seq(Takes) /\ Len(takes) \in Nat /\ (gate <=> active)
         /\ Len(takes) > 0 => Last \in Takes /\ Last.from \in Nat /\ Last.spoken \in SUBSET Nat
         /\ Reached \in Nat /\ Reached <= mic
         /\ channel # <<>> => channel[1].n \in Nat /\ Reached + 1 = channel[1].n
<1> USE DEF AudioInv, Inv
<1>1. Ptt /\ mic \in Nat /\ MaxSegment \in Nat /\ PttMin \in Nat /\ 0 < PttMin
  BY AudioAssumption, DetectorAssumption DEF Ptt, TypeOK
<1>2. takes \in Seq(Takes) /\ Len(takes) \in Nat
  BY DEF HistoryTypes
<1>3. Len(takes) > 0 => Last \in Takes
  BY <1>2 DEF Last
<1>4. Len(takes) > 0 => Last.from \in Nat /\ Last.spoken \in SUBSET Nat
  BY <1>3 DEF Takes
<1>5. gate <=> active
  BY <1>1 DEF ControlInv, TakeInv
<1>6. channel # <<>> => channel[1].n \in Nat \ {0} /\ channel[1].n <= mic
  <2> SUFFICES ASSUME channel # <<>>
               PROVE  channel[1].n \in Nat \ {0} /\ channel[1].n <= mic
    OBVIOUS
  <2>1. channel \in Seq(Chunks) /\ 1 \in 1 .. Len(channel)
    BY DEF TypeOK
  <2>2. channel[1] \in Chunks
    BY <2>1
  <2>3. \A c \in Chunks : c.n \in Nat \ {0}
    BY AudioAssumption DEF Chunks
  <2> QED
    BY <2>1, <2>2, <2>3 DEF OrderInv, ChannelInv
<1>7. /\ Reached \in Nat /\ Reached <= mic
      /\ channel # <<>> => Reached + 1 = channel[1].n
  BY <1>1, <1>6 DEF Reached
<1> QED
  BY <1>1, <1>2, <1>3, <1>4, <1>5, <1>6, <1>7

(* What has been reached stays reached; a chunk that is taken is new.      *)
LEMMA ReachedMoves ==
  ASSUME AudioInv, mode = "hold"
  PROVE  /\ DeviceCallback => Reached' \in Nat /\ Reached' >= Reached
         /\ UNCHANGED <<mic, channel>> => Reached' = Reached
         /\ mic' = mic /\ channel # <<>> /\ channel' = Tail(channel)
              => Reached' \in Nat /\ Reached' >= Reached + 1
<1>0. /\ mic \in Nat /\ Reached \in Nat /\ Reached <= mic
      /\ channel # <<>> => channel[1].n \in Nat /\ Reached + 1 = channel[1].n
  BY HeldTypes
<1>1. channel \in Seq(Chunks) /\ Len(channel) \in Nat
  BY DEF AudioInv, Inv, TypeOK
<1>2. ASSUME DeviceCallback
      PROVE  Reached' \in Nat /\ Reached' >= Reached
  <2>1. PICK voice \in BOOLEAN :
          \/ channel' = Append(channel, [n |-> mic', voice |-> voice])
          \/ channel' = channel
    BY <1>2 DEF DeviceCallback
  <2>2. mic' = mic + 1
    BY <1>2 DEF DeviceCallback
  <2>3. CASE channel' = channel
    BY <1>0, <2>2, <2>3 DEF Reached
  <2> DEFINE chunk == [n |-> mic', voice |-> voice]
  <2>4. chunk.n = mic'
    OBVIOUS
  <2> HIDE DEF chunk
  <2>5. CASE channel' = Append(channel, chunk)
    <3>1. channel' # <<>> /\ channel'[1] = IF channel = <<>> THEN chunk ELSE channel[1]
      BY <1>1, <2>5
    <3> QED
      BY <1>0, <2>2, <2>4, <3>1 DEF Reached
  <2> QED
    BY <2>1, <2>3, <2>5 DEF chunk
<1>3. ASSUME mic' = mic, channel # <<>>, channel' = Tail(channel)
      PROVE  Reached' \in Nat /\ Reached' >= Reached + 1
  <2>1. CASE Tail(channel) = <<>>
    BY <1>0, <1>3, <2>1 DEF AudioInv, OrderInv, ChannelInv, Reached
  <2>2. CASE Tail(channel) # <<>>
    <3>1. Tail(channel)[1] = channel[2] /\ 1 \in 1 .. Len(channel) /\ 2 \in 1 .. Len(channel)
      BY <1>1, <1>3, <2>2
    <3>2. channel[1].n < channel[2].n
      BY <3>1 DEF AudioInv, OrderInv, ChannelInv
    <3>3. Reached' = channel[2].n - 1 /\ Reached = channel[1].n - 1
      BY <1>3, <2>2, <3>1 DEF Reached
    <3>4. channel[2].n \in Nat
      <4>1. channel[2] \in Chunks
        BY <1>1, <3>1
      <4> QED
        BY <4>1, AudioAssumption DEF Chunks
    <3> QED
      BY <1>0, <1>3, <3>2, <3>3, <3>4
  <2> QED
    BY <2>1, <2>2
<1>4. UNCHANGED <<mic, channel>> => Reached' = Reached
  BY DEF Reached
<1> QED
  BY <1>2, <1>3, <1>4

(* The history of a step that neither begins nor ends a take. *)
LEMMA WholeStays ==
  ASSUME HeldTakeWhole, UNCHANGED <<mode, takes, got>>
  PROVE  HeldTakeWhole'
BY DEF HeldTakeWhole, Served, Left, Whole, Missing

(* The threads of the user that end nothing. *)
LEMMA HeldUser ==
  ASSUME AudioInv, ~Torn, mode = "hold", HeldInv,
         \/ ResumeCallbacks \/ ChooseSplitting \/ PauseCallbacks \/ CloseGate
         \/ RequestFlush
  PROVE  HeldInv'
<1>1. UNCHANGED <<mode, mic, channel, worker, answer, takes, got>>
  BY DEF ResumeCallbacks, ChooseSplitting, PauseCallbacks, CloseGate, RequestFlush,
         startVars, gateVars, flushVars
<1>2. Last' = Last /\ Reached' = Reached /\ Leftover' = Leftover /\ Recorded' = Recorded
  BY <1>1 DEF Last, Reached, Leftover, Recorded
<1>3. Gone' = Gone /\ Long' = Long /\ Worth' = Worth
  BY <1>1, <1>2 DEF Gone, Long, Worth
<1>4. /\ Ptt /\ (gate <=> active) /\ gate \in BOOLEAN /\ request \in BOOLEAN
      /\ worker.pc \in {"look", "decide", "flush", "read"}
      /\ ControlInv
  BY HeldTypes, WorkerTypes DEF AudioInv
<1>5. /\ request \/ worker.pc = "flush" => user \in Waits \cup {"done", "rest"}
      /\ user = "closed" => worker.pc \in {"look", "read"} /\ ~request /\ ~gate
      /\ gate => user \in {"opened", "resumed", "held", "paused"}
  BY <1>4 DEF ControlInv, FlushInv, TakeInv, PassInv, Waits
<1>6. UnsplitInv'
  BY <1>1 DEF HeldInv, UnsplitInv, ResumeCallbacks, ChooseSplitting, PauseCallbacks, CloseGate,
     RequestFlush, Borrow, gateVars
<1>7. Taking' = Taking
  BY <1>1, <1>4, <1>5 DEF Taking, ResumeCallbacks, ChooseSplitting, PauseCallbacks, CloseGate,
     RequestFlush, Borrow, Waits, gateVars, flushVars
<1>8. TakenInv' /\ EmptyInv'
  BY <1>1, <1>2, <1>3, <1>7 DEF HeldInv, TakenInv, EmptyInv
<1>9. (Unflushed' => Unflushed) /\ (gate' => gate)
  <2>1. CASE CloseGate
    BY <1>1, <1>4, <1>5, <2>1 DEF Unflushed, CloseGate, Borrow, Waits
  <2>2. CASE RequestFlush
    BY <1>1, <2>2 DEF Unflushed, RequestFlush, Borrow, gateVars
  <2>3. CASE ResumeCallbacks \/ ChooseSplitting \/ PauseCallbacks
    <3>1. gate' = gate /\ user' \notin {"closed", "wait"}
      BY <2>3 DEF ResumeCallbacks, ChooseSplitting, PauseCallbacks, gateVars
    <3> QED
      BY <3>1 DEF Unflushed
  <2> QED
    BY <2>1, <2>2, <2>3
<1>10. GoneInv'
  <2>1. Losses \in Nat /\ Losses' \in Nat /\ Losses <= Losses'
    BY <1>1, <1>9 DEF Losses
  <2>2. Gone' \in SUBSET Gone
    BY <1>3
  <2> QED
    BY <1>9, <2>1, <2>2, AtMostFewer DEF HeldInv, GoneInv
<1>11. OutcomeInv'
  BY <1>1, <1>2, <1>4, <1>5 DEF HeldInv, OutcomeInv, ResumeCallbacks, ChooseSplitting,
     PauseCallbacks, CloseGate, RequestFlush, Borrow, gateVars, flushVars
<1>12. AnsweredInv' /\ DoneInv'
  <2>1. user' = "wait" => Unflushed' \/ Last'.outcome = "cut"
    BY <1>1, <1>2, <1>4, <1>5 DEF HeldInv, OutcomeInv, Unflushed, ResumeCallbacks,
       ChooseSplitting, PauseCallbacks, CloseGate, RequestFlush, Borrow, gateVars
  <2>2. user' # "done"
    BY DEF ResumeCallbacks, ChooseSplitting, PauseCallbacks, CloseGate, RequestFlush, Borrow
  <2> QED
    BY <2>1, <2>2 DEF AnsweredInv, DoneInv
<1> QED
  BY <1>1, <1>6, <1>8, <1>10, <1>11, <1>12, WholeStays DEF HeldInv

(* The end of the history after a step on the last take. *)
LEMMA LastSet ==
  ASSUME takes \in Seq(Takes), Len(takes) > 0, NEW r \in Takes,
         takes' = [takes EXCEPT ![Len(takes)] = r]
  PROVE  /\ Len(takes') = Len(takes) /\ Last' = r
         /\ \A k \in 1 .. Len(takes) : k # Len(takes) => takes'[k] = takes[k]
<1> DEFINE n == Len(takes)
<1>1. n \in 1 .. Len(takes) /\ takes' = [takes EXCEPT ![n] = r]
  OBVIOUS
<1> HIDE DEF n
<1>2. /\ Len(takes') = Len(takes) /\ takes'[n] = r
      /\ \A k \in 1 .. Len(takes) : k # n => takes'[k] = takes[k]
  BY <1>1
<1> QED
  BY <1>2 DEF Last, n

(* What is given to one take does not change another. *)
LEMMA MissingKept ==
  ASSUME got \in Seq(Given), NEW k, takes'[k].spoken = takes[k].spoken,
         \/ got' = got
         \/ \E g \in Given : g.take # k /\ got' = Append(got, g)
  PROVE  Missing(k)' = Missing(k)
<1>1. CASE got' = got
  BY <1>1 DEF Missing
<1>2. CASE \E g \in Given : g.take # k /\ got' = Append(got, g)
  <2>1. PICK g \in Given : g.take # k /\ got' = Append(got, g)
    BY <1>2
  <2> DEFINE n == Len(got)
  <2>2. /\ n \in Nat /\ Len(got') = n + 1 /\ got'[n + 1] = g
        /\ \A j \in 1 .. n : got'[j] = got[j]
    BY <2>1
  <2>3. {j \in 1 .. Len(got') : got'[j].take = k} = {j \in 1 .. n : got[j].take = k}
    BY <2>1, <2>2
  <2>4. {got'[i].chunks : i \in {j \in 1 .. n : got[j].take = k}}
          = {got[i].chunks : i \in {j \in 1 .. n : got[j].take = k}}
    BY <2>2
  <2> QED
    BY <2>3, <2>4 DEF Missing
<1> QED
  BY <1>1, <1>2

(* A take that has ended keeps what it has. *)
LEMMA WholeKept ==
  ASSUME HeldTakeWhole, mode' = mode, Len(takes) \in Nat,
         \A k \in 1 .. Len(takes') :
           \/ k \in 1 .. Len(takes) /\ takes'[k] = takes[k] /\ Missing(k)' = Missing(k)
           \/ takes'[k].ended = 0 \/ takes'[k].outcome = "aborted"
           \/ (Served(k) /\ takes[k].ended - takes[k].from + 1 + Left(k) < MaxSegment
                 => Whole(k))'
  PROVE  HeldTakeWhole'
<1> SUFFICES ASSUME mode = "hold", NEW k \in 1 .. Len(takes'), Served(k)',
                    (takes[k].ended - takes[k].from + 1 + Left(k) < MaxSegment)'
             PROVE  Whole(k)'
  BY DEF HeldTakeWhole
<1> SUFFICES ASSUME k \in 1 .. Len(takes), takes'[k] = takes[k],
                    Missing(k)' = Missing(k)
             PROVE  Whole(k)'
  BY DEF Served
<1>1. k \in 1 .. Len(takes) /\ takes'[k] = takes[k] /\ Missing(k)' = Missing(k)
  OBVIOUS
<1>2. Served(k) /\ takes[k].ended - takes[k].from + 1 + Left(k) < MaxSegment
  BY <1>1 DEF Served, Left
<1>3. Whole(k)
  BY <1>1, <1>2 DEF HeldTakeWhole
<1> QED
  BY <1>1, <1>3 DEF Whole

(* The end of a take, and what it may have been. *)
LEMMA OutcomeSet ==
  ASSUME takes \in Seq(Takes), Len(takes) > 0, Last.ended = 0,
         NEW outcome \in Outcomes, EndTake(outcome)
  PROVE  /\ Len(takes') = Len(takes)
         /\ \A k \in 1 .. Len(takes) : k # Len(takes) => takes'[k] = takes[k]
         /\ Last'.from = Last.from /\ Last'.seen = Last.seen /\ Last'.spoken = Last.spoken
         /\ Last'.ended = 0
         /\ Last'.outcome = IF Last.outcome = "open" THEN outcome ELSE Last.outcome
<1> DEFINE r == [Last EXCEPT !.outcome = outcome]
<1>1. Last \in Takes
  BY DEF Last
<1>2. /\ r \in Takes /\ r.from = Last.from /\ r.seen = Last.seen /\ r.spoken = Last.spoken
      /\ r.ended = Last.ended /\ r.outcome = outcome
  BY <1>1 DEF Takes
<1>3. CASE Last.outcome = "open"
  <2>1. takes' = [takes EXCEPT ![Len(takes)] = r]
    BY <1>1, <1>3 DEF EndTake, Last, Takes
  <2> HIDE DEF r
  <2> QED
    BY <1>2, <1>3, <2>1, LastSet
<1>4. CASE Last.outcome # "open"
  BY <1>4 DEF EndTake, Last
<1> QED
  BY <1>3, <1>4

(* A release that has its answer, or gives up on it. *)
LEMMA HeldReleased ==
  ASSUME AudioInv, ~Slow, mode = "hold", HeldInv, ReceiveAnswer \/ Timeout \/ NoReceiver
  PROVE  HeldInv'
<1>1. /\ UNCHANGED <<mode, mic, channel, worker, gate, active, splits, request>>
      /\ user \in Waits /\ user' = "done"
  BY DEF ReceiveAnswer, Timeout, NoReceiver, Waits, startVars, gateVars, flushVars
<1>2. /\ ControlInv /\ Ptt /\ takes \in Seq(Takes) /\ Len(takes) \in Nat /\ (gate <=> active)
      /\ got \in Seq(Given) /\ mic \in Nat /\ Reached \in Nat
  BY HeldTypes DEF AudioInv, HistoryTypes
<1>3. /\ Len(takes) > 0 /\ Last.ended = 0 /\ ~gate
      /\ answer # <<>> => ~request /\ worker.pc # "flush"
  BY <1>1, <1>2 DEF ControlInv, TakeInv, FlushInv, Waits
<1>4. PICK outcome \in Outcomes :
        /\ EndTake(outcome)
        /\ \/ outcome = "queued" /\ ReceiveAnswer /\ Give(answer[1])
           \/ outcome = "empty" /\ Timeout /\ user = "wait" /\ got' = got
           \/ outcome \in {"silent", "refused", "deaf"} /\ got' = got
  BY DEF ReceiveAnswer, Timeout, NoReceiver, Outcomes
<1>5. /\ Len(takes') = Len(takes)
      /\ \A k \in 1 .. Len(takes) : k # Len(takes) => takes'[k] = takes[k]
      /\ Last'.from = Last.from /\ Last'.seen = Last.seen /\ Last'.spoken = Last.spoken
      /\ Last'.ended = 0
      /\ Last'.outcome = IF Last.outcome = "open" THEN outcome ELSE Last.outcome
  BY <1>2, <1>3, <1>4, OutcomeSet
<1>6. Reached' = Reached /\ Leftover' = Leftover /\ Long' = Long /\ Worth' = Worth
  BY <1>1, <1>5 DEF Reached, Leftover, Long, Worth
<1>7. UnsplitInv'
  BY <1>1 DEF HeldInv, UnsplitInv, Waits
<1>8. TakenInv' /\ EmptyInv'
  <2>1. Taking' = Taking
    BY <1>1 DEF Taking, Waits
  <2> QED
    BY <1>1, <1>5, <1>6, <2>1 DEF HeldInv, TakenInv, EmptyInv
<1>9. GoneInv' /\ AnsweredInv' /\ OutcomeInv'
  BY <1>1, <1>3 DEF GoneInv, AnsweredInv, OutcomeInv, Unflushed
<1>10. DoneInv'
  <2> SUFFICES ASSUME Last'.outcome \in {"queued", "empty"}, Worth
               PROVE  Long \/ AtMost(Missing(Len(takes))', 2)
    BY <1>5, <1>6 DEF DoneInv
  <2>1. Last.outcome = "open" /\ outcome \in {"queued", "empty"}
    BY <1>1, <1>5 DEF HeldInv, OutcomeInv, Waits
  <2>2. user = "wait" /\ receiver = "lent"
    BY <1>2, <1>4, <2>1 DEF ReceiveAnswer, ControlInv, FlushInv, HeldInv, OutcomeInv
  <2>3. ~Unflushed
    <3>1. CASE answer # <<>>
      BY <1>3, <2>2, <3>1 DEF Unflushed
    <3>2. CASE answer = <<>>
      <4>1. ~request /\ worker.pc \in {"look", "read"}
        BY <1>4, <2>1, <2>2, <3>2 DEF ReceiveAnswer, Timeout, Closed
      <4> QED
        BY <1>3, <2>2, <4>1 DEF Unflushed
    <3> QED
      BY <3>1, <3>2
  <2>4. Long \/ (answer # <<>> /\ AtMost(Last.spoken \ ChunksOf(answer[1]), 2))
    BY <2>1, <2>2, <2>3 DEF HeldInv, AnsweredInv
  <2>5. CASE answer # <<>> /\ AtMost(Last.spoken \ ChunksOf(answer[1]), 2)
    <3>1. Give(answer[1])
      BY <1>4, <2>1, <2>5 DEF Timeout
    <3> DEFINE n == Len(takes)
               g == [take |-> n, chunks |-> ChunksOf(answer[1])]
               m == Len(got) + 1
    <3>2. got' = Append(got, g) /\ g.take = n /\ g.chunks = ChunksOf(answer[1])
      BY <3>1 DEF Give, With
    <3> HIDE DEF g
    <3>3. m \in 1 .. Len(got') /\ got'[m] = g
      BY <1>2, <3>2
    <3>4. ChunksOf(answer[1])
            \subseteq UNION {got'[i].chunks : i \in {j \in 1 .. Len(got') : got'[j].take = n}}
      <4>1. m \in {j \in 1 .. Len(got') : got'[j].take = n}
        BY <3>2, <3>3
      <4>2. got'[m].chunks = ChunksOf(answer[1])
        BY <3>2, <3>3
      <4> QED
        BY <4>1, <4>2
    <3>5. n' = n /\ takes'[n].spoken = Last.spoken
      BY <1>2, <1>3, <1>5 DEF Last
    <3> HIDE DEF n, m
    <3>6. Missing(n)' \in SUBSET (Last.spoken \ ChunksOf(answer[1]))
      BY <3>4, <3>5 DEF Missing
    <3>7. AtMost(Missing(n)', 2)
      BY <2>5, <3>6, AtMostFewer
    <3> QED
      BY <3>7 DEF n
  <2> QED
    BY <2>4, <2>5
<1>11. HeldTakeWhole'
  <2>1. ASSUME NEW k \in 1 .. Len(takes'), k # Len(takes)
        PROVE  k \in 1 .. Len(takes) /\ takes'[k] = takes[k] /\ Missing(k)' = Missing(k)
    <3>1. k \in 1 .. Len(takes) /\ takes'[k] = takes[k]
      BY <1>5, <2>1
    <3>2. got' = got \/ \E g \in Given : g.take # k /\ got' = Append(got, g)
      <4>1. ASSUME Give(answer[1]), outcome = "queued", ReceiveAnswer
            PROVE  [take |-> Len(takes), chunks |-> ChunksOf(answer[1])] \in Given
        <5>1. answer[1] \in Seq(Chunks)
          BY <4>1 DEF ReceiveAnswer, AudioInv, Inv, TypeOK
        <5>2. \A i \in 1 .. Len(answer[1]) : answer[1][i].n \in Nat
          <6>1. \A i \in 1 .. Len(answer[1]) : answer[1][i] \in Chunks
            BY <5>1
          <6> QED
            BY <6>1, AudioAssumption DEF Chunks
        <5>3. ChunksOf(answer[1]) \in SUBSET Nat
          BY <5>2 DEF ChunksOf
        <5> QED
          BY <1>2, <5>3 DEF Given
      <4> QED
        BY <1>4, <2>1, <4>1 DEF Give, With
    <3> QED
      BY <1>2, <3>1, <3>2, MissingKept
  <2>2. takes'[Len(takes)].ended = 0
    BY <1>5 DEF Last
  <2> QED
    BY <1>1, <1>2, <2>1, <2>2, WholeKept DEF HeldInv
<1> QED
  BY <1>7, <1>8, <1>9, <1>10, <1>11 DEF HeldInv

(* A press finds an idle detector, but for the rest of the last take. *)
LEMMA HeldOpened ==
  ASSUME AudioInv, ~Torn, mode = "hold", HeldInv, OpenGate
  PROVE  HeldInv'
<1> DEFINE n == Len(takes)
<1>0. /\ ControlInv /\ Ptt /\ (gate <=> active) /\ takes \in Seq(Takes) /\ n \in Nat
      /\ got \in Seq(Given) /\ Reached \in Nat /\ PttMin \in Nat /\ 0 < PttMin
      /\ worker.det \in Detector(Chunks)
  BY HeldTypes, WorkerTypes DEF AudioInv, HistoryTypes
<1>1. /\ user = "rest" /\ user' = "opened" /\ gate' /\ splits'
      /\ ~request /\ worker.pc \in {"look", "read"}
      /\ UNCHANGED <<mode, mic, channel, request, answer, receiver, worker, got>>
      /\ takes' = Append(takes, NewTake)
  BY DEF OpenGate, Closed, startVars, flushVars
<1>2. /\ NewTake.from = Reached /\ ~NewTake.seen /\ NewTake.spoken = {}
      /\ NewTake.ended = 0 /\ NewTake.outcome = "open"
  BY <1>0 DEF NewTake, Reached
<1> HIDE DEF n
<1>3. /\ Len(takes') = n + 1 /\ takes'[n + 1] = NewTake
      /\ \A k \in 1 .. n : takes'[k] = takes[k]
  BY <1>0, <1>1 DEF n
<1>4. Last' = NewTake
  BY <1>3 DEF Last
<1>5. ~Taking
  BY <1>0, <1>1 DEF Taking, ControlInv, TakeInv
<1>6. /\ Len(worker.det.pre) < PttMin /\ worker.det.segment = <<>>
      /\ ~worker.det.subsegmentsSent /\ Len(worker.det.pre) \in Nat
  BY <1>0, <1>5 DEF HeldInv, EmptyInv, Detector
<1>7. Reached' = Reached /\ Leftover' = PttMin - 1
  BY <1>1, <1>2, <1>4 DEF Reached, Leftover
<1>8. TakenInv' /\ EmptyInv'
  <2>1. Len(worker.det.segment) = 0
    BY <1>6
  <2>2. Taking'
    BY <1>1 DEF Taking
  <2> QED
    BY <1>0, <1>1, <1>2, <1>3, <1>4, <1>6, <1>7, <2>1, <2>2 DEF TakenInv, EmptyInv
<1>9. UnsplitInv'
  BY <1>1 DEF HeldInv, UnsplitInv
<1>10. GoneInv'
  <2>1. Gone' = {}
    BY <1>2, <1>4 DEF Gone
  <2>2. Losses' \in Nat
    BY DEF Losses
  <2> QED
    BY <2>1, <2>2, AtMostNothing DEF GoneInv
<1>11. OutcomeInv' /\ AnsweredInv' /\ DoneInv'
  <2>1. active' /\ user' = "opened" /\ Last'.outcome = "open"
    BY <1>1, <1>2, <1>4 DEF OpenGate
  <2> QED
    BY <2>1 DEF OutcomeInv, AnsweredInv, DoneInv
<1>12. HeldTakeWhole'
  <2>1. ASSUME NEW k \in 1 .. Len(takes')
        PROVE  \/ k \in 1 .. Len(takes) /\ takes'[k] = takes[k] /\ Missing(k)' = Missing(k)
               \/ takes'[k].ended = 0
    <3>1. CASE k = n + 1
      BY <1>2, <1>3, <3>1
    <3>2. CASE k # n + 1
      <4>1. k \in 1 .. n /\ takes'[k] = takes[k]
        BY <1>0, <1>3, <3>2
      <4> QED
        BY <1>0, <1>1, <4>1, MissingKept DEF n
    <3> QED
      BY <3>1, <3>2
  <2> QED
    BY <1>0, <1>1, <2>1, WholeKept DEF HeldInv, n
<1> QED
  BY <1>8, <1>9, <1>10, <1>11, <1>12 DEF HeldInv

(* The release that is done: what it gave is what the take has. *)
LEMMA HeldDone ==
  ASSUME AudioInv, mode = "hold", HeldInv, ReleaseDone
  PROVE  HeldInv'
<1> DEFINE n == Len(takes)
           r == [Last EXCEPT !.ended = mic]
<1>0. /\ ControlInv /\ Ptt /\ (gate <=> active) /\ takes \in Seq(Takes) /\ n \in Nat
      /\ got \in Seq(Given) /\ Reached \in Nat /\ Reached <= mic /\ mic \in Nat
      /\ PttMin \in Nat /\ 0 < PttMin /\ MaxSegment \in Nat
  BY HeldTypes DEF AudioInv, HistoryTypes
<1>1. /\ user = "done" /\ user' = "rest"
      /\ UNCHANGED <<mode, mic, channel, gate, active, splits, request, answer, receiver,
                     worker, got>>
      /\ takes' = [takes EXCEPT ![Len(takes)].ended = mic]
  BY DEF ReleaseDone, startVars, gateVars, flushVars
<1>2. n > 0 /\ ~gate
  BY <1>0, <1>1 DEF ControlInv, TakeInv
<1>3. Last \in Takes /\ Last.from \in Nat
  BY <1>0, <1>2, HeldTypes
<1>4. /\ r \in Takes /\ r.from = Last.from /\ r.seen = Last.seen /\ r.spoken = Last.spoken
      /\ r.ended = mic /\ r.outcome = Last.outcome
  BY <1>0, <1>3 DEF Takes
<1>5. takes' = [takes EXCEPT ![Len(takes)] = r]
  BY <1>1, <1>3 DEF Last, Takes
<1> HIDE DEF r
<1>6. /\ Len(takes') = Len(takes) /\ Last' = r
      /\ \A k \in 1 .. Len(takes) : k # Len(takes) => takes'[k] = takes[k]
  BY <1>0, <1>2, <1>4, <1>5, LastSet
<1>7. Reached' = Reached /\ Leftover' = Leftover /\ Long' = Long /\ Taking' = Taking
  BY <1>1, <1>4, <1>6 DEF Reached, Leftover, Long, Taking
<1>8. TakenInv' /\ EmptyInv' /\ UnsplitInv'
  BY <1>1, <1>4, <1>6, <1>7 DEF HeldInv, TakenInv, EmptyInv, UnsplitInv
<1>9. GoneInv' /\ OutcomeInv' /\ AnsweredInv' /\ DoneInv'
  BY <1>1, <1>2 DEF GoneInv, Unflushed, OutcomeInv, AnsweredInv, DoneInv
<1>10. HeldTakeWhole'
  <2>1. ASSUME NEW k \in 1 .. Len(takes'), k # Len(takes)
        PROVE  k \in 1 .. Len(takes) /\ takes'[k] = takes[k] /\ Missing(k)' = Missing(k)
    <3>1. k \in 1 .. Len(takes) /\ takes'[k] = takes[k]
      BY <1>6, <2>1
    <3> QED
      BY <1>0, <1>1, <3>1, MissingKept
  <2>2. ASSUME NEW k \in 1 .. Len(takes'), k = Len(takes), Served(k)',
               (takes[k].ended - takes[k].from + 1 + Left(k) < MaxSegment)'
        PROVE  Whole(k)'
    <3>1. takes'[k] = r /\ takes[k] = Last
      BY <1>6, <2>2 DEF Last
    <3>2. Last.outcome \in {"queued", "empty"} /\ Worth
      BY <1>4, <2>2, <3>1 DEF Served, Worth
    <3>3. Long \/ AtMost(Missing(k), 2)
      BY <1>1, <2>2, <3>2 DEF HeldInv, DoneInv
    <3>4. Leftover \in Nat /\ mic - Last.from + 1 + Leftover < MaxSegment
      <4>1. Left(k)' = Leftover
        BY <1>4, <3>1 DEF Left, Leftover
      <4>2. Leftover \in Nat
        BY <1>0 DEF Leftover
      <4> QED
        BY <1>4, <2>2, <3>1, <4>1, <4>2
    <3>5. ~Long
      BY <1>0, <1>3, <3>4 DEF Long
    <3>6. Missing(k)' = Missing(k)
      BY <1>0, <1>1, <1>4, <3>1, MissingKept
    <3> QED
      BY <3>3, <3>5, <3>6 DEF Whole, AtMost
  <2> QED
    BY <1>0, <1>1, <2>1, <2>2, WholeKept DEF HeldInv
<1> QED
  BY <1>8, <1>9, <1>10 DEF HeldInv

(* The take that is aborted gives nothing, and none is asked of it. *)
LEMMA HeldAborted ==
  ASSUME AudioInv, ~Torn, mode = "hold", HeldInv, AbortTake
  PROVE  HeldInv'
<1> DEFINE n == Len(takes)
           r == [Last EXCEPT !.outcome = "aborted", !.ended = mic]
<1>0. /\ ControlInv /\ Ptt /\ (gate <=> active) /\ takes \in Seq(Takes) /\ n \in Nat
      /\ got \in Seq(Given) /\ mic \in Nat
  BY HeldTypes DEF AudioInv, HistoryTypes
<1>1. /\ user = "held" /\ user' = "rest" /\ ~gate' /\ splits' = FALSE
      /\ request' = (request \/ active)
      /\ UNCHANGED <<mode, mic, channel, worker, got>>
      /\ takes' = [takes EXCEPT ![Len(takes)].outcome = "aborted",
                                ![Len(takes)].ended = mic]
  BY DEF AbortTake, startVars
<1>2. n > 0
  BY <1>0, <1>1 DEF ControlInv, TakeInv
<1>3. Last \in Takes
  BY <1>0, <1>2, HeldTypes
<1>4. /\ r \in Takes /\ r.from = Last.from /\ r.seen = Last.seen
      /\ r.outcome = "aborted"
  BY <1>0, <1>3 DEF Takes, Outcomes
<1>5. takes' = [takes EXCEPT ![Len(takes)] = r]
  BY <1>1, <1>3 DEF Last, Takes
<1> HIDE DEF r
<1>6. /\ Len(takes') = Len(takes) /\ Last' = r
      /\ \A k \in 1 .. Len(takes) : k # Len(takes) => takes'[k] = takes[k]
  BY <1>0, <1>2, <1>4, <1>5, LastSet
<1>7. Reached' = Reached /\ Leftover' = Leftover /\ Long' = Long
  BY <1>1, <1>4, <1>6 DEF Reached, Leftover, Long
<1>8. Taking' = Taking
  BY <1>0, <1>1 DEF Taking
<1>9. TakenInv' /\ EmptyInv' /\ UnsplitInv'
  BY <1>1, <1>4, <1>6, <1>7, <1>8 DEF HeldInv, TakenInv, EmptyInv, UnsplitInv
<1>10. GoneInv' /\ OutcomeInv' /\ AnsweredInv' /\ DoneInv'
  BY <1>1 DEF GoneInv, Unflushed, OutcomeInv, AnsweredInv, DoneInv
<1>11. HeldTakeWhole'
  <2>1. ASSUME NEW k \in 1 .. Len(takes'), k # Len(takes)
        PROVE  k \in 1 .. Len(takes) /\ takes'[k] = takes[k] /\ Missing(k)' = Missing(k)
    <3>1. k \in 1 .. Len(takes) /\ takes'[k] = takes[k]
      BY <1>6, <2>1
    <3> QED
      BY <1>0, <1>1, <3>1, MissingKept
  <2>2. takes'[Len(takes)].outcome = "aborted"
    BY <1>4, <1>6 DEF Last
  <2> QED
    BY <1>0, <1>1, <2>1, <2>2, WholeKept DEF HeldInv
<1> QED
  BY <1>9, <1>10, <1>11 DEF HeldInv

(* A restart brings a worker with nothing in hand, and cuts the take. *)
LEMMA HeldRestarted ==
  ASSUME AudioInv, mode = "hold", HeldInv, RestartPipeline
  PROVE  HeldInv'
<1>0. /\ ControlInv /\ Ptt /\ takes \in Seq(Takes) /\ Len(takes) \in Nat
      /\ got \in Seq(Given) /\ PttMin \in Nat /\ 0 < PttMin
  BY HeldTypes DEF AudioInv, HistoryTypes
<1>1. /\ user # "closed" /\ mode' = mode /\ UNCHANGED <<got, mic>>
      /\ user' = (IF user = "wait" THEN "orphan" ELSE user) /\ channel' = <<>>
      /\ ~request' /\ ~gate' /\ splits' = FALSE /\ worker' = FreshWorker(~Ptt)
      /\ IF user # "rest" THEN EndTake("cut") ELSE takes' = takes
  BY <1>0 DEF RestartPipeline, StopPipeline, StartPipeline
<1>2. /\ worker'.pc = "look" /\ worker'.split = FALSE
      /\ worker'.det.pre = <<>> /\ worker'.det.segment = <<>>
      /\ worker'.det.subsegmentsSent = FALSE
  <2> DEFINE det == [NewDetector EXCEPT !.pttRecording = Ptt /\ ~Ptt]
  <2>1. det.pre = <<>> /\ det.segment = <<>> /\ det.subsegmentsSent = FALSE
    BY DEF NewDetector
  <2> HIDE DEF det
  <2>2. worker' = [pc |-> "look", det |-> det, was |-> ~Ptt, now |-> FALSE,
                   split |-> FALSE]
    BY <1>1 DEF FreshWorker, det
  <2> QED
    BY <2>1, <2>2
<1>3. ~Taking' /\ ~Unflushed'
  BY <1>1, <1>2 DEF Taking, Unflushed
<1>4. TakenInv' /\ EmptyInv' /\ UnsplitInv' /\ GoneInv' /\ AnsweredInv'
  <2>1. Len(worker'.det.pre) = 0
    BY <1>2
  <2> QED
    BY <1>0, <1>1, <1>2, <1>3, <2>1
    DEF TakenInv, EmptyInv, UnsplitInv, GoneInv, AnsweredInv
<1>5. CASE user # "rest"
  <2>1. Len(takes) > 0 /\ Last.ended = 0
    BY <1>0, <1>5 DEF ControlInv, TakeInv
  <2>2. /\ Len(takes') = Len(takes)
        /\ \A k \in 1 .. Len(takes) : k # Len(takes) => takes'[k] = takes[k]
        /\ Last'.from = Last.from /\ Last'.seen = Last.seen /\ Last'.spoken = Last.spoken
        /\ Last'.ended = 0
        /\ Last'.outcome = IF Last.outcome = "open" THEN "cut" ELSE Last.outcome
    BY <1>0, <1>1, <1>5, <2>1, OutcomeSet DEF Outcomes
  <2>3. OutcomeInv'
    BY <1>1, <1>5, <2>2 DEF HeldInv, OutcomeInv
  <2>4. HeldTakeWhole'
    <3>1. ASSUME NEW k \in 1 .. Len(takes'), k # Len(takes)
          PROVE  k \in 1 .. Len(takes) /\ takes'[k] = takes[k] /\ Missing(k)' = Missing(k)
      <4>1. k \in 1 .. Len(takes) /\ takes'[k] = takes[k]
        BY <2>2, <3>1
      <4> QED
        BY <1>0, <1>1, <4>1, MissingKept
    <3>2. takes'[Len(takes)].ended = 0
      BY <2>2 DEF Last
    <3> QED
      BY <1>0, <1>1, <3>1, <3>2, WholeKept DEF HeldInv
  <2>5. DoneInv'
    <3> SUFFICES ASSUME user = "done", Last.outcome \in {"queued", "empty"}, Worth
                 PROVE  Long' \/ AtMost(Missing(Len(takes))', 2)
      BY <1>1, <2>2 DEF DoneInv, Worth
    <3>1. Long \/ AtMost(Missing(Len(takes)), 2)
      BY DEF HeldInv, DoneInv
    <3>2. Missing(Len(takes))' = Missing(Len(takes))
      <4>1. takes'[Len(takes)].spoken = takes[Len(takes)].spoken
        BY <2>2 DEF Last
      <4> QED
        BY <1>1, <2>2, <4>1 DEF Missing
    <3>3. Long => Long'
      <4>1. /\ Reached \in Nat /\ Reached <= mic /\ mic \in Nat /\ MaxSegment \in Nat
            /\ Last.from \in Nat /\ Leftover \in Nat
        BY <1>0, <2>1, HeldTypes DEF Leftover
      <4>2. Reached' = mic /\ Leftover' = Leftover
        BY <1>1, <2>2 DEF Reached, Leftover
      <4> QED
        BY <2>2, <4>1, <4>2 DEF Long
    <3> QED
      BY <3>1, <3>2, <3>3 DEF AtMost
  <2> QED
    BY <1>4, <2>3, <2>4, <2>5 DEF HeldInv
<1>6. CASE user = "rest"
  <2>1. OutcomeInv'
    BY <1>1, <1>6 DEF OutcomeInv
  <2>2. HeldTakeWhole'
    BY <1>1, <1>6, WholeStays DEF HeldInv
  <2>3. DoneInv'
    BY <1>1, <1>6 DEF DoneInv
  <2> QED
    BY <1>4, <2>1, <2>2, <2>3 DEF HeldInv
<1> QED
  BY <1>1, <1>5, <1>6

(* A chunk that reaches the channel is not lost yet. *)
LEMMA HeldDevice ==
  ASSUME AudioInv, mode = "hold", HeldInv, DeviceCallback
  PROVE  HeldInv'
<1>0. /\ ControlInv /\ Ptt /\ (gate <=> active) /\ takes \in Seq(Takes) /\ Len(takes) \in Nat
      /\ got \in Seq(Given) /\ mic \in Nat /\ Reached \in Nat /\ MaxSegment \in Nat
      /\ PttMin \in Nat /\ 0 < PttMin /\ channel \in Seq(Chunks)
      /\ worker.det \in Detector(Chunks)
  BY HeldTypes, WorkerTypes DEF AudioInv, HistoryTypes
<1>1. /\ UNCHANGED <<mode, gate, active, splits, request, answer, receiver, worker, user, got>>
      /\ mic' = mic + 1
  BY DEF DeviceCallback, startVars, gateVars, flushVars
<1>2. \/ UNCHANGED <<channel, takes>>
      \/ \E voice \in BOOLEAN :
           /\ channel' = Append(channel, [n |-> mic', voice |-> voice])
           /\ takes' = IF active THEN [takes EXCEPT ![Len(takes)].spoken = @ \cup {mic'}]
                       ELSE takes
  BY <1>0 DEF DeviceCallback
<1>3. Reached' \in Nat /\ Reached' >= Reached
  BY ReachedMoves
<1>4. /\ ChunksOf(channel) \subseteq ChunksOf(channel')
      /\ takes' # takes => active /\ mic' \in ChunksOf(channel')
                           /\ takes' = [takes EXCEPT ![Len(takes)].spoken = @ \cup {mic'}]
  <2>1. CASE UNCHANGED <<channel, takes>>
    BY <2>1
  <2>2. CASE ~UNCHANGED <<channel, takes>>
    <3>1. PICK voice \in BOOLEAN :
            /\ channel' = Append(channel, [n |-> mic', voice |-> voice])
            /\ takes' = IF active THEN [takes EXCEPT ![Len(takes)].spoken = @ \cup {mic'}]
                        ELSE takes
      BY <1>2, <2>2
    <3> DEFINE chunk == [n |-> mic', voice |-> voice]
    <3>2. chunk \in Chunks /\ chunk.n = mic'
      BY <1>0, <1>1, AudioAssumption DEF DeviceCallback, Chunks
    <3> HIDE DEF chunk
    <3>3. ChunksOf(channel') = ChunksOf(channel) \cup {mic'}
      BY <1>0, <3>1, <3>2, AppendChunks DEF chunk
    <3> QED
      BY <3>1, <3>3
  <2> QED
    BY <2>1, <2>2
<1>5. CASE takes' = takes
  <2>1. Last' = Last /\ Leftover' = Leftover /\ Worth' = Worth /\ Recorded' = Recorded
    BY <1>1, <1>5 DEF Last, Leftover, Worth, Recorded
  <2>2. Taking' = Taking /\ Unflushed' = Unflushed /\ Losses' = Losses
    BY <1>1 DEF Taking, Unflushed, Losses
  <2>3. Len(takes) > 0 /\ Long => Long'
    BY <1>0, <1>3, <2>1, HeldTypes DEF Long, Leftover
  <2>4. TakenInv'
    <3>1. Len(worker.det.pre) \in Nat /\ Len(worker.det.segment) \in Nat
      BY <1>0 DEF Detector
    <3>2. Leftover \in Nat
      BY <1>0 DEF Leftover
    <3> SUFFICES ASSUME Taking
                 PROVE  /\ Len(takes) > 0
                        /\ Len(worker.det.pre) + Last.from <= Reached' + Leftover
                        /\ Len(worker.det.segment) + Last.from <= Reached' + 1 + Leftover
                        /\ worker.det.subsegmentsSent => Long'
      BY <1>1, <1>5, <2>1, <2>2 DEF TakenInv
    <3>3. /\ Len(takes) > 0
          /\ Len(worker.det.pre) + Last.from <= Reached + Leftover
          /\ Len(worker.det.segment) + Last.from <= Reached + 1 + Leftover
          /\ worker.det.subsegmentsSent => Long
      BY DEF HeldInv, TakenInv
    <3>4. Last.from \in Nat
      BY <3>3, HeldTypes
    <3>5. worker.det.subsegmentsSent => Long'
      BY <2>3, <3>3
    <3> HIDE DEF Long
    <3> QED
      BY <1>0, <1>3, <3>1, <3>2, <3>3, <3>4, <3>5
  <2>5. EmptyInv' /\ UnsplitInv' /\ OutcomeInv'
    BY <1>1, <2>1, <2>2 DEF HeldInv, EmptyInv, UnsplitInv, OutcomeInv
  <2>6. GoneInv'
    <3>1. Gone' \in SUBSET Gone
      BY <1>4, <2>1 DEF Gone
    <3>2. Losses \in Nat /\ Losses <= Losses
      BY DEF Losses
    <3> QED
      BY <2>2, <3>1, <3>2, AtMostFewer DEF HeldInv, GoneInv
  <2>7. Missing(Len(takes))' = Missing(Len(takes))
    BY <1>1, <1>5 DEF Missing
  <2>8. AnsweredInv' /\ DoneInv'
    <3>1. user \in {"wait", "done"} => Len(takes) > 0
      BY <1>0 DEF ControlInv, TakeInv
    <3> QED
      BY <1>1, <2>1, <2>2, <2>3, <2>7, <3>1 DEF HeldInv, AnsweredInv, DoneInv
  <2> QED
    BY <1>1, <1>5, <2>4, <2>5, <2>6, <2>8, WholeStays DEF HeldInv
<1>6. CASE takes' # takes
  <2> DEFINE r == [Last EXCEPT !.spoken = @ \cup {mic'}]
  <2>1. /\ active /\ mic' \in ChunksOf(channel')
        /\ takes' = [takes EXCEPT ![Len(takes)].spoken = @ \cup {mic'}]
    BY <1>4, <1>6
  <2>2. gate /\ user \in {"opened", "resumed", "held", "paused"}
        /\ Len(takes) > 0 /\ Last.ended = 0
    BY <1>0, <2>1 DEF ControlInv, TakeInv
  <2>3. Last \in Takes /\ Last.from \in Nat /\ mic' \in Nat
    BY <1>0, <1>1, <2>2, HeldTypes
  <2>4. /\ r \in Takes /\ r.from = Last.from /\ r.seen = Last.seen /\ r.ended = 0
        /\ r.spoken = Last.spoken \cup {mic'} /\ r.outcome = Last.outcome
    BY <2>2, <2>3 DEF Takes
  <2>5. takes' = [takes EXCEPT ![Len(takes)] = r]
    BY <2>1, <2>3 DEF Last, Takes
  <2> HIDE DEF r
  <2>6. /\ Len(takes') = Len(takes) /\ Last' = r
        /\ \A k \in 1 .. Len(takes) : k # Len(takes) => takes'[k] = takes[k]
    BY <1>0, <2>2, <2>4, <2>5, LastSet
  <2>7. Leftover' = Leftover /\ Leftover \in Nat /\ Recorded' = Recorded
    BY <1>0, <1>1, <2>4, <2>6 DEF Leftover, Recorded
  <2>8. Taking /\ Taking' /\ Unflushed /\ Losses' = Losses
    BY <1>1, <2>2 DEF Taking, Unflushed, Losses
  <2>9. Long => Long'
    BY <1>0, <1>3, <2>3, <2>4, <2>6, <2>7 DEF Long
  <2>10. TakenInv' /\ EmptyInv'
    <3>1. Len(worker.det.pre) \in Nat /\ Len(worker.det.segment) \in Nat
      BY <1>0 DEF Detector
    <3> QED
      BY <1>0, <1>1, <1>3, <2>2, <2>3, <2>4, <2>6, <2>7, <2>8, <2>9, <3>1
      DEF HeldInv, TakenInv, EmptyInv
  <2>11. UnsplitInv' /\ OutcomeInv' /\ AnsweredInv' /\ DoneInv'
    BY <1>1, <2>2, <2>4, <2>6
    DEF HeldInv, UnsplitInv, OutcomeInv, AnsweredInv, DoneInv
  <2>12. GoneInv'
    <3>1. Gone' \in SUBSET Gone
      BY <1>4, <2>1, <2>4, <2>6, <2>7 DEF Gone
    <3>2. Losses \in Nat /\ Losses <= Losses
      BY DEF Losses
    <3> QED
      BY <2>8, <3>1, <3>2, AtMostFewer DEF HeldInv, GoneInv
  <2>13. HeldTakeWhole'
    <3>1. ASSUME NEW k \in 1 .. Len(takes'), k # Len(takes)
          PROVE  k \in 1 .. Len(takes) /\ takes'[k] = takes[k] /\ Missing(k)' = Missing(k)
      <4>1. k \in 1 .. Len(takes) /\ takes'[k] = takes[k]
        BY <2>6, <3>1
      <4> QED
        BY <1>0, <1>1, <4>1, MissingKept
    <3>2. takes'[Len(takes)].ended = 0
      BY <2>4, <2>6 DEF Last
    <3> QED
      BY <1>0, <1>1, <3>1, <3>2, WholeKept DEF HeldInv
  <2> QED
    BY <2>10, <2>11, <2>12, <2>13 DEF HeldInv
<1> QED
  BY <1>5, <1>6

-----------------------------------------------------------------------------
(* Held takes: the worker.                                                 *)

(* A chunk that is read is one less on the channel. *)
LEMMA HeadOrTail ==
  ASSUME NEW audio \in Seq(Chunks), audio # <<>>
  PROVE  ChunksOf(audio) \subseteq {Head(audio).n} \cup ChunksOf(Tail(audio))
<1> DEFINE rest == Tail(audio)
           n == Len(audio)
<1>1. n \in Nat /\ Head(audio) = audio[1] /\ Len(rest) = n - 1
      /\ \A i \in 1 .. n - 1 : rest[i] = audio[i + 1]
  OBVIOUS
<1> HIDE DEF rest
<1>2. ASSUME NEW i \in 1 .. n, i # 1
      PROVE  audio[i].n \in ChunksOf(rest)
  <2>1. i - 1 \in 1 .. Len(rest) /\ rest[i - 1] = audio[i]
    BY <1>1, <1>2
  <2> QED
    BY <2>1 DEF ChunksOf
<1> QED
  BY <1>1, <1>2 DEF ChunksOf, rest

(* What a pass keeps when it changes the worker alone. *)
LEMMA HeldPass ==
  ASSUME AudioInv, mode = "hold", HeldInv,
         UNCHANGED <<mode, mic, gate, active, splits, user, receiver, takes, got>>,
         Reached' \in Nat, Reached' >= Reached,
         ((Unflushed' <=> Unflushed) /\ answer' = answer) \/ AnsweredInv',
         UnsplitInv', TakenInv', EmptyInv', GoneInv'
  PROVE  HeldInv'
<1>1. Last' = Last /\ Leftover' = Leftover /\ Worth' = Worth
  BY DEF Last, Leftover, Worth
<1>2. /\ MaxSegment \in Nat /\ PttMin \in Nat /\ 0 < PttMin /\ Reached \in Nat
      /\ Len(takes) > 0 => Last.from \in Nat
      /\ ControlInv /\ Ptt
  BY HeldTypes DEF AudioInv
<1>3. Len(takes) > 0 /\ Long => Long'
  BY <1>1, <1>2 DEF Long, Leftover
<1>4. user \in {"wait", "done"} => Len(takes) > 0
  BY <1>2 DEF ControlInv, TakeInv
<1>5. Missing(Len(takes))' = Missing(Len(takes))
  BY DEF Missing
<1>6. OutcomeInv'
  BY <1>1 DEF HeldInv, OutcomeInv
<1>7. AnsweredInv' /\ DoneInv'
  BY <1>1, <1>3, <1>4, <1>5 DEF HeldInv, AnsweredInv, DoneInv
<1> QED
  BY <1>6, <1>7, WholeStays DEF HeldInv

(* The old worker is joined while the callbacks are off. *)
LEMMA HeldJoined ==
  ASSUME AudioInv, mode = "hold", HeldInv, RestartDone
  PROVE  HeldInv'
<1>1. UNCHANGED <<mode, mic, channel, gate, active, splits, request, answer, receiver, worker,
                  user, takes, got>>
  BY DEF RestartDone, startVars, gateVars, flushVars, AudioInv, ControlInv, JoinInv
<1>2. Reached' \in Nat /\ Reached' >= Reached
  BY <1>1, HeldTypes DEF Reached
<1>3. /\ Last' = Last /\ Leftover' = Leftover /\ Reached' = Reached /\ Recorded' = Recorded
      /\ Taking' = Taking /\ Unflushed' = Unflushed /\ Losses' = Losses
  BY <1>1 DEF Last, Leftover, Reached, Recorded, Taking, Unflushed, Losses
<1>4. Gone' = Gone /\ Long' = Long
  BY <1>1, <1>3 DEF Gone, Long
<1>5. UnsplitInv' /\ TakenInv' /\ EmptyInv' /\ GoneInv'
  BY <1>1, <1>3, <1>4 DEF HeldInv, UnsplitInv, TakenInv, EmptyInv, GoneInv, AtMost
<1> QED
  BY <1>1, <1>2, <1>3, <1>5, HeldPass

(* A chunk that is heard takes the room of one chunk. *)
LEMMA HeardTaken ==
  ASSUME AudioInv, mode = "hold", HeldInv, Taking, ~worker.det.endOnSilence,
         UNCHANGED <<mic, takes>>, channel # <<>>, channel' = Tail(channel),
         worker'.det = Push(worker.det, Head(channel)).det
  PROVE  TakenInv'
<1> DEFINE d == worker.det
           e == worker'.det
<1>1. /\ Len(takes) > 0
      /\ Len(d.pre) + Last.from <= Reached + Leftover
      /\ Len(d.segment) + Last.from <= Reached + 1 + Leftover
      /\ d.subsegmentsSent => Long
  BY DEF HeldInv, TakenInv
<1>2. Last' = Last /\ Leftover' = Leftover
  BY DEF Last, Leftover
<1>3. /\ Reached \in Nat /\ Reached' \in Nat /\ Reached' >= Reached + 1
      /\ Last.from \in Nat /\ MaxSegment \in Nat /\ PttMin \in Nat /\ 0 < PttMin
  BY <1>1, HeldTypes, ReachedMoves
<1>4. Leftover \in Nat
  BY <1>3 DEF Leftover
<1>5. d \in Detector(Chunks) /\ Head(channel) \in Chunks
  BY WorkerTypes
<1>6. /\ Len(e.pre) <= Len(d.pre) + 1
      /\ Len(e.segment) <= Len(d.segment) + 1 \/ Len(e.segment) <= Len(d.pre) + 2
      /\ e.subsegmentsSent => d.subsegmentsSent \/ Len(d.segment) + 1 >= MaxSegment
  BY <1>5, PushGrows
<1>7. /\ Len(d.pre) \in Nat /\ Len(d.segment) \in Nat
      /\ Len(e.pre) \in Nat /\ Len(e.segment) \in Nat
  <2>1. e \in Detector(Chunks)
    BY <1>5, PushGood DEF AudioInv, Inv, SegmentFits, Good
  <2> QED
    BY <1>5, <2>1 DEF Detector
<1> HIDE DEF d, e
<1>8. Len(e.pre) + Last.from <= Reached' + Leftover
  BY <1>1, <1>3, <1>4, <1>6, <1>7
<1>9. Len(e.segment) + Last.from <= Reached' + 1 + Leftover
  <2> DEFINE p == Len(d.pre)
             s == Len(d.segment)
             t == Len(e.segment)
             f == Last.from
             l == Leftover
  <2>1. p + f <= Reached + l /\ s + f <= Reached + 1 + l
    BY <1>1
  <2>2. t <= s + 1 \/ t <= p + 2
    BY <1>6
  <2>3. /\ p \in Nat /\ s \in Nat /\ t \in Nat /\ f \in Nat /\ l \in Nat
        /\ Reached \in Nat /\ Reached' \in Nat /\ Reached' >= Reached + 1
    BY <1>3, <1>4, <1>7
  <2> HIDE DEF p, s, t, f, l
  <2> DEFINE r == Reached
             q == Reached'
  <2>4. q >= r + 1 /\ q \in Nat /\ r \in Nat /\ p + f <= r + l /\ s + f <= r + 1 + l
    BY <2>1, <2>3
  <2> HIDE DEF q, r
  <2>5. t + f <= q + 1 + l
    BY <2>2, <2>3, <2>4
  <2> QED
    BY <2>5 DEF q, t, f, l
<1>10. e.subsegmentsSent => Long'
  <2>1. ASSUME d.subsegmentsSent
        PROVE  Long'
    BY <1>1, <1>2, <1>3, <1>4, <2>1 DEF Long
  <2>2. ASSUME Len(d.segment) + 1 >= MaxSegment
        PROVE  Long'
    BY <1>1, <1>2, <1>3, <1>4, <1>7, <2>2 DEF Long
  <2> QED
    BY <1>6, <2>1, <2>2
<1> QED
  BY <1>1, <1>2, <1>8, <1>9, <1>10 DEF TakenInv, e

(* A pass begins, or ends with nothing read. *)
LEMMA HeldIdle ==
  ASSUME AudioInv, ~Torn, mode = "hold", HeldInv, Look \/ NothingToRead
  PROVE  HeldInv'
<1>0. /\ UNCHANGED <<mode, mic, channel, gate, active, splits, request, answer, receiver,
                     user, takes, got>>
      /\ worker.det \in Detector(Chunks)
  BY WorkerTypes DEF Look, NothingToRead, startVars, gateVars, flushVars
<1> DEFINE det == [worker.det EXCEPT !.endOnSilence = ~Ptt \/ (gate /\ splits)]
<1>1. /\ worker.pc \in {"look", "read"} /\ worker'.pc \in {"look", "decide"}
      /\ worker'.was = worker.was
      /\ worker'.det \in {worker.det, det}
  <2>1. CASE Look
    <3>1. worker' = [worker EXCEPT !.pc = "decide", !.now = gate, !.split = splits, !.det = det]
      BY <2>1 DEF Look
    <3> HIDE DEF det
    <3> QED
      BY <2>1, <3>1 DEF Look, AudioInv, Inv, TypeOK, WorkerType
  <2>2. CASE NothingToRead
    BY <2>2 DEF NothingToRead, NextPass
  <2> QED
    BY <2>1, <2>2
<1>2. /\ worker'.det.pre = worker.det.pre /\ worker'.det.segment = worker.det.segment
      /\ worker'.det.capture = worker.det.capture
      /\ worker'.det.subsegmentsSent = worker.det.subsegmentsSent
  <2>1. /\ det.pre = worker.det.pre /\ det.segment = worker.det.segment
        /\ det.capture = worker.det.capture
        /\ det.subsegmentsSent = worker.det.subsegmentsSent
    BY <1>0 DEF Detector
  <2> HIDE DEF det
  <2> QED
    BY <1>1, <2>1
<1> HIDE DEF det
<1>3. UnsplitInv'
  <2>1. CASE Look
    <3>1. splits = FALSE
      BY <2>1 DEF Look, HeldInv, UnsplitInv, AudioInv, Inv, TypeOK
    <3>2. worker'.pc = "decide" /\ worker'.split = FALSE /\ ~worker'.det.endOnSilence
      BY <2>1, <3>1, HeldTypes DEF Look, AudioInv, Inv, TypeOK, WorkerType, Detector
    <3> QED
      BY <1>0, <1>1, <3>1, <3>2 DEF UnsplitInv
  <2>2. CASE NothingToRead
    <3>1. worker'.pc = "look" /\ worker'.split = FALSE
      BY <2>2 DEF NothingToRead, NextPass
    <3> QED
      BY <1>0, <1>1, <3>1 DEF HeldInv, UnsplitInv
  <2> QED
    BY <2>1, <2>2
<1>4. /\ Taking' = Taking /\ Unflushed' = Unflushed /\ Last' = Last /\ Leftover' = Leftover
      /\ Reached' = Reached /\ Recorded' = Recorded
  BY <1>0, <1>1, <1>2 DEF Taking, Unflushed, Last, Leftover, Reached, Recorded
<1>5. Gone' = Gone /\ Long' = Long
  BY <1>0, <1>1, <1>4 DEF Gone, Long
<1>6. TakenInv' /\ EmptyInv'
  BY <1>0, <1>1, <1>2, <1>4, <1>5 DEF HeldInv, TakenInv, EmptyInv
<1>7. GoneInv'
  <2>1. Losses \in Nat /\ Losses' \in Nat /\ Losses <= Losses'
    BY <1>0, <1>1 DEF Losses
  <2> QED
    BY <1>4, <1>5, <2>1, AtMostFewer DEF HeldInv, GoneInv
<1> QED
  BY <1>0, <1>1, <1>3, <1>4, <1>6, <1>7, HeldPass, HeldTypes

(* The flush that begins counts what was recorded. *)
LEMMA HeldFlushed ==
  ASSUME AudioInv, mode = "hold", HeldInv, BeginFlush
  PROVE  HeldInv'
<1>1. /\ UNCHANGED <<mode, mic, channel, gate, active, splits, answer, receiver,
                     user, takes, got>>
      /\ worker.pc = "decide" /\ worker'.pc = "flush" /\ worker'.was = worker.was
      /\ worker'.split = worker.split /\ ~request'
      /\ request \/ (worker.was /\ ~worker.now)
  BY DEF BeginFlush, MustFlush, startVars, gateVars, AudioInv, Inv, TypeOK, WorkerType
<1>2. /\ worker'.det.pre = worker.det.pre /\ worker'.det.segment = worker.det.segment
      /\ worker'.det.capture = worker.det.capture
      /\ worker'.det.subsegmentsSent = worker.det.subsegmentsSent
      /\ worker'.det.endOnSilence = worker.det.endOnSilence
      /\ worker'.det.pttRecording
  BY DEF BeginFlush, AudioInv, Inv, TypeOK, WorkerType, Detector
<1>3. ~gate /\ request /\ user # "closed"
  <2>1. Ptt /\ ControlInv
    BY HeldTypes DEF AudioInv
  <2>2. ~gate
    BY <1>1, <2>1 DEF ControlInv, PassInv, FlushInv
  <2> QED
    BY <1>1, <2>1, <2>2 DEF ControlInv, PassInv, FlushInv
<1>4. /\ Taking /\ Taking' /\ (Unflushed' <=> Unflushed) /\ Last' = Last /\ Leftover' = Leftover
      /\ Reached' = Reached /\ Long' = Long
  BY <1>1, <1>3 DEF Taking, Unflushed, Last, Leftover, Reached, Long
<1>5. TakenInv' /\ EmptyInv' /\ UnsplitInv'
  BY <1>1, <1>2, <1>4 DEF HeldInv, TakenInv, EmptyInv, UnsplitInv
<1>6. GoneInv'
  <2>1. Recorded \subseteq Recorded'
    BY <1>1, <1>2 DEF Recorded
  <2>2. Gone' \in SUBSET Gone
    BY <1>1, <1>4, <2>1 DEF Gone
  <2>3. Losses \in Nat /\ Losses' = Losses /\ Losses <= Losses
    BY <1>1 DEF Losses
  <2> QED
    BY <1>4, <2>2, <2>3, AtMostFewer DEF HeldInv, GoneInv
<1> QED
  BY <1>1, <1>4, <1>5, <1>6, HeldPass, HeldTypes

(* A chunk that is drained is recorded. *)
LEMMA HeldDrained ==
  ASSUME AudioInv, mode = "hold", HeldInv, DrainChunk
  PROVE  HeldInv'
<1> DEFINE d == worker.det
           e == worker'.det
<1>1. /\ UNCHANGED <<mode, mic, gate, active, splits, request, answer, receiver,
                     user, takes, got>>
      /\ worker.pc = "flush" /\ worker'.pc = "flush" /\ worker'.was = worker.was
      /\ worker'.split = worker.split
      /\ channel # <<>> /\ channel' = Tail(channel)
      /\ e = Push(d, Head(channel)).det
  BY DEF DrainChunk, startVars, gateVars, flushVars, AudioInv, Inv, TypeOK, WorkerType
<1>2. d \in Detector(Chunks) /\ Head(channel) \in Chunks /\ channel \in Seq(Chunks)
  BY <1>1, WorkerTypes
<1>3. ~d.endOnSilence /\ d.pttRecording /\ d.capture \in Seq(Chunks)
  BY <1>1, <1>2 DEF HeldInv, UnsplitInv, Detector
<1>4. ~e.endOnSilence /\ e.pttRecording /\ e.capture = Append(d.capture, Head(channel))
  <2>1. /\ ~e.endOnSilence /\ e.pttRecording = d.pttRecording
        /\ e.capture = IF d.pttRecording THEN Append(d.capture, Head(channel)) ELSE d.capture
    <3>1. e = Push(d, Head(channel)).det
      BY <1>1
    <3>2. ~d.endOnSilence
      BY <1>3
    <3> HIDE DEF d, e
    <3> QED
      BY <1>2, <3>1, <3>2, PushGrows
  <2> HIDE DEF d, e
  <2> QED
    BY <1>3, <2>1
<1>5. UnsplitInv'
  BY <1>1, <1>4 DEF HeldInv, UnsplitInv
<1>6. Taking /\ Taking' /\ (Unflushed' <=> Unflushed) /\ Last' = Last
  BY <1>1 DEF Taking, Unflushed, Last
<1>7. TakenInv' /\ EmptyInv'
  BY <1>1, <1>3, <1>6, HeardTaken DEF EmptyInv
<1>8. GoneInv'
  <2>1. Recorded' = Recorded \cup {Head(channel).n}
    BY <1>1, <1>2, <1>3, <1>4, AppendChunks DEF Recorded
  <2>2. Gone' \in SUBSET Gone
    <3>1. ChunksOf(channel) \subseteq {Head(channel).n} \cup ChunksOf(channel')
      BY <1>1, <1>2, HeadOrTail
    <3> QED
      BY <1>6, <2>1, <3>1 DEF Gone
  <2>3. Losses \in Nat /\ Losses' = Losses /\ Losses <= Losses
    BY <1>1 DEF Losses
  <2> QED
    BY <1>6, <2>2, <2>3, AtMostFewer DEF HeldInv, GoneInv
<1>9. Reached' \in Nat /\ Reached' >= Reached
  <2>1. Reached \in Nat /\ Reached' \in Nat /\ Reached' >= Reached + 1
    BY <1>1, ReachedMoves, HeldTypes
  <2> QED
    BY <2>1
<1> QED
  BY <1>1, <1>5, <1>6, <1>7, <1>8, <1>9, HeldPass

(* The flush: what a take that is long enough has recorded is the answer. *)
LEMMA HeldAnswered ==
  ASSUME AudioInv, mode = "hold", HeldInv, FlushTake
  PROVE  HeldInv'
<1> DEFINE d == worker.det
           out == FlushPtt(d)
           det == [out.det EXCEPT !.pttRecording = FALSE]
<1>0. /\ ControlInv /\ Ptt /\ worker.pc = "flush" /\ channel = <<>> /\ d \in Detector(Chunks)
      /\ PttMin \in Nat /\ worker.was \in BOOLEAN
  BY HeldTypes, WorkerTypes DEF AudioInv, FlushTake
<1>1. ~worker.now /\ ~gate /\ ~request /\ answer = <<>> /\ user # "closed"
  BY <1>0 DEF ControlInv, PassInv, FlushInv
<1>2. /\ NextPass(det, worker.now)
      /\ answer' = IF out.event = "ended" /\ answer = <<>> /\ receiver \in {"here", "lent"}
                   THEN <<out.audio>> ELSE answer
      /\ UNCHANGED <<mode, mic, channel, gate, active, splits, request, receiver,
                     user, takes, got>>
  BY DEF FlushTake, Flush, startVars, gateVars
<1>3. /\ out.det.segment = <<>> /\ Len(out.det.pre) < PttMin /\ ~out.det.subsegmentsSent
      /\ out.det \in Detector(Chunks)
      /\ ~d.subsegmentsSent /\ Len(d.capture) >= PttMin
           => out.event = "ended" /\ out.audio = d.capture
  BY <1>0, FlushEmpties
<1> HIDE DEF out
<1>4. /\ det.pre = out.det.pre /\ det.segment = out.det.segment
      /\ det.subsegmentsSent = out.det.subsegmentsSent
  BY <1>3 DEF Detector
<1> HIDE DEF det
<1>5. worker'.pc = "look" /\ worker'.split = FALSE /\ worker'.det = det
  BY <1>2 DEF NextPass
<1>6. ~Taking' /\ ~Unflushed'
  BY <1>1, <1>2, <1>5 DEF Taking, Unflushed
<1>7. TakenInv' /\ EmptyInv' /\ GoneInv'
  BY <1>3, <1>4, <1>5, <1>6 DEF TakenInv, EmptyInv, GoneInv
<1>8. UnsplitInv'
  BY <1>2, <1>5 DEF HeldInv, UnsplitInv
<1>9. Last' = Last /\ Reached' = Reached /\ Leftover' = Leftover
  BY <1>2 DEF Last, Reached, Leftover
<1>10. Long' = Long /\ Worth' = Worth
  BY <1>9 DEF Long, Worth
<1>11. AnsweredInv'
  <2> SUFFICES ASSUME user = "wait", receiver = "lent", Worth, ~Long
               PROVE  answer' # <<>> /\ AtMost(Last.spoken \ ChunksOf(answer'[1]), 2)
    BY <1>2, <1>9, <1>10 DEF AnsweredInv
  <2>1. ~d.subsegmentsSent
    BY <1>0 DEF HeldInv, TakenInv, Taking
  <2>2. AtMost(Last.spoken \ ChunksOf(d.capture), 2)
    <3>1. Losses = 2 /\ Unflushed
      BY <1>0, <1>1 DEF Losses, Unflushed
    <3>2. Gone = Last.spoken \ ChunksOf(d.capture)
      BY <1>0, NoChunks DEF Gone, Recorded
    <3> QED
      BY <3>1, <3>2 DEF HeldInv, GoneInv
  <2>3. d.capture \in Seq(Chunks)
    BY <1>0 DEF Detector
  <2>4. Len(d.capture) >= PttMin
    BY <1>0, <2>2, <2>3, LongEnough DEF Worth
  <2>5. answer' = <<d.capture>>
    BY <1>1, <1>2, <1>3, <2>1, <2>4
  <2>6. answer' # <<>> /\ answer'[1] = d.capture
    BY <2>5
  <2> QED
    BY <2>2, <2>6
<1>12. Reached' \in Nat /\ Reached' >= Reached
  BY <1>9, HeldTypes
<1> QED
  BY <1>2, <1>7, <1>8, <1>11, <1>12, HeldPass

(* The pass that finds the gate as it was records on or goes on waiting. *)
LEMMA HeldFollowed ==
  ASSUME AudioInv, mode = "hold", HeldInv, FollowGate, ~Opens
  PROVE  HeldInv'
<1>0. /\ ControlInv /\ Ptt /\ worker.pc = "decide" /\ worker.was \in BOOLEAN
      /\ worker.now \in BOOLEAN /\ gate \in BOOLEAN /\ worker.det \in Detector(Chunks)
      /\ ~request /\ ~(worker.was /\ ~worker.now)
  BY HeldTypes, WorkerTypes DEF AudioInv, FollowGate, MustFlush
<1>1. worker.now = gate /\ worker.was = gate /\ user # "closed"
  BY <1>0 DEF Opens, ControlInv, PassInv
<1> DEFINE det == [worker.det EXCEPT !.pttRecording = Ptt /\ worker.now]
<1>2. /\ worker' = [worker EXCEPT !.pc = "read", !.was = worker.now, !.det = det]
      /\ UNCHANGED <<mode, mic, channel, gate, active, splits, request, answer, receiver,
                     user, takes, got>>
  BY <1>0 DEF FollowGate, startVars, gateVars, flushVars
<1>3. /\ det.pre = worker.det.pre /\ det.segment = worker.det.segment
      /\ det.capture = worker.det.capture /\ det.endOnSilence = worker.det.endOnSilence
      /\ det.subsegmentsSent = worker.det.subsegmentsSent
  BY <1>0 DEF Detector
<1> HIDE DEF det
<1>4. /\ worker'.pc = "read" /\ worker'.was = worker.was /\ worker'.split = worker.split
      /\ worker'.det = det
  BY <1>1, <1>2 DEF AudioInv, Inv, TypeOK, WorkerType
<1>5. UnsplitInv'
  BY <1>0, <1>2, <1>3, <1>4 DEF HeldInv, UnsplitInv
<1>6. /\ Taking' = Taking /\ (Unflushed' <=> Unflushed) /\ Last' = Last /\ Leftover' = Leftover
      /\ Reached' = Reached /\ Recorded' = Recorded
  BY <1>0, <1>2, <1>3, <1>4 DEF Taking, Unflushed, Last, Leftover, Reached, Recorded
<1>7. Gone' = Gone /\ Long' = Long
  BY <1>2, <1>6 DEF Gone, Long
<1>8. TakenInv' /\ EmptyInv'
  BY <1>2, <1>3, <1>4, <1>6, <1>7 DEF HeldInv, TakenInv, EmptyInv
<1>9. GoneInv'
  <2>1. Unflushed => gate
    BY <1>0, <1>1 DEF Unflushed
  <2>2. gate => Losses' = 1 /\ Losses = 1
    BY <1>0, <1>1, <1>2, <1>4 DEF Losses
  <2> QED
    BY <1>6, <1>7, <2>1, <2>2 DEF HeldInv, GoneInv
<1> QED
  BY <1>2, <1>5, <1>6, <1>8, <1>9, HeldPass, HeldTypes

(* The pass that finds the gate of a new take clears the detector. *)
LEMMA HeldSeen ==
  ASSUME AudioInv, mode = "hold", HeldInv, FollowGate, Opens
  PROVE  HeldInv'
<1> DEFINE r == [Last EXCEPT !.seen = TRUE]
           clear == Reset(worker.det)
           det == [clear EXCEPT !.pttRecording = Ptt /\ worker.now]
<1>0. /\ ControlInv /\ Ptt /\ worker.pc = "decide" /\ ~worker.was /\ worker.now
      /\ gate \in BOOLEAN /\ worker.det \in Detector(Chunks) /\ ~request
      /\ takes \in Seq(Takes) /\ Len(takes) \in Nat /\ got \in Seq(Given) /\ mic \in Nat
      /\ channel \in Seq(Chunks) /\ Reached \in Nat
      /\ channel # <<>> => channel[1].n \in Nat /\ Reached + 1 = channel[1].n
  BY HeldTypes, WorkerTypes DEF AudioInv, HistoryTypes, FollowGate, MustFlush, Opens
<1>1. gate /\ user \in {"held", "paused"} /\ Len(takes) > 0 /\ Last.ended = 0
  <2>1. gate
    BY <1>0 DEF ControlInv, PassInv
  <2>2. user \in {"held", "paused"}
    <3>1. user \in {"opened", "resumed", "held", "paused"}
      BY <1>0, <2>1 DEF ControlInv, TakeInv
    <3> QED
      BY <1>0, <3>1 DEF ControlInv, PassInv
  <2>3. Len(takes) > 0 /\ Last.ended = 0
    BY <1>0, <2>2 DEF ControlInv, TakeInv
  <2> QED
    BY <2>1, <2>2, <2>3
<1>2. /\ worker' = [worker EXCEPT !.pc = "read", !.was = worker.now, !.det = det]
      /\ takes' = [takes EXCEPT ![Len(takes)].seen = TRUE]
      /\ UNCHANGED <<mode, mic, channel, gate, active, splits, request, answer, receiver,
                     user, got>>
  BY <1>0 DEF FollowGate, startVars, gateVars, flushVars
<1>3. Last \in Takes /\ Last.from \in Nat
  BY <1>1, HeldTypes
<1>4. /\ r \in Takes /\ r.from = Last.from /\ r.seen /\ r.ended = 0
      /\ r.spoken = Last.spoken /\ r.outcome = Last.outcome
  BY <1>1, <1>3 DEF Takes
<1>5. takes' = [takes EXCEPT ![Len(takes)] = r]
  BY <1>2, <1>3 DEF Last, Takes
<1> HIDE DEF r
<1>6. /\ Len(takes') = Len(takes) /\ Last' = r
      /\ \A k \in 1 .. Len(takes) : k # Len(takes) => takes'[k] = takes[k]
  BY <1>0, <1>1, <1>4, <1>5, LastSet
<1>7. /\ det.pre = <<>> /\ det.segment = <<>> /\ det.capture = <<>>
      /\ det.subsegmentsSent = FALSE /\ det.endOnSilence = worker.det.endOnSilence
  <2>1. /\ clear.pre = <<>> /\ clear.segment = <<>> /\ clear.capture = <<>>
        /\ clear.subsegmentsSent = FALSE /\ clear.endOnSilence = worker.det.endOnSilence
        /\ clear \in Detector(Chunks)
    <3>1. <<>> \in Seq(Chunks)
      OBVIOUS
    <3> QED
      BY <1>0, <3>1 DEF Reset, Detector
  <2> HIDE DEF clear
  <2> QED
    BY <2>1 DEF Detector
<1> HIDE DEF clear, det
<1>8. /\ worker'.pc = "read" /\ worker'.was /\ worker'.split = worker.split
      /\ worker'.det = det
  BY <1>0, <1>2 DEF AudioInv, Inv, TypeOK, WorkerType
<1>9. UnsplitInv'
  BY <1>0, <1>2, <1>7, <1>8 DEF HeldInv, UnsplitInv
<1>10. Leftover' = 0 /\ Reached' = Reached /\ Last.from <= Reached
  <2>1. channel = <<>> => Last.from <= Reached
    BY <1>1 DEF AudioInv, OrderInv, ChannelInv, Reached
  <2>2. ASSUME channel # <<>>
        PROVE  Last.from <= Reached
    <3>1. 1 \in 1 .. Len(channel)
      BY <1>0, <2>2
    <3>2. channel[1].n > Last.from
      BY <1>1, <3>1 DEF AudioInv, OrderInv, ChannelInv
    <3> QED
      BY <1>0, <1>3, <2>2, <3>2
  <2>3. Leftover' = 0 /\ Reached' = Reached
    BY <1>2, <1>4, <1>6 DEF Leftover, Reached
  <2> QED
    BY <2>1, <2>2, <2>3
<1>11. TakenInv' /\ EmptyInv'
  <2>1. Len(det.pre) = 0 /\ Len(det.segment) = 0
    BY <1>7
  <2>2. Taking'
    BY <1>1, <1>2 DEF Taking
  <2>3. /\ 0 + Last.from <= Reached + 0
        /\ 0 + Last.from <= Reached + 1 + 0
    BY <1>0, <1>3, <1>10
  <2> QED
    BY <1>1, <1>4, <1>6, <1>7, <1>8, <1>10, <2>1, <2>2, <2>3 DEF TakenInv, EmptyInv
<1>12. GoneInv'
  <2>1. Recorded' = {} /\ Recorded = {}
    BY <1>0, <1>7, <1>8, NoChunks DEF Recorded
  <2>2. Gone' = Gone
    BY <1>2, <1>4, <1>6, <2>1 DEF Gone
  <2>3. Unflushed /\ Losses = 1 /\ Losses' = 1
    BY <1>0, <1>1, <1>2, <1>8 DEF Unflushed, Losses
  <2> QED
    BY <2>2, <2>3 DEF HeldInv, GoneInv
<1>13. OutcomeInv' /\ AnsweredInv' /\ DoneInv'
  BY <1>1, <1>2, <1>4, <1>6 DEF HeldInv, OutcomeInv, AnsweredInv, DoneInv
<1>14. HeldTakeWhole'
  <2>1. ASSUME NEW k \in 1 .. Len(takes'), k # Len(takes)
        PROVE  k \in 1 .. Len(takes) /\ takes'[k] = takes[k] /\ Missing(k)' = Missing(k)
    <3>1. k \in 1 .. Len(takes) /\ takes'[k] = takes[k]
      BY <1>6, <2>1
    <3> QED
      BY <1>0, <1>2, <3>1, MissingKept
  <2>2. takes'[Len(takes)].ended = 0
    BY <1>4, <1>6 DEF Last
  <2> QED
    BY <1>0, <1>2, <2>1, <2>2, WholeKept DEF HeldInv
<1> QED
  BY <1>9, <1>11, <1>12, <1>13, <1>14 DEF HeldInv

(* The chunk in hand when the gate closes is lost. *)
LEMMA HeldDropped ==
  ASSUME AudioInv, mode = "hold", HeldInv, DropChunk
  PROVE  HeldInv'
<1>1. /\ UNCHANGED <<mode, mic, gate, active, splits, request, answer, receiver,
                     user, takes, got>>
      /\ worker.pc = "read" /\ worker'.pc = "look" /\ worker'.was = worker.was
      /\ worker'.split = FALSE /\ worker'.det = worker.det /\ ~gate
      /\ channel # <<>> /\ channel' = Tail(channel)
  BY DEF DropChunk, NextPass, startVars, gateVars, flushVars
<1>2. /\ channel \in Seq(Chunks) /\ worker.was \in BOOLEAN
      /\ worker.det \in Detector(Chunks)
  BY WorkerTypes
<1>3. /\ Reached \in Nat /\ Reached' \in Nat /\ Reached' >= Reached + 1
      /\ MaxSegment \in Nat /\ PttMin \in Nat /\ 0 < PttMin
  BY <1>1, HeldTypes, ReachedMoves
<1>4. /\ (Taking' <=> Taking) /\ (Unflushed' <=> Unflushed) /\ Last' = Last /\ Leftover' = Leftover
      /\ Recorded' = Recorded
  BY <1>1 DEF Taking, Unflushed, Last, Leftover, Recorded
<1>5. UnsplitInv' /\ EmptyInv'
  BY <1>1, <1>4 DEF HeldInv, UnsplitInv, EmptyInv
<1>6. TakenInv'
  <2> SUFFICES ASSUME Taking
               PROVE  /\ Len(takes) > 0
                      /\ Len(worker.det.pre) + Last.from <= Reached' + Leftover
                      /\ Len(worker.det.segment) + Last.from <= Reached' + 1 + Leftover
                      /\ worker.det.subsegmentsSent => Long'
    BY <1>1, <1>4 DEF TakenInv
  <2>1. /\ Len(takes) > 0
        /\ Len(worker.det.pre) + Last.from <= Reached + Leftover
        /\ Len(worker.det.segment) + Last.from <= Reached + 1 + Leftover
        /\ worker.det.subsegmentsSent => Long
    BY DEF HeldInv, TakenInv
  <2>2. Last.from \in Nat /\ Leftover \in Nat
    BY <1>3, <2>1, HeldTypes DEF Leftover
  <2>3. Long => Long'
    BY <1>3, <1>4, <2>2 DEF Long
  <2>4. Len(worker.det.pre) \in Nat /\ Len(worker.det.segment) \in Nat
    BY <1>2 DEF Detector
  <2>5. worker.det.subsegmentsSent => Long'
    BY <2>1, <2>3
  <2> QED
    BY <1>3, <2>1, <2>2, <2>4, <2>5
<1>7. GoneInv'
  <2>1. Losses \in Nat /\ Losses' \in Nat /\ Losses + 1 <= Losses'
    BY <1>1, <1>2 DEF Losses
  <2>2. Gone' \in SUBSET (Gone \cup {Head(channel).n})
    <3>1. ChunksOf(channel) \subseteq {Head(channel).n} \cup ChunksOf(channel')
      BY <1>1, <1>2, HeadOrTail
    <3> QED
      BY <1>4, <3>1 DEF Gone
  <2> QED
    BY <1>4, <2>1, <2>2, AtMostOneMore DEF HeldInv, GoneInv
<1>8. Reached' >= Reached
  BY <1>3
<1> QED
  BY <1>1, <1>3, <1>4, <1>5, <1>6, <1>7, <1>8, HeldPass

(* A chunk that is heard is recorded, unless the pass began without the     *)
(* gate of the take.                                                       *)
LEMMA HeldPushed ==
  ASSUME AudioInv, mode = "hold", HeldInv, PushChunk
  PROVE  HeldInv'
<1> DEFINE d == worker.det
           e == worker'.det
<1>1. /\ UNCHANGED <<mode, mic, gate, active, splits, request, answer, receiver,
                     user, takes>>
      /\ worker.pc = "read" /\ worker'.pc = "look" /\ worker'.was = worker.was
      /\ worker'.split = FALSE
      /\ channel # <<>> /\ channel' = Tail(channel)
      /\ e = Push(d, Head(channel)).det
  BY DEF PushChunk, NextPass, startVars, gateVars, flushVars
<1>2. /\ d \in Detector(Chunks) /\ Head(channel) \in Chunks /\ channel \in Seq(Chunks)
      /\ worker.was \in BOOLEAN /\ gate \in BOOLEAN /\ Ptt /\ ControlInv
  BY <1>1, WorkerTypes, HeldTypes DEF AudioInv
<1>3. gate /\ ~d.endOnSilence /\ (worker.was => d.pttRecording) /\ d.capture \in Seq(Chunks)
      /\ ~worker.split
  <2>1. gate
    BY <1>2 DEF PushChunk
  <2>2. ~d.endOnSilence /\ ~worker.split
    BY <1>1 DEF HeldInv, UnsplitInv
  <2>3. worker.was => d.pttRecording
    BY <1>1, <1>2 DEF ControlInv, PassInv
  <2>4. d.capture \in Seq(Chunks)
    BY <1>2 DEF Detector
  <2> QED
    BY <2>1, <2>2, <2>3, <2>4
<1>4. got' = got
  BY <1>2, <1>3 DEF PushChunk, Handed
<1>5. e.capture = IF d.pttRecording THEN Append(d.capture, Head(channel)) ELSE d.capture
  <2>1. e = Push(d, Head(channel)).det
    BY <1>1
  <2>2. ~d.endOnSilence
    BY <1>3
  <2> HIDE DEF d, e
  <2> QED
    BY <1>2, <2>1, <2>2, PushGrows
<1>6. UnsplitInv'
  BY <1>1 DEF HeldInv, UnsplitInv
<1>7. Taking /\ Taking' /\ Unflushed /\ Unflushed' /\ Last' = Last
  BY <1>1, <1>3 DEF Taking, Unflushed, Last
<1>8. TakenInv' /\ EmptyInv'
  BY <1>1, <1>3, <1>7, HeardTaken DEF EmptyInv
<1>9. GoneInv'
  <2>1. ChunksOf(channel) \subseteq {Head(channel).n} \cup ChunksOf(channel')
    BY <1>1, <1>2, HeadOrTail
  <2>2. CASE worker.was
    <3>1. Recorded' = Recorded \cup {Head(channel).n}
      BY <1>1, <1>2, <1>3, <1>5, <2>2, AppendChunks DEF Recorded
    <3>2. Gone' \in SUBSET Gone
      BY <1>7, <2>1, <3>1 DEF Gone
    <3>3. Losses = 1 /\ Losses' = 1
      BY <1>1, <1>3, <2>2 DEF Losses
    <3>4. AtMost(Gone, 1)
      BY <1>7, <3>3 DEF HeldInv, GoneInv
    <3>5. AtMost(Gone', 1)
      BY <3>2, <3>4, AtMostFewer
    <3> QED
      BY <3>3, <3>5 DEF GoneInv
  <2>3. CASE ~worker.was
    <3>1. Recorded' = {} /\ Recorded = {}
      BY <1>1, <2>3 DEF Recorded
    <3>2. Gone' \in SUBSET (Gone \cup {Head(channel).n})
      BY <1>7, <2>1, <3>1 DEF Gone
    <3>3. Losses = 0 /\ Losses' = 1
      BY <1>1, <1>3, <2>3 DEF Losses
    <3>4. AtMost(Gone, 0)
      BY <1>7, <3>3 DEF HeldInv, GoneInv
    <3>5. AtMost(Gone', 1)
      <4>1. 0 \in Nat /\ 1 \in Nat /\ 0 + 1 <= 1
        OBVIOUS
      <4> QED
        BY <3>2, <3>4, <4>1, AtMostOneMore
    <3> QED
      BY <3>3, <3>5 DEF GoneInv
  <2> QED
    BY <1>2, <2>2, <2>3
<1>10. Reached' \in Nat /\ Reached' >= Reached
  <2>1. Reached \in Nat /\ Reached' \in Nat /\ Reached' >= Reached + 1
    BY <1>1, ReachedMoves, HeldTypes
  <2> QED
    BY <2>1
<1> QED
  BY <1>1, <1>4, <1>6, <1>7, <1>8, <1>9, <1>10, HeldPass

LEMMA HeldStart == Init /\ mode = "hold" => HeldInv
<1> SUFFICES ASSUME Init, mode = "hold" PROVE HeldInv
  OBVIOUS
<1>0. Ptt /\ PttMin \in Nat /\ 0 < PttMin
  BY DetectorAssumption DEF Ptt
<1>1. /\ ~gate /\ splits = FALSE /\ ~request /\ user = "rest" /\ takes = <<>>
      /\ worker = FreshWorker(~Ptt)
  BY <1>0 DEF Init
<1>2. /\ worker.pc = "look" /\ worker.split = FALSE
      /\ worker.det.pre = <<>> /\ worker.det.segment = <<>>
      /\ worker.det.subsegmentsSent = FALSE
  <2> DEFINE det == [NewDetector EXCEPT !.pttRecording = Ptt /\ ~Ptt]
  <2>1. det.pre = <<>> /\ det.segment = <<>> /\ det.subsegmentsSent = FALSE
    BY DEF NewDetector
  <2> HIDE DEF det
  <2>2. worker = [pc |-> "look", det |-> det, was |-> ~Ptt, now |-> FALSE,
                  split |-> FALSE]
    BY <1>1 DEF FreshWorker, det
  <2> QED
    BY <2>1, <2>2
<1>3. ~Taking /\ ~Unflushed
  BY <1>1, <1>2 DEF Taking, Unflushed
<1>4. Len(worker.det.pre) = 0 /\ Len(takes) = 0
  BY <1>1, <1>2
<1>5. UnsplitInv /\ TakenInv /\ EmptyInv /\ GoneInv /\ AnsweredInv /\ DoneInv /\ OutcomeInv
  BY <1>0, <1>1, <1>2, <1>3, <1>4
  DEF UnsplitInv, TakenInv, EmptyInv, GoneInv, AnsweredInv, DoneInv, OutcomeInv
<1>6. HeldTakeWhole
  BY <1>4 DEF HeldTakeWhole
<1> QED
  BY <1>5, <1>6 DEF HeldInv

LEMMA HeldNext ==
  ASSUME AudioInv, ~Torn, ~Slow, mode = "hold", HeldInv, [Next]_vars
  PROVE  HeldInv'
<1>1. CASE DeviceCallback
  BY <1>1, HeldDevice
<1>2. CASE Worker
  BY <1>2, HeldIdle, HeldFlushed, HeldDrained, HeldAnswered, HeldFollowed, HeldSeen,
     HeldDropped, HeldPushed DEF Worker
<1>3. CASE User
  BY <1>3, HeldUser, HeldReleased, HeldOpened, HeldDone, HeldAborted, HeldRestarted,
     HeldJoined DEF User
<1>4. CASE UNCHANGED vars
  <2>1. /\ Last' = Last /\ Leftover' = Leftover /\ Reached' = Reached /\ Recorded' = Recorded
        /\ Taking' = Taking /\ Unflushed' = Unflushed /\ Losses' = Losses /\ Worth' = Worth
        /\ Missing(Len(takes))' = Missing(Len(takes))
    BY <1>4 DEF vars, Last, Leftover, Reached, Recorded, Taking, Unflushed, Losses, Worth, Missing
  <2>2. Gone' = Gone /\ Long' = Long
    BY <1>4, <2>1 DEF vars, Gone, Long
  <2>3. UnsplitInv' /\ TakenInv' /\ EmptyInv' /\ GoneInv'
    BY <1>4, <2>1, <2>2 DEF vars, HeldInv, UnsplitInv, TakenInv, EmptyInv, GoneInv, AtMost
  <2>4. OutcomeInv' /\ AnsweredInv' /\ DoneInv'
    BY <1>4, <2>1, <2>2 DEF vars, HeldInv, OutcomeInv, AnsweredInv, DoneInv, AtMost
  <2>5. HeldTakeWhole'
    BY <1>4, WholeStays DEF vars, HeldInv
  <2> QED
    BY <2>3, <2>4, <2>5 DEF HeldInv
<1> QED
  BY <1>1, <1>2, <1>3, <1>4 DEF Next

HeldTakeInv == AudioInv /\ (mode = "hold" => HeldInv)

(* What is known of a held take while it goes on: a take whose audio has    *)
(* not filled a segment is not split, its chunks are on the channel or      *)
(* recorded but for the one each end of it may lose, and the flush answers  *)
(* with all of the recording.                                              *)
THEOREM HeldTakeInvariant == ~Torn /\ ~Slow => (Spec => []HeldTakeInv)
<1> SUFFICES ASSUME ~Torn, ~Slow PROVE Spec => []HeldTakeInv
  OBVIOUS
<1>1. Init => HeldTakeInv
  BY AudioStart, HeldStart DEF HeldTakeInv
<1>2. HeldTakeInv /\ [Next]_vars => HeldTakeInv'
  <2> SUFFICES ASSUME HeldTakeInv, [Next]_vars PROVE HeldTakeInv'
    OBVIOUS
  <2>1. AudioInv'
    BY AudioNext DEF HeldTakeInv
  <2>2. mode' = mode
    BY DEF Next, Worker, User, vars, startVars, DeviceCallback, Look, BeginFlush, DrainChunk,
       FlushTake, Flush, FollowGate, NothingToRead, DropChunk, PushChunk, OpenGate,
       ResumeCallbacks, ChooseSplitting, PauseCallbacks, CloseGate, RequestFlush,
       ReceiveAnswer, Timeout, NoReceiver, ReleaseDone, AbortTake, RestartPipeline,
       RestartDone
  <2>3. mode = "hold" => HeldInv'
    BY HeldNext DEF HeldTakeInv
  <2> QED
    BY <2>1, <2>2, <2>3 DEF HeldTakeInv
<1> QED
  BY <1>1, <1>2, PTL DEF Spec

(* In hold mode a release that is answered gives the queue all of a take    *)
(* that fits in one segment, pauses included, but for the chunk the worker  *)
(* may hold at each end of it, for all sizes of the buffers and any number  *)
(* of takes, aborts and restarts before it.                                *)
THEOREM HeldTakesAreWhole == ~Torn /\ ~Slow => (Spec => []HeldTakeWhole)
<1> SUFFICES ASSUME ~Torn, ~Slow PROVE Spec => []HeldTakeWhole
  OBVIOUS
<1>1. HeldTakeInv => HeldTakeWhole
  BY DEF HeldTakeInv, HeldInv, HeldTakeWhole
<1> QED
  BY <1>1, HeldTakeInvariant, PTL

-----------------------------------------------------------------------------
(* What makes a release deaf, whatever the timing.                         *)

Lost == \E j \in 1 .. Len(takes) : takes[j].outcome \in {"aborted", "cut"}

(* A receiver that is gone, or that of a stopped pipeline, was lost to an   *)
(* abort or to a restart within a take; a release that waits in vain waits  *)
(* because of one, and has not ended its take.                             *)
LossInv ==
  /\ takes \in Seq(Takes)
  /\ user # "rest" => Len(takes) > 0
  /\ user \notin {"rest", "done"} => Last.outcome \in {"open", "cut"}
  /\ receiver = "lent" => user = "wait"
  /\ receiver \in {"lost", "stale"} => Lost
  /\ user \in {"orphan", "unheard"} => Lost
  /\ DeafAfterLoss

(* Takes that keep their outcome, and the last one, which may get one. *)
OneOutcome(outcome) ==
  /\ takes' \in Seq(Takes) /\ Len(takes') = Len(takes)
  /\ \A k \in 1 .. Len(takes) : k # Len(takes) => takes'[k].outcome = takes[k].outcome
  /\ Len(takes) > 0 => Last'.outcome = outcome

LEMMA LossKept ==
  ASSUME takes \in Seq(Takes), DeafAfterLoss, NEW outcome, OneOutcome(outcome),
         \/ Len(takes) > 0 => outcome = Last.outcome
         \/ outcome \in {"aborted", "cut"}
         \/ /\ Len(takes) > 0 /\ Last.outcome = "open"
            /\ outcome = "deaf" => Lost
  PROVE  DeafAfterLoss' /\ (Lost => Lost')
<1> DEFINE n == Len(takes)
           Loss == {"aborted", "cut"}
<1>1. n \in Nat /\ Len(takes') = n
  BY DEF OneOutcome
<1>2. ASSUME NEW k \in 1 .. n
      PROVE  /\ k # n => takes'[k].outcome = takes[k].outcome
             /\ k = n => takes'[k].outcome = outcome /\ Last = takes[k]
  BY <1>1, <1>2 DEF OneOutcome, Last
<1>3. ASSUME NEW j \in 1 .. n, takes[j].outcome \in Loss
      PROVE  takes'[j].outcome \in Loss
  BY <1>1, <1>2, <1>3
<1>4. Lost => Lost'
  BY <1>1, <1>3 DEF Lost
<1>5. ASSUME NEW k \in 1 .. n, takes'[k].outcome = "deaf"
      PROVE  \E j \in 1 .. k - 1 : takes[j].outcome \in Loss
  <2>1. CASE takes[k].outcome = "deaf"
    BY <2>1 DEF DeafAfterLoss
  <2>2. CASE takes[k].outcome # "deaf"
    <3>1. k = n /\ takes[k].outcome = "open" /\ Lost
      BY <1>1, <1>2, <1>5, <2>2
    <3>2. PICK j \in 1 .. n : takes[j].outcome \in Loss
      BY <3>1 DEF Lost
    <3>3. j # k
      BY <3>1, <3>2
    <3> QED
      BY <1>1, <3>1, <3>2, <3>3
  <2> QED
    BY <2>1, <2>2
<1>6. ASSUME NEW k \in 1 .. n, takes'[k].outcome = "deaf"
      PROVE  \E j \in 1 .. k - 1 : takes'[j].outcome \in Loss
  <2>1. PICK j \in 1 .. k - 1 : takes[j].outcome \in Loss
    BY <1>5, <1>6
  <2>2. j \in 1 .. n
    BY <1>1
  <2> QED
    BY <1>3, <2>1, <2>2
<1>7. DeafAfterLoss'
  BY <1>1, <1>6 DEF DeafAfterLoss
<1> QED
  BY <1>4, <1>7

LEMMA OutcomesKept ==
  ASSUME takes \in Seq(Takes), takes' = takes
  PROVE  OneOutcome(Last.outcome)
BY DEF OneOutcome, Last

LEMMA LastOutcome ==
  ASSUME takes \in Seq(Takes), Len(takes) > 0, NEW r \in Takes,
         takes' = [takes EXCEPT ![Len(takes)] = r]
  PROVE  OneOutcome(r.outcome)
<1>1. takes' \in Seq(Takes)
  OBVIOUS
<1> QED
  BY <1>1, LastSet DEF OneOutcome

LEMMA EndedOutcome ==
  ASSUME takes \in Seq(Takes), Len(takes) > 0, NEW outcome \in Outcomes, EndTake(outcome)
  PROVE  OneOutcome(IF Last.outcome = "open" THEN outcome ELSE Last.outcome)
<1>1. Last \in Takes
  BY DEF Last
<1>2. CASE Last.outcome = "open"
  <2> DEFINE r == [Last EXCEPT !.outcome = outcome]
  <2>1. takes' = [takes EXCEPT ![Len(takes)] = r]
    BY <1>1, <1>2 DEF EndTake, Last, Takes
  <2>2. r \in Takes /\ r.outcome = outcome
    BY <1>1 DEF Takes
  <2> HIDE DEF r
  <2> QED
    BY <1>2, <2>1, <2>2, LastOutcome
<1>3. CASE Last.outcome # "open"
  <2>1. takes' = takes
    BY <1>3 DEF EndTake, Last
  <2> QED
    BY <1>3, <2>1, OutcomesKept
<1> QED
  BY <1>2, <1>3

LEMMA NewTakeTyped == TypeOK => NewTake \in Takes
<1> SUFFICES ASSUME TypeOK PROVE NewTake \in Takes
  OBVIOUS
<1>1. mic \in Nat /\ MaxChunks \in Nat
  BY AudioAssumption DEF TypeOK
<1>2. (IF channel = <<>> THEN mic ELSE channel[1].n - 1) \in Nat
  <2>1. CASE channel # <<>>
    <3>1. channel[1] \in Chunks
      BY <2>1 DEF TypeOK
    <3> QED
      BY <1>1, <2>1, <3>1 DEF Chunks
  <2> QED
    BY <1>1, <2>1
<1> QED
  BY <1>2 DEF NewTake, Takes, Outcomes, Ptt

LEMMA LossStart == Init => LossInv
<1> SUFFICES ASSUME Init PROVE LossInv
  OBVIOUS
<1>1. NewTake \in Takes /\ NewTake.outcome = "open"
  BY Start, NewTakeTyped DEF Inv, NewTake
<1> HIDE DEF NewTake
<1>2. user = "rest" /\ receiver = "here" /\ (takes = <<>> \/ takes = <<NewTake>>)
  BY DEF Init
<1>3. takes \in Seq(Takes) /\ \A k \in 1 .. Len(takes) : takes[k].outcome = "open"
  <2>1. CASE takes = <<>>
    BY <2>1
  <2>2. CASE takes = <<NewTake>>
    <3>1. Len(<<NewTake>>) = 1 /\ <<NewTake>>[1] = NewTake /\ <<NewTake>> \in Seq(Takes)
      BY <1>1
    <3> QED
      BY <1>1, <2>2, <3>1
  <2> QED
    BY <1>2, <2>1, <2>2
<1>4. DeafAfterLoss
  BY <1>3 DEF DeafAfterLoss
<1> QED
  BY <1>2, <1>3, <1>4 DEF LossInv

(* A step that tells a take nothing, or something of what it records. *)
LEMMA LossSame ==
  ASSUME LossInv, OneOutcome(Last.outcome), receiver' = receiver,
         \/ user' = user
         \/ user' \notin {"orphan", "unheard"} /\ receiver # "lent"
            /\ user \notin {"rest", "done"}
  PROVE  LossInv'
<1>1. DeafAfterLoss' /\ (Lost => Lost')
  BY LossKept DEF LossInv
<1>2. /\ takes' \in Seq(Takes) /\ Len(takes') = Len(takes)
      /\ Len(takes) > 0 => Last'.outcome = Last.outcome
  BY DEF OneOutcome
<1> QED
  BY <1>1, <1>2 DEF LossInv

LEMMA LossDevice == ASSUME Inv, LossInv, DeviceCallback PROVE LossInv'
<1>1. UNCHANGED <<receiver, user>> /\ mic' \in Nat
  BY AudioAssumption DEF DeviceCallback, flushVars, Inv, TypeOK
<1>2. takes' = takes \/ takes' = [takes EXCEPT ![Len(takes)].spoken = @ \cup {mic'}]
  BY DEF DeviceCallback
<1>3. OneOutcome(Last.outcome)
  <2>1. CASE takes' = takes
    BY <2>1, OutcomesKept DEF LossInv
  <2>2. CASE takes' # takes
    <3> DEFINE r == [Last EXCEPT !.spoken = @ \cup {mic'}]
    <3>1. takes \in Seq(Takes) /\ Len(takes) > 0
      BY <1>2, <2>2 DEF LossInv
    <3>2. Last \in Takes
      BY <3>1 DEF Last
    <3>3. r \in Takes /\ r.outcome = Last.outcome
      BY <1>1, <3>2 DEF Takes
    <3>4. takes' = [takes EXCEPT ![Len(takes)] = r]
      BY <1>2, <2>2, <3>2 DEF Last, Takes
    <3> HIDE DEF r
    <3> QED
      BY <3>1, <3>3, <3>4, LastOutcome
  <2> QED
    BY <2>1, <2>2
<1> QED
  BY <1>1, <1>3, LossSame

LEMMA LossWorker == ASSUME LossInv, Worker PROVE LossInv'
<1>1. UNCHANGED <<receiver, user>>
  BY DEF Worker, Look, BeginFlush, DrainChunk, FlushTake, Flush, FollowGate, NothingToRead,
     DropChunk, PushChunk, flushVars
<1>2. takes' = takes \/ takes' = [takes EXCEPT ![Len(takes)].seen = TRUE]
  BY DEF Worker, Look, BeginFlush, DrainChunk, FlushTake, Flush, FollowGate, NothingToRead,
     DropChunk, PushChunk
<1>3. OneOutcome(Last.outcome)
  <2>1. CASE takes' = takes
    BY <2>1, OutcomesKept DEF LossInv
  <2>2. CASE takes' # takes
    <3> DEFINE r == [Last EXCEPT !.seen = TRUE]
    <3>1. takes \in Seq(Takes) /\ Len(takes) > 0
      BY <1>2, <2>2 DEF LossInv
    <3>2. Last \in Takes
      BY <3>1 DEF Last
    <3>3. r \in Takes /\ r.outcome = Last.outcome
      BY <3>2 DEF Takes
    <3>4. takes' = [takes EXCEPT ![Len(takes)] = r]
      BY <1>2, <2>2, <3>2 DEF Last, Takes
    <3> HIDE DEF r
    <3> QED
      BY <3>1, <3>3, <3>4, LastOutcome
  <2> QED
    BY <2>1, <2>2
<1> QED
  BY <1>1, <1>3, LossSame

LEMMA LossOpened == ASSUME Inv, LossInv, OpenGate PROVE LossInv'
<1> DEFINE n == Len(takes)
<1>1. /\ user = "rest" /\ user' = "opened" /\ receiver' = receiver
      /\ takes' = Append(takes, NewTake)
  BY DEF OpenGate, flushVars
<1>2. NewTake \in Takes /\ NewTake.outcome = "open"
  BY NewTakeTyped DEF Inv, NewTake
<1> HIDE DEF NewTake
<1>3. takes \in Seq(Takes) /\ n \in Nat
  BY DEF LossInv
<1>4. /\ takes' \in Seq(Takes) /\ Len(takes') = n + 1 /\ takes'[n + 1] = NewTake
      /\ \A k \in 1 .. n : takes'[k] = takes[k]
  BY <1>1, <1>2, <1>3
<1>5. Last' = NewTake
  BY <1>4 DEF Last
<1>6. Lost => Lost'
  BY <1>3, <1>4 DEF Lost
<1>7. DeafAfterLoss'
  <2> SUFFICES ASSUME NEW k \in 1 .. n + 1, takes'[k].outcome = "deaf"
               PROVE  \E j \in 1 .. k - 1 : takes'[j].outcome \in {"aborted", "cut"}
    BY <1>4 DEF DeafAfterLoss
  <2>1. k \in 1 .. n /\ takes[k].outcome = "deaf"
    BY <1>2, <1>3, <1>4
  <2>2. PICK j \in 1 .. k - 1 : takes[j].outcome \in {"aborted", "cut"}
    BY <2>1 DEF LossInv, DeafAfterLoss
  <2>3. j \in 1 .. n
    BY <1>3, <2>1
  <2> QED
    BY <1>4, <2>2, <2>3
<1> QED
  BY <1>1, <1>2, <1>4, <1>5, <1>6, <1>7 DEF LossInv

(* The press, and the release up to its wait. *)
LEMMA LossAsked ==
  ASSUME Inv, LossInv,
         ResumeCallbacks \/ ChooseSplitting \/ PauseCallbacks \/ CloseGate \/ RequestFlush
  PROVE  LossInv'
<1>1. OneOutcome(Last.outcome) /\ user \notin {"rest", "done"} /\ receiver # "lent"
  BY OutcomesKept
  DEF LossInv, ResumeCallbacks, ChooseSplitting, PauseCallbacks, CloseGate, RequestFlush
<1>2. CASE receiver' = receiver /\ user' \notin {"orphan", "unheard"}
  BY <1>1, <1>2, LossSame
<1>3. CASE Borrow
  <2>1. DeafAfterLoss' /\ (Lost => Lost')
    BY <1>1, LossKept DEF LossInv
  <2>2. /\ takes' \in Seq(Takes) /\ Len(takes') > 0
        /\ Last'.outcome \in {"open", "cut"}
    BY <1>1 DEF OneOutcome, LossInv
  <2>3. receiver \in {"lost", "stale"} => Lost
    BY DEF LossInv
  <2>4. receiver \in {"here", "lost", "stale"}
    BY <1>1 DEF Inv, TypeOK
  <2> QED
    BY <1>3, <2>1, <2>2, <2>3, <2>4 DEF LossInv, Borrow
<1> QED
  BY <1>2, <1>3
  DEF ResumeCallbacks, ChooseSplitting, PauseCallbacks, CloseGate, RequestFlush, flushVars

LEMMA LossHeard ==
  ASSUME LossInv, ReceiveAnswer \/ Timeout \/ NoReceiver
  PROVE  LossInv'
<1>1. PICK outcome \in Outcomes :
        /\ EndTake(outcome)
        /\ \/ outcome \in {"queued", "silent", "refused", "empty"}
           \/ outcome = "deaf" /\ user # "wait"
  <2>1. ReceiveAnswer => EndTake("queued") \/ EndTake("silent") \/ EndTake("refused")
    BY DEF ReceiveAnswer
  <2>2. Timeout => EndTake(IF user = "wait" THEN "empty" ELSE "deaf")
    BY DEF Timeout
  <2>3. NoReceiver => EndTake("deaf") /\ user # "wait"
    BY DEF NoReceiver
  <2>4. {"queued", "silent", "refused", "empty", "deaf"} \subseteq Outcomes
    BY DEF Outcomes
  <2>5. CASE user = "wait"
    BY <2>1, <2>2, <2>3, <2>4, <2>5
  <2>6. CASE user # "wait"
    BY <2>1, <2>2, <2>3, <2>4, <2>6
  <2> QED
    BY <2>5, <2>6
<1>2. /\ user \in Waits /\ user' = "done"
      /\ Restore \/ (user = "unheard" /\ receiver' = receiver)
  BY DEF ReceiveAnswer, Timeout, NoReceiver, Waits, flushVars
<1>3. takes \in Seq(Takes) /\ Len(takes) > 0 /\ Last.outcome \in {"open", "cut"}
  BY <1>2 DEF LossInv, Waits
<1> DEFINE o == IF Last.outcome = "open" THEN outcome ELSE Last.outcome
<1>4. OneOutcome(o)
  BY <1>1, <1>3, EndedOutcome
<1>5. user \in {"orphan", "unheard"} => Lost
  BY DEF LossInv
<1>6. outcome = "deaf" => Lost
  BY <1>1, <1>2, <1>5 DEF Waits
<1>7. DeafAfterLoss' /\ (Lost => Lost')
  BY <1>3, <1>4, <1>6, LossKept DEF LossInv
<1>8. takes' \in Seq(Takes) /\ Len(takes') > 0
  BY <1>3, <1>4 DEF OneOutcome
<1>9. receiver' # "lent" /\ (receiver' \in {"lost", "stale"} => Lost)
  BY <1>2, <1>5 DEF LossInv, Restore, Waits
<1> QED
  BY <1>2, <1>7, <1>8, <1>9 DEF LossInv

LEMMA LossEnded == ASSUME Inv, LossInv, ReleaseDone \/ AbortTake PROVE LossInv'
<1>1. /\ user \in {"done", "held"} /\ user' = "rest" /\ mic \in Nat
      /\ takes \in Seq(Takes) /\ Len(takes) > 0
  BY AudioAssumption DEF ReleaseDone, AbortTake, Inv, TypeOK, LossInv
<1>2. Last \in Takes
  BY <1>1 DEF Last
<1>3. CASE ReleaseDone
  <2> DEFINE r == [Last EXCEPT !.ended = mic]
  <2>1. r \in Takes /\ r.outcome = Last.outcome
    BY <1>1, <1>2 DEF Takes
  <2>2. takes' = [takes EXCEPT ![Len(takes)] = r]
    BY <1>2, <1>3 DEF ReleaseDone, Last, Takes
  <2> HIDE DEF r
  <2>3. OneOutcome(Last.outcome)
    BY <1>1, <2>1, <2>2, LastOutcome
  <2>4. receiver' = receiver /\ receiver # "lent" /\ user = "done"
    BY <1>3 DEF ReleaseDone, flushVars, LossInv
  <2>5. DeafAfterLoss' /\ (Lost => Lost')
    BY <2>3, LossKept DEF LossInv
  <2> QED
    BY <1>1, <2>3, <2>4, <2>5 DEF LossInv, OneOutcome
<1>4. CASE AbortTake
  <2> DEFINE r == [Last EXCEPT !.outcome = "aborted", !.ended = mic]
  <2>1. r \in Takes /\ r.outcome = "aborted"
    BY <1>1, <1>2 DEF Takes, Outcomes
  <2>2. takes' = [takes EXCEPT ![Len(takes)] = r]
    BY <1>2, <1>4 DEF AbortTake, Last, Takes
  <2> HIDE DEF r
  <2>3. OneOutcome("aborted")
    BY <1>1, <2>1, <2>2, LastOutcome
  <2>4. receiver' = "lost"
    BY <1>4 DEF AbortTake
  <2>5. DeafAfterLoss'
    BY <2>3, LossKept DEF LossInv
  <2>6. Lost'
    BY <1>1, <2>3 DEF OneOutcome, Lost, Last
  <2> QED
    BY <1>1, <2>3, <2>4, <2>5, <2>6 DEF LossInv, OneOutcome
<1> QED
  BY <1>3, <1>4

LEMMA LossRestarted == ASSUME LossInv, RestartPipeline PROVE LossInv'
<1>1. /\ receiver' = "here" /\ user' = (IF user = "wait" THEN "orphan" ELSE user)
      /\ IF user # "rest" THEN EndTake("cut") ELSE takes' = takes
  BY DEF RestartPipeline, StartPipeline
<1>2. takes \in Seq(Takes)
  BY DEF LossInv
<1>3. CASE user = "rest"
  <2>1. OneOutcome(Last.outcome)
    BY <1>1, <1>2, <1>3, OutcomesKept
  <2>2. DeafAfterLoss' /\ (Lost => Lost')
    BY <2>1, LossKept DEF LossInv
  <2> QED
    BY <1>1, <1>3, <2>1, <2>2 DEF LossInv, OneOutcome
<1>4. CASE user # "rest"
  <2> DEFINE o == IF Last.outcome = "open" THEN "cut" ELSE Last.outcome
  <2>1. Len(takes) > 0
    BY <1>4 DEF LossInv
  <2>2. OneOutcome(o)
    BY <1>1, <1>2, <1>4, <2>1, EndedOutcome DEF Outcomes
  <2>3. DeafAfterLoss' /\ (Lost => Lost')
    BY <2>2, LossKept DEF LossInv
  <2>4. user \notin {"rest", "done"} => o = "cut"
    BY DEF LossInv
  <2>5. takes' \in Seq(Takes) /\ Len(takes') = Len(takes) /\ Last'.outcome = o
    BY <2>1, <2>2 DEF OneOutcome
  <2>6. o = "cut" => Lost'
    BY <1>2, <2>1, <2>5 DEF Lost, Last
  <2>7. user \in {"orphan", "unheard"} => Lost
    BY DEF LossInv
  <2> HIDE DEF o
  <2> QED
    BY <1>1, <1>4, <2>1, <2>3, <2>4, <2>5, <2>6, <2>7 DEF LossInv
<1> QED
  BY <1>3, <1>4

LEMMA LossNext == ASSUME Inv, LossInv, [Next]_vars PROVE LossInv'
<1>1. CASE DeviceCallback
  BY <1>1, LossDevice
<1>2. CASE Worker
  BY <1>2, LossWorker
<1>3. CASE User
  <2>1. CASE RestartDone
    BY <2>1, OutcomesKept, LossSame DEF RestartDone, flushVars, LossInv
  <2> QED
    BY <1>3, <2>1, LossOpened, LossAsked, LossHeard, LossEnded, LossRestarted DEF User
<1>4. CASE UNCHANGED vars
  BY <1>4, OutcomesKept, LossSame DEF vars, LossInv
<1> QED
  BY <1>1, <1>2, <1>3, <1>4 DEF Next

(* A release goes unheard only after an abort, or after a restart within a  *)
(* take, of an earlier take: however press, release, restart and the worker *)
(* fall together, a worker that is late or a take that was refused costs no *)
(* later take its answer.                                                  *)
THEOREM DeafOnlyAfterLoss == Spec => []DeafAfterLoss
<1>1. Init => Inv /\ LossInv
  BY Start, LossStart
<1>2. Inv /\ LossInv /\ [Next]_vars => LossInv'
  BY LossNext
<1>3. LossInv => DeafAfterLoss
  BY DEF LossInv
<1> QED
  BY <1>1, <1>2, <1>3, CaptureInvariant, PTL DEF Spec

=============================================================================
