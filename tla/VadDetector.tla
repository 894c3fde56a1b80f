---------------------------- MODULE VadDetector ----------------------------
(***************************************************************************)
(* The voice detector (vad/detector.rs) as operators on its record.  A     *)
(* chunk of samples is one analysed frame here, so nothing is ever left in *)
(* the resampler or in the partial frame `pending`.                        *)
(*                                                                         *)
(* A frame says whether it holds voice (the analyzer's verdict); audio is  *)
(* a sequence of frames, and all limits are counted in frames.             *)
(***************************************************************************)
EXTENDS Naturals, Sequences

CONSTANTS PreFrames,      \* pre_speech_samples, the ring buffer's capacity
          MinSpeech,      \* minimum_speech_samples
          SilenceTimeout, \* silence_timeout_samples
          MaxSegment,     \* maximum_segment_samples
          PttMin          \* the 100 ms a released take must have

ASSUME DetectorAssumption ==
  /\ {PreFrames, MinSpeech, SilenceTimeout, MaxSegment, PttMin} \subseteq Nat \ {0}

(* VadDetector::new. *)
NewDetector ==
  [speaking |-> FALSE, pre |-> <<>>, segment |-> <<>>, silence |-> 0,
   endOnSilence |-> TRUE, pttRecording |-> FALSE, capture |-> <<>>,
   subsegmentsSent |-> FALSE]

Detector(Frames) ==
  [speaking : BOOLEAN, pre : Seq(Frames), segment : Seq(Frames), silence : Nat,
   endOnSilence : BOOLEAN, pttRecording : BOOLEAN, capture : Seq(Frames),
   subsegmentsSent : BOOLEAN]

(* The limits of the two buffers that are bounded at all.                   *)
Fits(d) ==
  /\ Len(d.pre) <= PreFrames
  /\ Len(d.segment) <= IF MaxSegment > PreFrames + 1
                       THEN MaxSegment - 1 ELSE PreFrames + 1

(* What a call leaves behind, the event it returns, and the event's audio. *)
Outcome(d, event, audio) == [det |-> d, event |-> event, audio |-> audio]
Quiet(d) == Outcome(d, "none", <<>>)

Reset(d) ==
  [d EXCEPT !.speaking = FALSE, !.pre = <<>>, !.segment = <<>>,
            !.silence = 0, !.capture = <<>>, !.subsegmentsSent = FALSE]

TakeSegment(d) == [d EXCEPT !.segment = <<>>, !.silence = 0, !.pre = <<>>]

(* mark_ptt_subsegment_delivered. *)
MarkDelivered(d) ==
  [d EXCEPT !.subsegmentsSent = d.subsegmentsSent \/ d.pttRecording]

(* RingBuffer::push_slice: the oldest frame gives way. *)
Remember(pre, frame) ==
  LET all == Append(pre, frame)
  IN IF Len(all) > PreFrames THEN Tail(all) ELSE all

(* process_frame while idle: the frame that starts the speech is in the     *)
(* pre-buffer already when it is added to the segment.                      *)
HearIdle(d, frame) ==
  LET pre == Remember(d.pre, frame)
  IN IF frame.voice
     THEN Outcome([d EXCEPT !.speaking = TRUE, !.silence = 0, !.pre = pre,
                            !.segment = Append(pre, frame)],
                  "started", <<>>)
     ELSE Quiet([d EXCEPT !.pre = pre])

(* Variant for the checks: only silence ends a segment. *)
HearSpeakingUnsplit(d, frame) ==
  LET s == [d EXCEPT !.segment = Append(d.segment, frame),
                     !.silence = IF frame.voice THEN 0 ELSE d.silence + 1]
  IN IF ~frame.voice /\ s.endOnSilence /\ s.silence >= SilenceTimeout
     THEN IF Len(s.segment) >= MinSpeech
          THEN Outcome(MarkDelivered([TakeSegment(s) EXCEPT !.speaking = FALSE]),
                       "ended", s.segment)
          ELSE Quiet(Reset(s))
     ELSE Quiet(s)

(* process_frame while speaking: silence ends the segment or, if it is too  *)
(* short, throws it away; a segment that is too long is split.              *)
HearSpeaking(d, frame) ==
  LET s == [d EXCEPT !.segment = Append(d.segment, frame),
                     !.silence = IF frame.voice THEN 0 ELSE d.silence + 1]
      over == ~frame.voice /\ s.endOnSilence /\ s.silence >= SilenceTimeout
  IN IF over
     THEN IF Len(s.segment) >= MinSpeech
          THEN Outcome(MarkDelivered([TakeSegment(s) EXCEPT !.speaking = FALSE]),
                       "ended", s.segment)
          ELSE Quiet(Reset(s))
     ELSE IF Len(s.segment) >= MaxSegment
          THEN Outcome(MarkDelivered(TakeSegment(s)), "ended", s.segment)
          ELSE Quiet(s)

(* push_samples. *)
Push(d, frame) ==
  LET c == IF d.pttRecording
           THEN [d EXCEPT !.capture = Append(d.capture, frame)] ELSE d
  IN IF c.speaking THEN HearSpeaking(c, frame) ELSE HearIdle(c, frame)

(* Variant for the checks: a take that was split is sent whole again. *)
FlushWholeCapture(d) ==
  LET stopped == [d EXCEPT !.pttRecording = FALSE]
  IN IF Len(d.capture) >= PttMin THEN Outcome(Reset(stopped), "ended", d.capture)
     ELSE Quiet(stopped)

(* flush_ptt: what a released take still has to give. *)
FlushPtt(d) ==
  LET stopped == [d EXCEPT !.pttRecording = FALSE]
      unsplit == [stopped EXCEPT !.subsegmentsSent = FALSE]
      least == IF PttMin < MinSpeech THEN PttMin ELSE MinSpeech
  IN CASE d.subsegmentsSent /\ d.speaking /\ Len(d.segment) >= MinSpeech ->
            Outcome([TakeSegment(unsplit) EXCEPT !.capture = <<>>],
                    "ended", d.segment)
       [] d.subsegmentsSent /\ ~(d.speaking /\ Len(d.segment) >= MinSpeech) ->
            Quiet(Reset(stopped))
       [] ~d.subsegmentsSent /\ Len(d.capture) >= PttMin ->
            Outcome(Reset(stopped), "ended", d.capture)
       [] ~d.subsegmentsSent /\ Len(d.capture) < PttMin /\ d.segment # <<>> ->
            Outcome([TakeSegment(stopped) EXCEPT !.speaking = FALSE],
                    "ended", d.segment)
       [] ~d.subsegmentsSent /\ Len(d.capture) < PttMin /\ d.segment = <<>>
            /\ Len(d.pre) >= least ->
            Outcome(Reset(stopped), "ended", d.pre)
       [] OTHER -> Quiet(d)

=============================================================================
