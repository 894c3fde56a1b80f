-------------------------- MODULE PttPostprocess_proofs --------------------------
(***************************************************************************)
(* Deferred and rewritten text, for all values of the constants: one        *)
(* finisher at a time holds the rewrite of a take; when everything is at    *)
(* rest the controller takes the next take, whatever raced with what; and   *)
(* text waits for its field only while the user is away from it.  In a run  *)
(* without the races that move text, and with the target brought forward,   *)
(* text is typed once, in order and in the field of its session, a rewrite  *)
(* deletes the text of its take only, and one failed call loses nothing.    *)
(***************************************************************************)
EXTENDS PttPostprocess, SequenceTheorems, TLAPS

-----------------------------------------------------------------------------
(* Types.                                                                  *)

WorkerPcs == {"idle", "work", "decide", "append", "type", "finish", "failed", "recover",
              "look", "claim", "hold", "end"}
Busy == {"work", "decide", "append", "type", "finish", "failed"}
FlushPcs == {"idle", "start", "type", "consume", "look", "claim", "hold", "end"}
ReleasePcs == {"idle", "look", "claim", "hold", "end"}
FinishPcs == {"none", "delete", "rewrite", "insert", "restore"}
Targets == Fields \cup {NoWindow}

(* The field: focus, target, what was typed where. *)
FieldTypes ==
  /\ mode \in Modes /\ focus \in Windows /\ moves \in 0 .. MaxMoves
  /\ target \in Targets /\ watch \in {"off", "new", "match", "away"}
  /\ typed \in [Windows -> Seq(Segments)]
  /\ failures \in 0 .. MaxFailures

(* The take and the controller. *)
TakeTypes ==
  /\ state \in AppStates /\ ptt \in BOOLEAN /\ begun \in BOOLEAN
  /\ capture \in {"closed", "planned", "open", "listening", "releasing", "queued"}
  /\ speaking \in BOOLEAN /\ heard \in 0 .. MaxSegments
  /\ speaking => heard < MaxSegments
  /\ home \in [Segments -> Targets] /\ spot \in Targets
  /\ phase1 \in [active : BOOLEAN, text : Seq(Segments)]

(* The pipeline and the flush tasks. *)
JobTypes ==
  /\ queue \in Seq(Segments) /\ dropped \subseteq Segments
  /\ worker \in [pc : WorkerPcs, seg : Segments \cup {0}]
  /\ worker.pc \in Busy => worker.seg \in Segments
  /\ buffer \in Seq(Segments)
  /\ flush \in [Flushes -> [pc : FlushPcs, text : Seq(Segments)]]
  /\ pending \in Nat

(* The rewrite. *)
FinishTypes ==
  /\ finish \in [by : Finishers \cup {"none"}, pc : FinishPcs, text : Seq(Segments),
                 deleted : BOOLEAN, recover : BOOLEAN]
  /\ release \in ReleasePcs /\ misdeleted \in BOOLEAN

Types == FieldTypes /\ TakeTypes /\ JobTypes /\ FinishTypes

(* The count of pending jobs is that of the queue and the job in hand. *)
PendingExact == pending = Len(queue) + (IF worker.pc \in Busy THEN 1 ELSE 0)

Ground == Types /\ PendingExact

LEMMA DropType ==
  ASSUME NEW S, NEW s \in Seq(S), NEW k \in Nat
  PROVE  SubSeq(s, k + 1, Len(s)) \in Seq(S)
<1>1. k + 1 \in Int /\ Len(s) \in Int /\ \A i \in k + 1 .. Len(s) : s[i] \in S
  OBVIOUS
<1> QED
  BY <1>1, SubSeqProperties

LEMMA DeletedType ==
  ASSUME NEW w, typed[w] \in Seq(Segments), finish.text \in Seq(Segments)
  PROVE  /\ Kept(w) \in 0 .. Len(typed[w])
         /\ Deleted(w) \in Seq(Segments) /\ Len(Deleted(w)) = Kept(w)
         /\ \A i \in 1 .. Kept(w) : Deleted(w)[i] = typed[w][i]
<1>1. Len(typed[w]) \in Nat /\ Len(finish.text) \in Nat
  OBVIOUS
<1>2. Kept(w) \in 0 .. Len(typed[w])
  <2> DEFINE n == Len(typed[w])
             m == Len(finish.text)
  <2>1. n \in Nat /\ m \in Nat
    BY <1>1
  <2>2. Kept(w) = IF m < n THEN n - m ELSE 0
    BY DEF Kept
  <2> HIDE DEF n, m
  <2>3. Kept(w) \in 0 .. n
    BY <2>1, <2>2
  <2> QED
    BY <2>3 DEF n
<1>3. \A i \in 1 .. Kept(w) : typed[w][i] \in Segments
  BY <1>1, <1>2
<1>4. 1 \in Int /\ Kept(w) \in Int
  BY <1>2
<1> HIDE DEF Kept
<1>5. /\ Deleted(w) \in Seq(Segments)
      /\ Len(Deleted(w)) = IF 1 <= Kept(w) THEN Kept(w) - 1 + 1 ELSE 0
      /\ \A i \in 1 .. Kept(w) - 1 + 1 : Deleted(w)[i] = typed[w][1 + i - 1]
  BY <1>3, <1>4, SubSeqProperties DEF Deleted
<1> QED
  BY <1>2, <1>5

LEMMA StateOperators ==
  ASSUME NEW s \in AppStates, NEW held \in BOOLEAN
  PROVE  /\ \A t \in AppStates : Transition(s, t) \in AppStates
         /\ Announce(s) \in AppStates /\ SpeechStart(s) \in AppStates
         /\ RecoverAfterSegment(s, held) \in AppStates
         /\ ReportError(s, FALSE) \in AppStates
         /\ ForInjection(s) \in AppStates
         /\ {"Ready", "Listening", "Processing", "Injecting"} \subseteq AppStates
BY DEF AppStates, Transition, Announce, SpeechStart, RecoverAfterSegment, ReportError,
       ForInjection

LEMMA PrepareTypes ==
  ASSUME FieldTypes, Prepare
  PROVE  /\ focus' \in Windows /\ target' \in Targets
         /\ moves' = moves /\ watch' = watch
BY DeferAssumption DEF Prepare, FieldTypes, Captured, Targets, Windows

LEMMA StopTypes ==
  ASSUME FieldTypes, NEW s, MaybeStopWatch(s)
  PROVE  /\ target' \in Targets /\ watch' \in {"off", "new", "match", "away"}
BY DEF MaybeStopWatch, FieldTypes, fieldVars, Targets

LEMMA FailTypes ==
  ASSUME FieldTypes, Fails
  PROVE  failures' \in 0 .. MaxFailures
BY DeferAssumption DEF Fails, FieldTypes

LEMMA RecordedType ==
  ASSUME phase1 \in [active : BOOLEAN, text : Seq(Segments)], NEW seg \in Segments
  PROVE  Recorded(seg) \in [active : BOOLEAN, text : Seq(Segments)]
BY DEF Recorded

-----------------------------------------------------------------------------
LEMMA GroundInit == Init => Ground
<1> SUFFICES ASSUME Init PROVE Ground
  OBVIOUS
<1>1. FieldTypes
  <2>1. focus \in Windows
    BY DeferAssumption DEF Init, Windows
  <2>2. typed \in [Windows -> Seq(Segments)]
    BY DEF Init
  <2> QED
    BY <2>1, <2>2, DeferAssumption DEF Init, FieldTypes, Targets
<1>2. TakeTypes
  <2>1. <<>> \in Seq(Segments)
    OBVIOUS
  <2>2. "Ready" \in AppStates /\ NoWindow \in Targets
    BY DEF AppStates, Targets
  <2>3. home \in [Segments -> Targets] /\ phase1 \in [active : BOOLEAN, text : Seq(Segments)]
    BY <2>1, <2>2 DEF Init
  <2>4. heard \in 0 .. MaxSegments
    <3>1. heard = 0 /\ MaxSegments \in Nat
      BY DeferAssumption DEF Init
    <3> QED
      BY <3>1
  <2>5. speaking = FALSE
    BY DEF Init
  <2> QED
    BY <2>2, <2>3, <2>4, <2>5 DEF Init, TakeTypes
<1>3. JobTypes
  BY DEF Init, JobTypes, WorkerPcs, Busy, FlushPcs
<1>4. FinishTypes
  <2>1. <<>> \in Seq(Segments)
    OBVIOUS
  <2> QED
    BY <2>1 DEF Init, FinishTypes, NotFinishing, FinishPcs, ReleasePcs
<1>5. PendingExact
  BY DEF Init, PendingExact, Busy
<1> QED
  BY <1>1, <1>2, <1>3, <1>4, <1>5 DEF Ground, Types

LEMMA GroundUser ==
  ASSUME Ground, User, UNCHANGED misdeleted
  PROVE  Ground'
<1> USE DeferAssumption DEF Ground, Types
<1>1. CASE MoveFocus \/ ShowSettings
  <2>1. FieldTypes'
    BY <1>1 DEF MoveFocus, ShowSettings, FieldTypes, fieldVars, Windows, Targets
  <2>2. UNCHANGED <<takeVars, controllerVars, pipelineVars, buffer, flush, rewriteVars>>
    BY <1>1 DEF MoveFocus, ShowSettings
  <2> QED
    BY <2>1, <2>2 DEF TakeTypes, JobTypes, FinishTypes, PendingExact, takeVars,
       controllerVars, pipelineVars, rewriteVars
<1>2. CASE PressKey \/ ShowListening \/ EndTake
  <2>1. state' \in AppStates /\ ptt' \in BOOLEAN
        /\ capture' \in {"planned", "listening", "releasing"}
    BY <1>2, StateOperators DEF PressKey, ShowListening, EndTake, TakeTypes
  <2>2. UNCHANGED <<mode, userVars, fieldVars, begun, speaking, heard, home, spot,
                    pipelineVars, buffer, flush, rewriteVars, typed, failures>>
    BY <1>2 DEF PressKey, ShowListening, EndTake
  <2> QED
    BY <2>1, <2>2 DEF FieldTypes, TakeTypes, JobTypes, FinishTypes, PendingExact, userVars,
       fieldVars, pipelineVars, rewriteVars
<1>3. CASE OpenTake
  <2>1. target' \in Targets /\ spot' \in Targets /\ watch' = "new" /\ begun' = TRUE
    BY <1>3 DEF OpenTake, BeginSession, Captured, FieldTypes, Targets
  <2>2. phase1' \in [active : BOOLEAN, text : Seq(Segments)]
    BY <1>3 DEF OpenTake, TakeTypes
  <2>3. UNCHANGED <<mode, userVars, controllerVars, speaking, heard, home, pipelineVars,
                    buffer, flush, finish, release, typed, failures>> /\ capture' = "open"
    BY <1>3 DEF OpenTake
  <2> QED
    BY <2>1, <2>2, <2>3 DEF FieldTypes, TakeTypes, JobTypes, FinishTypes, PendingExact,
       userVars, controllerVars, pipelineVars
<1>4. CASE SpeechStarted
  <2>1. target' \in Targets /\ spot' \in Targets
        /\ watch' \in {"off", "new", "match", "away"} /\ begun' \in BOOLEAN
        /\ buffer' \in Seq(Segments)
    <3>1. \/ UNCHANGED <<begun, target, watch, spot, buffer>>
          \/ BeginSession /\ UNCHANGED buffer
          \/ CaptureTarget /\ watch' = "new" /\ spot' = target' /\ UNCHANGED begun
      BY <1>4 DEF SpeechStarted
    <3>2. CASE UNCHANGED <<begun, target, watch, spot, buffer>>
      BY <3>2 DEF FieldTypes, TakeTypes, JobTypes
    <3>3. CASE BeginSession /\ UNCHANGED buffer
      BY <3>3 DEF FieldTypes, TakeTypes, JobTypes, BeginSession, Captured, Targets
    <3>4. CASE CaptureTarget /\ watch' = "new" /\ spot' = target' /\ UNCHANGED begun
      <4>1. <<>> \in Seq(Segments)
        OBVIOUS
      <4> QED
        BY <3>4, <4>1 DEF FieldTypes, TakeTypes, JobTypes, CaptureTarget, Captured, Targets
    <3> QED
      BY <3>1, <3>2, <3>3, <3>4
  <2>2. state' \in AppStates /\ speaking' = TRUE /\ heard < MaxSegments
    BY <1>4, StateOperators DEF SpeechStarted, TakeTypes
  <2>3. UNCHANGED <<mode, userVars, ptt, capture, heard, home, pipelineVars, flush,
                    rewriteVars, typed, failures>>
    BY <1>4 DEF SpeechStarted
  <2> QED
    BY <2>1, <2>2, <2>3 DEF FieldTypes, TakeTypes, JobTypes, FinishTypes, PendingExact,
       userVars, pipelineVars, rewriteVars
<1>5. CASE SpeechEnded \/ TakeQueued
  <2>1. /\ speaking /\ speaking' = FALSE /\ Enqueued /\ capture' \in {capture, "queued"}
        /\ UNCHANGED <<mode, userVars, fieldVars, controllerVars, begun, spot, worker,
                       dropped, buffer, flush, rewriteVars, typed, failures>>
    BY <1>5 DEF SpeechEnded, TakeQueued
  <2>2. heard + 1 \in Segments /\ heard' \in 0 .. MaxSegments /\ heard' = heard + 1
    BY <2>1 DEF Enqueued, TakeTypes, Segments
  <2>3. queue' \in Seq(Segments) /\ Len(queue') = Len(queue) + 1 /\ pending' = pending + 1
    BY <2>1, <2>2 DEF Enqueued, JobTypes
  <2>4. home' \in [Segments -> Targets]
    BY <2>1, <2>2 DEF Enqueued, TakeTypes
  <2>5. FieldTypes' /\ FinishTypes'
    BY <2>1 DEF FieldTypes, FinishTypes, userVars, fieldVars, rewriteVars
  <2>6. TakeTypes'
    BY <2>1, <2>2, <2>4 DEF TakeTypes, controllerVars, rewriteVars
  <2>7. JobTypes' /\ PendingExact'
    <3>1. pending' \in Nat
      BY <2>3 DEF JobTypes
    <3> QED
      BY <2>1, <2>3, <3>1 DEF JobTypes, PendingExact
  <2> QED
    BY <2>5, <2>6, <2>7
<1>6. CASE TakeSilent
  <2>1. state' \in AppStates /\ capture' = "queued"
    BY <1>6, StateOperators DEF TakeSilent, TakeTypes
  <2>2. UNCHANGED <<mode, userVars, fieldVars, ptt, begun, speaking, heard, home, spot,
                    pipelineVars, buffer, flush, rewriteVars, typed, failures>>
    BY <1>6 DEF TakeSilent
  <2> QED
    BY <2>1, <2>2 DEF FieldTypes, TakeTypes, JobTypes, FinishTypes, PendingExact, userVars,
       fieldVars, pipelineVars, rewriteVars
<1>7. CASE Released
  <2>1. release' \in {"look", "idle"} /\ capture' = "closed"
    BY <1>7 DEF Released
  <2>2. UNCHANGED <<mode, userVars, fieldVars, controllerVars, begun, speaking, heard,
                    home, spot, pipelineVars, buffer, flush, phase1, finish, typed, failures>>
    BY <1>7 DEF Released
  <2> QED
    BY <2>1, <2>2 DEF FieldTypes, TakeTypes, JobTypes, FinishTypes, PendingExact, userVars,
       fieldVars, controllerVars, pipelineVars, ReleasePcs
<1> QED
  BY <1>1, <1>2, <1>3, <1>4, <1>5, <1>6, <1>7 DEF User

(* What a step of the worker makes of the job in hand. *)
LEMMA WorkerGoesOn ==
  ASSUME JobTypes, NEW pc \in WorkerPcs, WorkerGoes(pc), pc \in Busy => worker.pc \in Busy
  PROVE  /\ worker'.pc = pc /\ worker'.seg = worker.seg
         /\ worker' \in [pc : WorkerPcs, seg : Segments \cup {0}]
         /\ pc \in Busy => worker'.seg \in Segments
BY DEF WorkerGoes, JobTypes

LEMMA GroundWorker ==
  ASSUME Ground, Worker, UNCHANGED misdeleted
  PROVE  Ground'
<1> USE DeferAssumption DEF Ground, Types
<1>1. CASE TakeJob
  <2>1. /\ worker.pc = "idle" /\ queue # <<>> /\ queue' = Tail(queue)
        /\ worker' = [pc |-> "work", seg |-> Head(queue)] /\ state' = Announce(state)
        /\ UNCHANGED <<userVars, fieldVars, pending, dropped, buffer, phase1, typed, failures,
                       mode, ptt, takeVars, flush, finish, release>>
    BY <1>1 DEF TakeJob, WorkerAt, KeepForWorker
  <2>2. /\ queue' \in Seq(Segments) /\ Len(queue') + 1 = Len(queue) /\ Head(queue) \in Segments
    BY <2>1 DEF JobTypes
  <2>3. JobTypes' /\ PendingExact'
    BY <2>1, <2>2 DEF JobTypes, PendingExact, Busy, WorkerPcs
  <2>4. FieldTypes' /\ FinishTypes'
    BY <2>1 DEF FieldTypes, FinishTypes, userVars, fieldVars
  <2>5. TakeTypes'
    BY <2>1, StateOperators DEF TakeTypes, takeVars
  <2> QED
    BY <2>3, <2>4, <2>5
<1>2. CASE NoText \/ TextReady \/ Decide \/ FinishJob \/ RecoverJob \/ SettleFailed
  <2>1. UNCHANGED <<userVars, fieldVars, queue, buffer, phase1, typed, failures,
                    mode, ptt, takeVars, flush, finish, release>>
    BY <1>2 DEF NoText, TextReady, Decide, FinishJob, RecoverJob, SettleFailed, KeepForWorker
  <2>2. state' \in AppStates
    BY <1>2, StateOperators DEF NoText, TextReady, Decide, FinishJob, RecoverJob, SettleFailed,
       TakeTypes
  <2>3. JobTypes' /\ PendingExact'
    <3>1. CASE NoText \/ TextReady \/ Decide
      <4>1. PICK pc \in {"finish", "decide", "append", "type"} : WorkerGoes(pc)
        BY <3>1 DEF NoText, TextReady, Decide
      <4>2. worker.pc \in Busy /\ pending' = pending
        BY <3>1 DEF NoText, TextReady, Decide, WorkerAt, Busy
      <4>3. worker' \in [pc : WorkerPcs, seg : Segments \cup {0}]
            /\ worker'.pc \in Busy /\ worker'.seg \in Segments
        BY <4>1, <4>2, WorkerGoesOn DEF Busy, WorkerPcs
      <4>4. dropped' \subseteq Segments
        BY <3>1, <4>2 DEF NoText, TextReady, Decide, JobTypes
      <4> QED
        BY <2>1, <4>2, <4>3, <4>4 DEF JobTypes, PendingExact
    <3>2. CASE FinishJob \/ SettleFailed
      <4>1. PICK pc \in {"recover", "idle"} : WorkerGoes(pc)
        BY <3>2 DEF FinishJob, SettleFailed
      <4>2. worker.pc \in Busy /\ pending' = pending - 1 /\ dropped' = dropped
        BY <3>2 DEF FinishJob, SettleFailed, WorkerAt, Busy
      <4>3. worker' \in [pc : WorkerPcs, seg : Segments \cup {0}] /\ worker'.pc \notin Busy
        BY <4>1, WorkerGoesOn DEF Busy, WorkerPcs
      <4>4. pending' = Len(queue') /\ pending' \in Nat
        BY <2>1, <4>2 DEF JobTypes, PendingExact
      <4> QED
        BY <2>1, <4>2, <4>3, <4>4 DEF JobTypes, PendingExact
    <3>3. CASE RecoverJob
      <4>1. worker.pc = "recover" /\ WorkerGoes("look") /\ UNCHANGED <<pending, dropped>>
        BY <3>3 DEF RecoverJob, WorkerAt
      <4>2. worker' \in [pc : WorkerPcs, seg : Segments \cup {0}] /\ worker'.pc = "look"
        BY <4>1, WorkerGoesOn DEF Busy, WorkerPcs
      <4> QED
        BY <2>1, <4>1, <4>2 DEF JobTypes, PendingExact, Busy
    <3> QED
      BY <1>2, <3>1, <3>2, <3>3
  <2>4. FieldTypes' /\ FinishTypes' /\ TakeTypes'
    BY <2>1, <2>2 DEF FieldTypes, FinishTypes, TakeTypes, takeVars, userVars, fieldVars
  <2> QED
    BY <2>3, <2>4
<1>3. CASE AppendDeferred \/ TypeText \/ TypeFails
  <2>1. /\ worker.pc \in Busy /\ worker.seg \in Segments
        /\ UNCHANGED <<queue, pending, mode, ptt, takeVars, flush, finish, release>>
    BY <1>3 DEF AppendDeferred, TypeText, TypeFails, WorkerAt, KeepForWorker, JobTypes, Busy
  <2>2. worker' \in [pc : WorkerPcs, seg : Segments \cup {0}] /\ worker'.pc \in Busy
        /\ worker'.seg \in Segments
    <3>1. PICK pc \in {"finish", "failed"} : WorkerGoes(pc)
      BY <1>3 DEF AppendDeferred, TypeText, TypeFails
    <3> QED
      BY <2>1, <3>1, WorkerGoesOn DEF Busy, WorkerPcs
  <2>3. dropped' \subseteq Segments /\ buffer' \in Seq(Segments)
    <3>1. CASE AppendDeferred
      BY <2>1, <3>1 DEF AppendDeferred, JobTypes, pipelineVars
    <3>2. CASE TypeText
      BY <2>1, <3>2 DEF TypeText, JobTypes
    <3>3. CASE TypeFails
      BY <2>1, <3>3 DEF TypeFails, JobTypes
    <3> QED
      BY <1>3, <3>1, <3>2, <3>3
  <2>4. state' \in AppStates /\ phase1' \in [active : BOOLEAN, text : Seq(Segments)]
    BY <1>3, <2>1, StateOperators, RecordedType DEF AppendDeferred, TypeText, TypeFails, TakeTypes
  <2>5. FieldTypes'
    <3>1. CASE AppendDeferred
      BY <2>1, <3>1 DEF AppendDeferred, FieldTypes, userVars, fieldVars
    <3>2. CASE TypeText
      <4>1. Append(typed[focus'], worker.seg) \in Seq(Segments) /\ focus' \in Windows
        BY <2>1, <3>2, PrepareTypes DEF TypeText, FieldTypes
      <4> QED
        BY <2>1, <3>2, <4>1, PrepareTypes DEF TypeText, FieldTypes
    <3>3. CASE TypeFails
      BY <2>1, <3>3, PrepareTypes, FailTypes DEF TypeFails, FieldTypes
    <3> QED
      BY <1>3, <3>1, <3>2, <3>3
  <2>6. TakeTypes' /\ FinishTypes'
    BY <2>1, <2>4 DEF TakeTypes, FinishTypes, takeVars
  <2>7. JobTypes' /\ PendingExact'
    BY <2>1, <2>2, <2>3 DEF JobTypes, PendingExact
  <2> QED
    BY <2>5, <2>6, <2>7
<1>4. CASE EndJob
  <2>1. /\ worker.pc = "end" /\ WorkerGoes("idle") /\ MaybeStopWatch(state)
        /\ UNCHANGED <<userVars, state, queue, pending, dropped, buffer, phase1, typed, failures,
                       mode, ptt, takeVars, flush, finish, release>>
    BY <1>4 DEF EndJob, WorkerAt, KeepForWorker
  <2>2. worker' \in [pc : WorkerPcs, seg : Segments \cup {0}] /\ worker'.pc = "idle"
    BY <2>1, WorkerGoesOn DEF Busy, WorkerPcs
  <2>3. JobTypes' /\ PendingExact'
    BY <2>1, <2>2 DEF JobTypes, PendingExact, Busy
  <2>4. FieldTypes'
    BY <2>1, StopTypes DEF FieldTypes, userVars
  <2>5. TakeTypes' /\ FinishTypes'
    BY <2>1 DEF TakeTypes, FinishTypes, takeVars
  <2> QED
    BY <2>3, <2>4, <2>5
<1> QED
  BY <1>1, <1>2, <1>3, <1>4 DEF Worker

LEMMA GroundWatch ==
  ASSUME Ground, Watch, UNCHANGED misdeleted
  PROVE  Ground'
<1> USE DEF Ground, Types
<1>1. UNCHANGED <<mode, userVars, target, controllerVars, takeVars, pipelineVars, buffer,
                  rewriteVars, typed, failures>>
  BY DEF Watch, WatchStarts, FieldLost, FieldRegained, KeepForWatch
<1>2. watch' \in {"match", "away"}
  BY DEF Watch, WatchStarts, FieldLost, FieldRegained, Seen
<1>3. flush' \in [Flushes -> [pc : FlushPcs, text : Seq(Segments)]]
  BY DEF Watch, WatchStarts, FieldLost, FieldRegained, JobTypes, FlushPcs
<1> QED
  BY <1>1, <1>2, <1>3 DEF FieldTypes, TakeTypes, JobTypes, FinishTypes, PendingExact, userVars,
     controllerVars, takeVars, pipelineVars, rewriteVars

LEMMA FlushGoesOn ==
  ASSUME flush \in [Flushes -> [pc : FlushPcs, text : Seq(Segments)]],
         NEW f \in Flushes, NEW pc \in FlushPcs, flush' = [flush EXCEPT ![f].pc = pc]
  PROVE  /\ flush' \in [Flushes -> [pc : FlushPcs, text : Seq(Segments)]]
         /\ flush'[f].pc = pc /\ \A g \in Flushes : flush'[g].text = flush[g].text
         /\ \A g \in Flushes \ {f} : flush'[g] = flush[g]
<1> DEFINE r == [flush[f] EXCEPT !.pc = pc]
<1>1. r \in [pc : FlushPcs, text : Seq(Segments)] /\ r.pc = pc /\ r.text = flush[f].text
  OBVIOUS
<1>2. flush' = [flush EXCEPT ![f] = r]
  OBVIOUS
<1> HIDE DEF r
<1> QED
  BY <1>1, <1>2

LEMMA GroundFlush ==
  ASSUME Ground, NEW f \in Flushes, Flush(f), UNCHANGED misdeleted
  PROVE  Ground'
<1> USE DEF Ground, Types
<1>0. <<>> \in Seq(Segments)
  OBVIOUS
<1>1. UNCHANGED <<mode, ptt, takeVars, pipelineVars, rewriteVars>>
  BY DEF Flush, FlushHasNothing, FlushTooLate, FlushSnapshot, FlushTypes, FlushFails,
         FlushConsumes, FlushEnds, KeepForFlush
<1>2. flush' \in [Flushes -> [pc : FlushPcs, text : Seq(Segments)]]
  <2>1. flush \in [Flushes -> [pc : FlushPcs, text : Seq(Segments)]] /\ buffer \in Seq(Segments)
    BY DEF JobTypes
  <2>2. \/ \E pc \in FlushPcs : flush' = [flush EXCEPT ![f].pc = pc]
        \/ \E t \in Seq(Segments), pc \in FlushPcs : flush' = [flush EXCEPT ![f] = [pc |-> pc, text |-> t]]
    BY <1>0, <2>1 DEF Flush, FlushHasNothing, FlushTooLate, FlushSnapshot, FlushTypes, FlushFails,
         FlushConsumes, FlushEnds, FlushIdle, FlushGoes, FlushPcs
  <2>3. CASE \E pc \in FlushPcs : flush' = [flush EXCEPT ![f].pc = pc]
    BY <2>1, <2>3, FlushGoesOn
  <2>4. CASE \E t \in Seq(Segments), pc \in FlushPcs :
               flush' = [flush EXCEPT ![f] = [pc |-> pc, text |-> t]]
    BY <2>1, <2>4
  <2> QED
    BY <2>2, <2>3, <2>4
<1>3. buffer' \in Seq(Segments)
  <2>1. CASE FlushConsumes(f)
    <3>1. flush[f].text \in Seq(Segments) /\ buffer \in Seq(Segments)
      BY DEF JobTypes
    <3>2. buffer' = buffer \/ buffer' = SubSeq(buffer, Len(flush[f].text) + 1, Len(buffer))
      BY <2>1 DEF FlushConsumes
    <3> QED
      BY <3>1, <3>2, DropType, LenProperties
  <2>2. CASE ~FlushConsumes(f)
    <3>1. buffer' = buffer
      BY <2>2 DEF Flush, FlushHasNothing, FlushTooLate, FlushSnapshot, FlushTypes, FlushFails, FlushEnds
    <3> QED
      BY <3>1 DEF JobTypes
  <2> QED
    BY <2>1, <2>2
<1>4. state' \in AppStates
  <2>1. \/ state' = state \/ state' = ForInjection(state)
        \/ state' = RecoverAfterSegment(state, ptt)
    BY DEF Flush, FlushHasNothing, FlushTooLate, FlushSnapshot, FlushTypes, FlushFails,
         FlushConsumes, FlushEnds
  <2> QED
    BY <2>1, StateOperators DEF TakeTypes
<1>5. FieldTypes'
  <2>1. CASE FlushTypes(f)
    <3>1. typed[focus'] \o flush[f].text \in Seq(Segments) /\ focus' \in Windows
      BY <2>1, PrepareTypes DEF FlushTypes, FieldTypes, JobTypes
    <3> QED
      BY <1>1, <2>1, <3>1, PrepareTypes DEF FlushTypes, FieldTypes
  <2>2. CASE FlushFails(f)
    BY <1>1, <2>2, PrepareTypes, FailTypes DEF FlushFails, FieldTypes
  <2>3. CASE FlushHasNothing(f) \/ FlushEnds(f)
    BY <1>1, <2>3, StopTypes DEF FlushHasNothing, FlushEnds, FieldTypes, userVars
  <2>4. CASE FlushTooLate(f) \/ FlushSnapshot(f) \/ FlushConsumes(f)
    BY <1>1, <2>4 DEF FlushTooLate, FlushSnapshot, FlushConsumes, FieldTypes, userVars, fieldVars
  <2> QED
    BY <2>1, <2>2, <2>3, <2>4 DEF Flush
<1> QED
  BY <1>1, <1>2, <1>3, <1>4, <1>5 DEF TakeTypes, JobTypes, FinishTypes, PendingExact, takeVars,
     pipelineVars, rewriteVars

-----------------------------------------------------------------------------
(* The rewrite: the one who began it waits at "hold" until it ends.        *)
FinishInv ==
  /\ finish.by = "none" <=> finish.pc = "none"
  /\ finish.by = "none" => finish = NotFinishing
  /\ \A c \in Finishers : At(c, "hold") <=> finish.by = c
  /\ finish.by # "none" => mode.ai
  /\ phase1.active \/ phase1.text # <<>> => mode.ai
  /\ finish.pc = "delete" => finish.deleted = FALSE
  /\ finish.recover = TRUE => finish.pc = "restore"

LEMMA FinisherNames ==
  /\ "worker" \in Finishers /\ "release" \in Finishers /\ Flushes \subseteq Finishers
  /\ "worker" \notin Flushes /\ "release" \notin Flushes /\ "none" \notin Flushes
  /\ "none" \notin Finishers
BY DeferAssumption DEF Finishers

(* Where a finisher is. *)
LEMMA AtIs ==
  ASSUME NEW pc
  PROVE  /\ At("worker", pc) <=> worker.pc = pc
         /\ At("release", pc) <=> release = pc
         /\ \A f \in Flushes : At(f, pc) <=> flush[f].pc = pc
BY FinisherNames DEF At

LEMMA AtIsNext ==
  ASSUME NEW pc
  PROVE  /\ At("worker", pc)' <=> worker'.pc = pc
         /\ At("release", pc)' <=> release' = pc
         /\ \A f \in Flushes : At(f, pc)' <=> flush'[f].pc = pc
BY FinisherNames DEF At

(* A finisher goes on, and no other moves. *)
LEMMA GoesOn ==
  ASSUME JobTypes, FinishTypes, NEW c \in Finishers, NEW pc \in {"claim", "hold", "end"},
         Goes(c, pc)
  PROVE  /\ worker' \in [pc : WorkerPcs, seg : Segments \cup {0}]
         /\ worker'.seg = worker.seg
         /\ worker'.pc = IF c = "worker" THEN pc ELSE worker.pc
         /\ release' = IF c = "release" THEN pc ELSE release
         /\ release' \in ReleasePcs
         /\ flush' \in [Flushes -> [pc : FlushPcs, text : Seq(Segments)]]
         /\ \A f \in Flushes : /\ flush'[f].text = flush[f].text
                               /\ flush'[f].pc = IF c = f THEN pc ELSE flush[f].pc
         /\ \A d \in Finishers, p \in {"look", "claim", "hold", "end"} :
              At(d, p)' <=> IF d = c THEN p = pc ELSE At(d, p)
<1>1. /\ worker' \in [pc : WorkerPcs, seg : Segments \cup {0}]
      /\ worker'.seg = worker.seg
      /\ worker'.pc = IF c = "worker" THEN pc ELSE worker.pc
  <2>1. CASE c = "worker"
    <3>1. worker' = [worker EXCEPT !.pc = pc]
      BY <2>1 DEF Goes
    <3> QED
      BY <2>1, <3>1 DEF JobTypes, WorkerPcs
  <2>2. CASE c # "worker"
    BY <2>2 DEF Goes, JobTypes
  <2> QED
    BY <2>1, <2>2
<1>2. release' = (IF c = "release" THEN pc ELSE release) /\ release' \in ReleasePcs
  BY DEF Goes, FinishTypes, ReleasePcs
<1>3. /\ flush' \in [Flushes -> [pc : FlushPcs, text : Seq(Segments)]]
      /\ \A f \in Flushes : /\ flush'[f].text = flush[f].text
                            /\ flush'[f].pc = IF c = f THEN pc ELSE flush[f].pc
  <2>1. CASE c \in Flushes
    <3>1. flush' = [flush EXCEPT ![c].pc = pc] /\ pc \in FlushPcs
      BY <2>1 DEF Goes, FlushPcs
    <3>2. flush \in [Flushes -> [pc : FlushPcs, text : Seq(Segments)]]
      BY DEF JobTypes
    <3> QED
      BY <2>1, <3>1, <3>2, FlushGoesOn
  <2>2. CASE c \notin Flushes
    BY <2>2 DEF Goes, JobTypes
  <2> QED
    BY <2>1, <2>2
<1>4. ASSUME NEW d \in Finishers, NEW p \in {"look", "claim", "hold", "end"}
      PROVE  At(d, p)' <=> IF d = c THEN p = pc ELSE At(d, p)
  <2>1. CASE d = "worker"
    BY <1>1, <2>1, AtIs, AtIsNext
  <2>2. CASE d = "release"
    BY <1>2, <2>2, AtIs, AtIsNext
  <2>3. CASE d \in Flushes
    <3>1. (At(d, p) <=> flush[d].pc = p) /\ (At(d, p)' <=> flush'[d].pc = p)
      BY <2>3, AtIs, AtIsNext
    <3>2. flush'[d].pc = IF c = d THEN pc ELSE flush[d].pc
      BY <1>3, <2>3
    <3> QED
      BY <3>1, <3>2
  <2> QED
    BY <2>1, <2>2, <2>3 DEF Finishers
<1> QED
  BY <1>1, <1>2, <1>3, <1>4

LEMMA FinishTypesStep ==
  ASSUME Ground, FinishInv, Finish
  PROVE  Ground'
<1> USE DeferAssumption DEF Ground, Types
<1>0. <<>> \in Seq(Segments)
  OBVIOUS
<1>1. UNCHANGED <<mode, ptt, takeVars, queue, pending, dropped, buffer>>
  BY DEF Finish, FinishLooks, FinishLeaves, FinishNoModel, FinishClaims, DeleteText,
         DeleteFails, RewriteFails, RewriteSkipped, RewriteReady, InsertText, InsertFails,
         RestoreText, RestoreTextFails, EndRelease, KeepForFinish
<1>2. \/ \E c \in Finishers, pc \in {"claim", "hold", "end"} :
           Goes(c, pc) /\ \E from \in {"look", "claim", "hold"} : At(c, from)
      \/ UNCHANGED <<worker, flush, release>>
      \/ UNCHANGED <<worker, flush>> /\ release' = "idle"
  <2>1. CASE \E c \in Finishers : FinishLooks(c) \/ FinishLeaves(c) \/ FinishNoModel(c)
                                  \/ FinishClaims(c)
    BY <2>1 DEF FinishLooks, FinishLeaves, FinishNoModel, FinishClaims, CanClaim
  <2>2. CASE DeleteText \/ DeleteFails \/ RewriteFails \/ RewriteSkipped \/ RewriteReady
             \/ InsertFails
    BY <2>2 DEF DeleteText, DeleteFails, RewriteFails, RewriteSkipped, RewriteReady,
       InsertFails, FinishStays
  <2>3. CASE InsertText \/ RestoreText \/ RestoreTextFails
    <3>1. Goes(finish.by, "end") /\ finish.pc # "none"
      BY <2>3 DEF InsertText, RestoreText, RestoreTextFails, FinishEnds, FinishAt
    <3>2. finish.by \in Finishers /\ At(finish.by, "hold")
      BY <3>1 DEF FinishInv, FinishTypes
    <3> QED
      BY <3>1, <3>2
  <2>4. CASE EndRelease
    BY <2>4 DEF EndRelease
  <2> QED
    BY <2>1, <2>2, <2>3, <2>4 DEF Finish
<1>3. /\ worker' \in [pc : WorkerPcs, seg : Segments \cup {0}]
      /\ worker'.pc \in Busy <=> worker.pc \in Busy
      /\ worker'.pc \in Busy => worker'.seg \in Segments
      /\ flush' \in [Flushes -> [pc : FlushPcs, text : Seq(Segments)]]
      /\ release' \in ReleasePcs
  <2>1. CASE UNCHANGED <<worker, flush>> /\ release' \in {release, "idle"}
    BY <2>1 DEF JobTypes, FinishTypes, ReleasePcs
  <2>2. ASSUME NEW c \in Finishers, NEW pc \in {"claim", "hold", "end"}, Goes(c, pc),
               NEW from \in {"look", "claim", "hold"}, At(c, from)
        PROVE  /\ worker' \in [pc : WorkerPcs, seg : Segments \cup {0}]
               /\ worker'.pc \in Busy <=> worker.pc \in Busy
               /\ worker'.pc \in Busy => worker'.seg \in Segments
               /\ flush' \in [Flushes -> [pc : FlushPcs, text : Seq(Segments)]]
               /\ release' \in ReleasePcs
    <3>1. /\ worker' \in [pc : WorkerPcs, seg : Segments \cup {0}]
          /\ worker'.seg = worker.seg
          /\ worker'.pc = IF c = "worker" THEN pc ELSE worker.pc
          /\ flush' \in [Flushes -> [pc : FlushPcs, text : Seq(Segments)]]
          /\ release' \in ReleasePcs
      BY <2>2, GoesOn
    <3>2. c = "worker" => worker.pc = from
      BY <2>2, AtIs
    <3> QED
      BY <3>1, <3>2 DEF JobTypes, Busy
  <2> QED
    BY <1>2, <2>1, <2>2
<1>4. JobTypes' /\ PendingExact'
  BY <1>1, <1>3 DEF JobTypes, PendingExact
<1>5. state' \in AppStates
  <2>1. \/ state' = state \/ state' = RecoverAfterSegment(state, ptt)
        \/ state' = Transition(state, "Processing") \/ state' = Transition(state, "Injecting")
    BY DEF Finish, FinishLooks, FinishLeaves, FinishNoModel, FinishClaims, DeleteText,
         DeleteFails, RewriteFails, RewriteSkipped, RewriteReady, InsertText, InsertFails,
         RestoreText, RestoreTextFails, EndRelease, FinishEnds
  <2>2. state \in AppStates /\ ptt \in BOOLEAN
    BY DEF TakeTypes
  <2>3. /\ RecoverAfterSegment(state, ptt) \in AppStates
        /\ Transition(state, "Processing") \in AppStates
        /\ Transition(state, "Injecting") \in AppStates
    BY <2>2, StateOperators
  <2> QED
    BY <2>1, <2>2, <2>3
<1>6. phase1' \in [active : BOOLEAN, text : Seq(Segments)]
  <2>1. phase1' = phase1 \/ phase1' = [active |-> FALSE, text |-> <<>>]
    BY DEF Finish, FinishLooks, FinishLeaves, FinishNoModel, FinishClaims, DeleteText,
         DeleteFails, RewriteFails, RewriteSkipped, RewriteReady, InsertText, InsertFails,
         RestoreText, RestoreTextFails, EndRelease
  <2>2. [active |-> FALSE, text |-> <<>>] \in [active : BOOLEAN, text : Seq(Segments)]
    BY <1>0
  <2>3. phase1 \in [active : BOOLEAN, text : Seq(Segments)]
    BY DEF TakeTypes
  <2> QED
    BY <2>1, <2>2, <2>3
<1>7. TakeTypes'
  BY <1>1, <1>5, <1>6 DEF TakeTypes, takeVars
<1>8. FieldTypes' /\ misdeleted' \in BOOLEAN
  <2>1. CASE \/ \E c \in Finishers : FinishLooks(c) \/ FinishLeaves(c) \/ FinishClaims(c)
             \/ RewriteSkipped \/ RewriteReady
    <3>1. UNCHANGED <<mode, userVars, fieldVars, typed, misdeleted, failures>>
      BY <1>1, <2>1 DEF FinishLooks, FinishLeaves, FinishClaims, RewriteSkipped, RewriteReady,
         KeepFields
    <3> QED
      BY <3>1 DEF FieldTypes, FinishTypes, userVars, fieldVars
  <2>2. CASE (\E c \in Finishers : FinishNoModel(c)) \/ RewriteFails
    <3>1. UNCHANGED <<mode, userVars, fieldVars, typed, misdeleted>> /\ Fails
      BY <1>1, <2>2 DEF FinishNoModel, RewriteFails, KeepFields
    <3> QED
      BY <3>1, FailTypes DEF FieldTypes, FinishTypes, userVars, fieldVars
  <2>3. CASE DeleteFails \/ InsertFails \/ RestoreTextFails
    <3>1. UNCHANGED <<mode, typed, misdeleted>> /\ Fails /\ Prepare
      BY <1>1, <2>3 DEF DeleteFails, InsertFails, RestoreTextFails
    <3> QED
      BY <3>1, FailTypes, PrepareTypes DEF FieldTypes, FinishTypes
  <2>4. CASE EndRelease
    <3>1. UNCHANGED <<mode, userVars, typed, misdeleted, failures>> /\ MaybeStopWatch(state)
      BY <1>1, <2>4 DEF EndRelease
    <3> QED
      BY <3>1, StopTypes DEF FieldTypes, FinishTypes, userVars
  <2>5. CASE RestoreText
    <3>1. UNCHANGED <<mode, misdeleted, failures>>
      BY <1>1, <2>5 DEF RestoreText
    <3>2. CASE finish.deleted
      <4>1. Prepare /\ typed' = [typed EXCEPT ![focus'] = @ \o finish.text]
        BY <2>5, <3>2 DEF RestoreText
      <4>2. typed[focus'] \o finish.text \in Seq(Segments)
        BY <4>1, PrepareTypes DEF FieldTypes, FinishTypes
      <4> QED
        BY <3>1, <4>1, <4>2, PrepareTypes DEF FieldTypes, FinishTypes
    <3>3. CASE ~finish.deleted
      BY <2>5, <3>1, <3>3 DEF RestoreText, FieldTypes, FinishTypes, userVars, fieldVars
    <3> QED
      BY <3>2, <3>3
  <2>6. CASE DeleteText \/ InsertText
    <3>1. UNCHANGED <<mode, failures>> /\ Prepare /\ focus' \in Windows
      BY <1>1, <2>6, PrepareTypes DEF DeleteText, InsertText
    <3>2. typed[focus'] \in Seq(Segments) /\ finish.text \in Seq(Segments)
      BY <3>1 DEF FieldTypes, FinishTypes
    <3>3. Deleted(focus') \in Seq(Segments)
      BY <3>2, DeletedType
    <3>4. typed' \in [Windows -> Seq(Segments)]
      <4>1. PICK t \in Seq(Segments) : typed' = [typed EXCEPT ![focus'] = t]
        <5>1. CASE DeleteText
          BY <3>3, <5>1 DEF DeleteText
        <5>2. CASE InsertText
          <6>1. (IF finish.deleted THEN typed[focus'] ELSE Deleted(focus')) \o finish.text
                \in Seq(Segments)
            BY <3>2, <3>3
          <6> QED
            BY <5>2, <6>1 DEF InsertText
        <5> QED
          BY <2>6, <5>1, <5>2
      <4> QED
        BY <4>1, <3>1 DEF FieldTypes
    <3>5. misdeleted' \in BOOLEAN
      BY <2>6 DEF DeleteText, InsertText
    <3> QED
      BY <3>1, <3>4, <3>5, PrepareTypes DEF FieldTypes
  <2> QED
    BY <2>1, <2>2, <2>3, <2>4, <2>5, <2>6 DEF Finish
<1>9. finish' \in [by : Finishers \cup {"none"}, pc : FinishPcs, text : Seq(Segments),
                   deleted : BOOLEAN, recover : BOOLEAN]
  <2>1. CASE \E c \in Finishers : FinishClaims(c)
    BY <2>1 DEF FinishClaims, TakeTypes, FinishPcs
  <2>2. CASE InsertText \/ RestoreText \/ RestoreTextFails
    <3>1. finish' = NotFinishing
      BY <2>2 DEF InsertText, RestoreText, RestoreTextFails, FinishEnds
    <3>2. NotFinishing \in [by : Finishers \cup {"none"}, pc : FinishPcs, text : Seq(Segments),
                             deleted : BOOLEAN, recover : BOOLEAN]
      BY <1>0 DEF NotFinishing, FinishPcs
    <3> QED
      BY <3>1, <3>2
  <2>3. CASE \/ \E c \in Finishers : FinishLooks(c) \/ FinishLeaves(c) \/ FinishNoModel(c)
             \/ EndRelease
    BY <2>3 DEF FinishLooks, FinishLeaves, FinishNoModel, EndRelease, FinishTypes
  <2>4. CASE DeleteText
    BY <2>4 DEF DeleteText, FinishTypes, FinishPcs
  <2>5. CASE RewriteFails
    BY <2>5 DEF RewriteFails, FinishTypes, FinishPcs
  <2>6. CASE DeleteFails \/ RewriteSkipped \/ RewriteReady \/ InsertFails
    <3>1. PICK pc \in FinishPcs : finish' = [finish EXCEPT !.pc = pc]
      BY <2>6 DEF DeleteFails, RewriteSkipped, RewriteReady, InsertFails, FinishGoes, FinishPcs
    <3> QED
      BY <3>1 DEF FinishTypes
  <2> QED
    BY <2>1, <2>2, <2>3, <2>4, <2>5, <2>6 DEF Finish
<1>10. FinishTypes'
  BY <1>3, <1>8, <1>9 DEF FinishTypes
<1> QED
  BY <1>4, <1>7, <1>8, <1>10

-----------------------------------------------------------------------------
(* The key is held in a take only, and takes are push-to-talk.             *)
HeldInv ==
  /\ ptt = TRUE => capture \in {"planned", "open", "listening"}
  /\ capture # "closed" => mode.push_to_talk

Base == Ground /\ HeldInv /\ FinishInv

(* Outside of the rewrite nobody begins or ends one. *)
LEMMA HoldsStay ==
  ASSUME Ground, Defer
  PROVE  /\ \A c \in Finishers : At(c, "hold")' <=> At(c, "hold")
         /\ finish' = finish /\ mode' = mode
<1> USE DEF Ground, Types
<1>1. /\ worker'.pc = "hold" <=> worker.pc = "hold"
      /\ release' = "hold" <=> release = "hold"
      /\ \A f \in Flushes : flush'[f].pc = "hold" <=> flush[f].pc = "hold"
      /\ finish' = finish /\ mode' = mode
  <2>1. CASE MoveFocus \/ ShowSettings \/ PressKey \/ OpenTake \/ ShowListening
             \/ EndTake \/ SpeechStarted \/ SpeechEnded \/ TakeQueued \/ TakeSilent
    <3>1. UNCHANGED <<mode, worker, release, flush, finish>>
      BY <2>1 DEF MoveFocus, ShowSettings, PressKey, OpenTake, ShowListening,
             EndTake, SpeechStarted, SpeechEnded, TakeQueued, TakeSilent, pipelineVars,
             rewriteVars
    <3> QED
      BY <3>1
  <2>2. CASE Released
    <3>1. UNCHANGED <<mode, worker, flush, finish>> /\ release = "idle"
          /\ release' \in {"look", "idle"}
      BY <2>2 DEF Released, pipelineVars
    <3> QED
      BY <3>1
  <2>3. CASE Worker
    <3>1. UNCHANGED <<mode, release, flush, finish>>
      BY <2>3 DEF Worker, TakeJob, NoText, TextReady, Decide, AppendDeferred, TypeText,
         TypeFails, SettleFailed, FinishJob, RecoverJob, EndJob, KeepForWorker
    <3>2. worker.pc # "hold" /\ \E pc \in WorkerPcs \ {"hold"}, n \in Segments \cup {0} :
                                   worker' = [pc |-> pc, seg |-> n]
      <4>1. CASE TakeJob
        BY <4>1, HeadTailProperties DEF TakeJob, JobTypes, WorkerAt, WorkerPcs
      <4>2. CASE ~TakeJob
        <5>1. /\ worker.pc # "hold"
              /\ \E pc \in WorkerPcs \ {"hold"} : worker' = [worker EXCEPT !.pc = pc]
          BY <2>3, <4>2 DEF Worker, NoText, TextReady, Decide, AppendDeferred, TypeText,
             TypeFails, SettleFailed, FinishJob, RecoverJob, EndJob, WorkerAt, WorkerGoes,
             WorkerPcs
        <5>2. PICK pc \in WorkerPcs \ {"hold"} : worker' = [worker EXCEPT !.pc = pc]
          BY <5>1
        <5>3. worker' = [pc |-> pc, seg |-> worker.seg] /\ worker.seg \in Segments \cup {0}
          BY <5>2 DEF JobTypes
        <5> QED
          BY <5>1, <5>3
      <4> QED
        BY <4>1, <4>2
    <3> QED
      BY <3>1, <3>2
  <2>4. CASE Watch
    <3>1. UNCHANGED <<mode, worker, release, finish>>
      BY <2>4 DEF Watch, WatchStarts, FieldLost, FieldRegained, KeepForWatch, pipelineVars,
         rewriteVars
    <3>2. flush \in [Flushes -> [pc : FlushPcs, text : Seq(Segments)]]
      BY DEF JobTypes
    <3>3. \/ flush' = flush
          \/ \E f \in Flushes : flush[f].pc = "idle" /\ flush' = [flush EXCEPT ![f].pc = "start"]
      BY <2>4 DEF Watch, WatchStarts, FieldLost, FieldRegained
    <3>4. \A f \in Flushes : flush'[f].pc = "hold" <=> flush[f].pc = "hold"
      <4>1. CASE flush' = flush
        BY <4>1
      <4>2. ASSUME NEW f \in Flushes, flush[f].pc = "idle", flush' = [flush EXCEPT ![f].pc = "start"]
            PROVE  \A g \in Flushes : flush'[g].pc = "hold" <=> flush[g].pc = "hold"
        <5>1. flush'[f].pc = "start" /\ \A g \in Flushes \ {f} : flush'[g] = flush[g]
          BY <3>2, <4>2, FlushGoesOn DEF FlushPcs
        <5> QED
          BY <4>2, <5>1
      <4> QED
        BY <3>3, <4>1, <4>2
    <3> QED
      BY <3>1, <3>4
  <2>5. ASSUME NEW f \in Flushes, Flush(f)
        PROVE  /\ UNCHANGED <<mode, worker, release, finish>>
               /\ \A g \in Flushes : flush'[g].pc = "hold" <=> flush[g].pc = "hold"
    <3>1. UNCHANGED <<mode, worker, release, finish>>
      BY <2>5 DEF Flush, FlushHasNothing, FlushTooLate, FlushSnapshot, FlushTypes, FlushFails,
         FlushConsumes, FlushEnds, KeepForFlush, pipelineVars, rewriteVars
    <3>2. flush \in [Flushes -> [pc : FlushPcs, text : Seq(Segments)]]
      BY DEF JobTypes
    <3>3. flush[f].pc # "hold"
      BY <2>5 DEF Flush, FlushHasNothing, FlushTooLate, FlushSnapshot, FlushTypes, FlushFails,
         FlushConsumes, FlushEnds, FlushAt
    <3>4. flush'[f].pc # "hold" /\ \A g \in Flushes \ {f} : flush'[g] = flush[g]
      <4>1. CASE FlushTypes(f) \/ FlushConsumes(f)
        <5>1. \E pc \in {"consume", "look"} : flush' = [flush EXCEPT ![f].pc = pc]
          BY <4>1 DEF FlushTypes, FlushConsumes, FlushGoes
        <5> QED
          BY <5>1, <3>2, FlushGoesOn DEF FlushPcs
      <4>2. CASE ~(FlushTypes(f) \/ FlushConsumes(f))
        <5>1. \E t : \E pc \in {"idle", "type"} : flush' = [flush EXCEPT ![f] = [pc |-> pc, text |-> t]]
          BY <2>5, <4>2 DEF Flush, FlushHasNothing, FlushTooLate, FlushSnapshot, FlushFails,
             FlushEnds, FlushIdle
        <5> QED
          BY <5>1, <3>2
      <4> QED
        BY <4>1, <4>2
    <3> QED
      BY <3>1, <3>3, <3>4
  <2> QED
    BY <2>1, <2>2, <2>3, <2>4, <2>5 DEF Defer, User
<1>2. ASSUME NEW c \in Finishers
      PROVE  At(c, "hold")' <=> At(c, "hold")
  <2>1. CASE c = "worker"
    BY <1>1, <2>1, AtIs, AtIsNext
  <2>2. CASE c = "release"
    BY <1>1, <2>2, AtIs, AtIsNext
  <2>3. CASE c \in Flushes
    <3>1. (At(c, "hold") <=> flush[c].pc = "hold") /\ (At(c, "hold")' <=> flush'[c].pc = "hold")
      BY <2>3, AtIs, AtIsNext
    <3> QED
      BY <1>1, <2>3, <3>1
  <2> QED
    BY <2>1, <2>2, <2>3 DEF Finishers
<1> QED
  BY <1>1, <1>2

LEMMA FinishInvDefer ==
  ASSUME Ground, FinishInv, Defer
  PROVE  FinishInv'
<1>1. /\ \A c \in Finishers : At(c, "hold")' <=> At(c, "hold")
      /\ finish' = finish /\ mode' = mode
  BY HoldsStay
<1>2. phase1' = phase1 \/ mode.ai
  BY DEF Defer, User, MoveFocus, ShowSettings, PressKey, OpenTake, ShowListening,
         EndTake, SpeechStarted, SpeechEnded, TakeQueued, TakeSilent, Released, rewriteVars,
         Worker, TakeJob, NoText, TextReady, Decide, AppendDeferred, TypeText, TypeFails,
         SettleFailed, FinishJob, RecoverJob, EndJob, Recorded, Watch, WatchStarts, FieldLost,
         FieldRegained, KeepForWatch, Flush, FlushHasNothing, FlushTooLate, FlushSnapshot,
         FlushTypes, FlushFails, FlushConsumes, FlushEnds, KeepForFlush
<1> QED
  BY <1>1, <1>2 DEF FinishInv

LEMMA FinishInvFinish ==
  ASSUME Ground, FinishInv, Finish
  PROVE  FinishInv'
<1> USE DEF Ground, Types
<1>0. mode' = mode
  BY DEF Finish, FinishLooks, FinishLeaves, FinishNoModel, FinishClaims, DeleteText,
         DeleteFails, RewriteFails, RewriteSkipped, RewriteReady, InsertText, InsertFails,
         RestoreText, RestoreTextFails, EndRelease, KeepForFinish
<1>1. phase1' = phase1 \/ (phase1'.active = FALSE /\ phase1'.text = <<>>)
  <2>1. phase1' = phase1 \/ phase1' = [active |-> FALSE, text |-> <<>>]
    BY DEF Finish, FinishLooks, FinishLeaves, FinishNoModel, FinishClaims, DeleteText,
         DeleteFails, RewriteFails, RewriteSkipped, RewriteReady, InsertText, InsertFails,
         RestoreText, RestoreTextFails, EndRelease
  <2> QED
    BY <2>1
<1>2. phase1'.active \/ phase1'.text # <<>> => mode'.ai
  BY <1>0, <1>1 DEF FinishInv
<1>3. ASSUME NEW c \in Finishers, FinishLooks(c) \/ FinishLeaves(c) \/ FinishNoModel(c)
      PROVE  FinishInv'
  <2>1. finish' = finish
    BY <1>3 DEF FinishLooks, FinishLeaves, FinishNoModel
  <2>2. PICK pc \in {"claim", "end"}, from \in {"look", "claim"} : Goes(c, pc) /\ At(c, from)
    BY <1>3 DEF FinishLooks, FinishLeaves, FinishNoModel, CanClaim
  <2>3. \A d \in Finishers : At(d, "hold")' <=> IF d = c THEN "hold" = pc ELSE At(d, "hold")
    BY <2>2, GoesOn
  <2>4. ~At(c, "hold")
    BY <2>2, AtIs DEF Finishers
  <2>5. \A d \in Finishers : At(d, "hold")' <=> At(d, "hold")
    BY <2>2, <2>3, <2>4
  <2> QED
    BY <1>0, <1>2, <2>1, <2>5 DEF FinishInv
<1>4. ASSUME NEW c \in Finishers, FinishClaims(c)
      PROVE  FinishInv'
  <2>1. Goes(c, "hold") /\ At(c, "claim") /\ finish.by = "none" /\ mode.ai
        /\ finish' = [by |-> c, pc |-> "delete", text |-> phase1.text, deleted |-> FALSE,
                      recover |-> FALSE]
    BY <1>4 DEF FinishClaims, CanClaim
  <2>2. \A d \in Finishers : At(d, "hold")' <=> IF d = c THEN "hold" = "hold" ELSE At(d, "hold")
    BY <2>1, GoesOn
  <2>3. \A d \in Finishers : ~At(d, "hold")
    BY <2>1, FinisherNames DEF FinishInv
  <2>4. \A d \in Finishers : At(d, "hold")' <=> finish'.by = d
    BY <2>1, <2>2, <2>3
  <2> QED
    BY <1>0, <1>2, <2>1, <2>4, FinisherNames DEF FinishInv
<1>5. CASE DeleteText \/ DeleteFails \/ RewriteFails \/ RewriteSkipped \/ RewriteReady
           \/ InsertFails
  <2>1. /\ UNCHANGED <<worker, flush, release>>
        /\ finish'.by = finish.by /\ finish'.pc \in {"rewrite", "restore", "insert"}
        /\ finish'.recover = TRUE => finish.recover = TRUE \/ finish'.pc = "restore"
        /\ finish.pc \in {"delete", "rewrite", "insert"}
    BY <1>5 DEF DeleteText, DeleteFails, RewriteFails, RewriteSkipped, RewriteReady,
       InsertFails, FinishStays, FinishGoes, FinishAt, FinishTypes
  <2>2. \A c \in Finishers : At(c, "hold")' <=> At(c, "hold")
    BY <2>1 DEF At
  <2> QED
    BY <1>0, <1>2, <2>1, <2>2 DEF FinishInv
<1>6. CASE InsertText \/ RestoreText \/ RestoreTextFails
  <2>1. Goes(finish.by, "end") /\ finish' = NotFinishing /\ finish.pc # "none"
    BY <1>6 DEF InsertText, RestoreText, RestoreTextFails, FinishEnds, FinishAt
  <2>2. finish.by \in Finishers
    BY <2>1 DEF FinishInv, FinishTypes
  <2>3. \A d \in Finishers :
          At(d, "hold")' <=> IF d = finish.by THEN "hold" = "end" ELSE At(d, "hold")
    BY <2>1, <2>2, GoesOn
  <2>4. \A d \in Finishers : ~At(d, "hold")'
    BY <2>3 DEF FinishInv
  <2> QED
    BY <1>0, <1>2, <2>1, <2>4, FinisherNames DEF FinishInv, NotFinishing
<1>7. CASE EndRelease
  <2>1. UNCHANGED <<worker, flush, finish>> /\ release = "end" /\ release' = "idle"
    BY <1>7 DEF EndRelease
  <2>2. ASSUME NEW c \in Finishers
        PROVE  At(c, "hold")' <=> At(c, "hold")
    BY <2>1 DEF At
  <2> QED
    BY <1>0, <1>2, <2>1, <2>2 DEF FinishInv
<1> QED
  BY <1>3, <1>4, <1>5, <1>6, <1>7 DEF Finish

LEMMA HeldInvStep ==
  ASSUME Ground, HeldInv, Next
  PROVE  HeldInv'
<1>1. CASE Worker \/ Watch \/ (\E f \in Flushes : Flush(f)) \/ Finish
  <2>1. UNCHANGED <<mode, ptt, capture>>
    BY <1>1 DEF Worker, TakeJob, NoText, TextReady, Decide, AppendDeferred, TypeText, TypeFails,
         SettleFailed, FinishJob, RecoverJob, EndJob, KeepForWorker, Watch, WatchStarts,
         FieldLost, FieldRegained, KeepForWatch, Flush, FlushHasNothing, FlushTooLate,
         FlushSnapshot, FlushTypes, FlushFails, FlushConsumes, FlushEnds, KeepForFlush,
         Finish, FinishLooks, FinishLeaves, FinishNoModel, FinishClaims, DeleteText,
         DeleteFails, RewriteFails, RewriteSkipped, RewriteReady, InsertText, InsertFails,
         RestoreText, RestoreTextFails, EndRelease, KeepForFinish, takeVars, controllerVars
  <2> QED
    BY <2>1 DEF HeldInv
<1>2. CASE User
  <2>1. mode' = mode
    BY <1>2 DEF User, MoveFocus, ShowSettings, PressKey, OpenTake, ShowListening,
         EndTake, SpeechStarted, SpeechEnded, TakeQueued, TakeSilent, Released
  <2>2. CASE MoveFocus \/ ShowSettings \/ SpeechStarted \/ SpeechEnded
    <3>1. UNCHANGED <<mode, ptt, capture>>
      BY <2>2 DEF MoveFocus, ShowSettings, SpeechStarted, SpeechEnded, takeVars, controllerVars
    <3> QED
      BY <3>1 DEF HeldInv
  <2>3. CASE PressKey \/ OpenTake \/ ShowListening
    <3>1. capture' \in {"planned", "open", "listening"} /\ mode.push_to_talk
      BY <2>3 DEF PressKey, OpenTake, ShowListening, HeldInv
    <3> QED
      BY <2>1, <3>1 DEF HeldInv
  <2>4. CASE EndTake
    BY <2>1, <2>4 DEF EndTake, HeldInv
  <2>5. CASE TakeQueued \/ TakeSilent \/ Released
    <3>1. ptt' = ptt /\ capture \in {"releasing", "queued"}
      BY <2>5 DEF TakeQueued, TakeSilent, Released, controllerVars
    <3> QED
      BY <2>1, <3>1 DEF HeldInv
  <2> QED
    BY <1>2, <2>2, <2>3, <2>4, <2>5 DEF User
<1> QED
  BY <1>1, <1>2 DEF Next, Defer

LEMMA BaseInit == Init => Base
<1> SUFFICES ASSUME Init PROVE Base
  OBVIOUS
<1>1. Ground
  BY GroundInit
<1>2. HeldInv
  BY DEF Init, HeldInv
<1>3. finish = NotFinishing /\ phase1.active = FALSE /\ phase1.text = <<>>
  BY DEF Init
<1>4. \A c \in Finishers : ~At(c, "hold")
  BY FinisherNames DEF Init, At, Finishers
<1>5. FinishInv
  BY <1>3, <1>4, FinisherNames DEF FinishInv, NotFinishing
<1> QED
  BY <1>1, <1>2, <1>5 DEF Base

LEMMA BaseStep ==
  ASSUME Base, [Next]_everything
  PROVE  Base'
<1> USE DEF Base
<1>1. CASE Next /\ Defer
  <2>1. Ground'
    BY <1>1, GroundUser, GroundWorker, GroundWatch, GroundFlush DEF Defer
  <2> QED
    BY <1>1, <2>1, HeldInvStep, FinishInvDefer
<1>2. CASE Next /\ Finish
  BY <1>2, FinishTypesStep, FinishInvFinish, HeldInvStep
<1>3. CASE UNCHANGED everything
  <2>1. UNCHANGED vars /\ misdeleted' = misdeleted
    BY <1>3 DEF everything
  <2>2. UNCHANGED <<mode, focus, moves, target, watch, state, ptt, begun, capture, speaking,
                    heard, queue, pending, worker, buffer, flush, phase1, finish, release,
                    typed, home, spot, dropped, failures>>
    BY <2>1 DEF vars, userVars, fieldVars, controllerVars, takeVars, pipelineVars, rewriteVars
  <2>3. Ground' /\ HeldInv'
    BY <2>1, <2>2 DEF Ground, Types, FieldTypes, TakeTypes, JobTypes, FinishTypes, PendingExact,
       HeldInv
  <2>4. \A c \in Finishers : At(c, "hold")' <=> At(c, "hold")
    BY <2>2 DEF At
  <2>5. FinishInv'
    BY <2>2, <2>4 DEF FinishInv
  <2> QED
    BY <2>3, <2>5
<1> QED
  BY <1>1, <1>2, <1>3 DEF Next

(* Types, the count of pending jobs, and who holds the rewrite. *)
THEOREM RewriteInvariant == Spec => []Base
BY BaseInit, BaseStep, PTL DEF Spec

-----------------------------------------------------------------------------
(* While nothing has failed, a controller that is not ready has somebody   *)
(* under way who will call recover_after_segment.                          *)
Normal == {"Ready", "Listening", "Processing", "Transcribing", "Injecting"}
FlushUnderway == {"type", "consume", "look", "claim", "hold", "end"}

JobRecovers ==
  \/ pending > 0 \/ worker.pc = "recover"
  \/ \E f \in Flushes : flush[f].pc \in FlushUnderway
  \/ finish.by # "none" /\ (finish.pc = "restore" => finish.recover = TRUE)

TakeRecovers == speaking = TRUE \/ capture \in {"planned", "open", "listening", "releasing"}

ReadyInv ==
  failures = 0 =>
    /\ state \in Normal
    /\ state \in {"Transcribing", "Injecting"} => JobRecovers
    /\ state = "Ready" \/ JobRecovers \/ TakeRecovers
    /\ worker.pc # "failed"

LEMMA NormalStates ==
  ASSUME NEW s \in Normal
  PROVE  /\ \A t \in {"Listening", "Processing", "Injecting"} : Transition(s, t) \in Normal
         /\ Transition(s, "Listening") = s \/ Transition(s, "Listening") = "Listening"
         /\ Announce(s) \in Normal /\ ForInjection(s) \in Normal
         /\ SpeechStart(s) = s \/ SpeechStart(s) = "Listening"
         /\ RecoverAfterSegment(s, FALSE) = "Ready"
         /\ RecoverAfterSegment(s, TRUE) = "Listening"
BY DEF Normal, Transition, CanTransition, Successors, Announce, SpeechStart,
       RecoverAfterSegment, ForInjection

(* Whoever recovers leaves a ready controller, or that of a held key.      *)
LEMMA Recovered ==
  ASSUME Base, state \in Normal, state' = RecoverAfterSegment(state, ptt)
  PROVE  state' \in {"Ready", "Listening"} /\ (state' = "Ready" \/ TakeRecovers)
<1>1. ptt = TRUE \/ ptt = FALSE
  BY DEF Base, Ground, Types, TakeTypes
<1>2. ptt = TRUE => TakeRecovers
  BY DEF Base, HeldInv, TakeRecovers
<1>3. RecoverAfterSegment(state, FALSE) = "Ready" /\ RecoverAfterSegment(state, TRUE) = "Listening"
  BY NormalStates
<1> QED
  BY <1>1, <1>2, <1>3

LEMMA NoFailure ==
  ASSUME Base, failures' = 0
  PROVE  ~Fails
BY DEF Fails, Base, Ground, Types, FieldTypes

LEMMA ReadyUser ==
  ASSUME Base, ReadyInv, User, failures' = 0
  PROVE  ReadyInv'
<1>0. failures = 0 /\ finish' = finish /\ worker' = worker /\ flush' = flush
  BY DEF User, MoveFocus, ShowSettings, PressKey, OpenTake, ShowListening,
         EndTake, SpeechStarted, SpeechEnded, TakeQueued, TakeSilent, Released, rewriteVars,
         pipelineVars
<1>1. /\ state \in Normal /\ worker.pc # "failed"
      /\ state \in {"Transcribing", "Injecting"} => JobRecovers
      /\ state = "Ready" \/ JobRecovers \/ TakeRecovers
  BY <1>0 DEF ReadyInv
<1>2. CASE MoveFocus \/ ShowSettings
  <2>1. UNCHANGED <<state, pending, speaking, capture>>
    BY <1>2 DEF MoveFocus, ShowSettings, controllerVars, pipelineVars, takeVars
  <2> QED
    BY <1>0, <1>1, <2>1 DEF ReadyInv, JobRecovers, TakeRecovers
<1>3. CASE PressKey \/ OpenTake \/ ShowListening \/ EndTake
  <2>1. /\ capture' \in {"planned", "open", "listening", "releasing"} /\ pending' = pending
        /\ state' = state \/ state' = Transition(state, "Listening")
    BY <1>3 DEF PressKey, OpenTake, ShowListening, EndTake, controllerVars, pipelineVars
  <2>2. state' = state \/ state' = "Listening"
    BY <1>1, <2>1, NormalStates
  <2>3. JobRecovers => JobRecovers'
    BY <1>0, <2>1 DEF JobRecovers
  <2> QED
    BY <1>0, <1>1, <2>1, <2>2, <2>3 DEF ReadyInv, TakeRecovers, Normal
<1>4. CASE SpeechStarted
  <2>1. speaking' = TRUE /\ pending' = pending /\ state' = SpeechStart(state)
    BY <1>4 DEF SpeechStarted, pipelineVars
  <2>2. state' = state \/ state' = "Listening"
    BY <1>1, <2>1, NormalStates
  <2>3. JobRecovers => JobRecovers'
    BY <1>0, <2>1 DEF JobRecovers
  <2> QED
    BY <1>0, <1>1, <2>1, <2>2, <2>3 DEF ReadyInv, TakeRecovers, Normal
<1>5. CASE SpeechEnded \/ TakeQueued
  <2>1. pending' = pending + 1 /\ state' = state
    BY <1>5 DEF SpeechEnded, TakeQueued, Enqueued, controllerVars
  <2>2. pending' > 0
    BY <2>1 DEF Base, Ground, Types, JobTypes
  <2>3. JobRecovers'
    BY <2>2 DEF JobRecovers
  <2> QED
    BY <1>0, <1>1, <2>1, <2>3 DEF ReadyInv
<1>6. CASE TakeSilent
  <2>1. /\ capture = "releasing" /\ pending' = pending
        /\ state' = IF state \in {"Listening", "Processing"}
                    THEN RecoverAfterSegment(state, ptt) ELSE state
    BY <1>6 DEF TakeSilent, pipelineVars
  <2>2. ptt = FALSE
    BY <2>1 DEF Base, HeldInv, Ground, Types, TakeTypes
  <2>3. state' = IF state \in {"Listening", "Processing"} THEN "Ready" ELSE state
    BY <1>1, <2>1, <2>2, NormalStates
  <2>4. JobRecovers => JobRecovers'
    BY <1>0, <2>1 DEF JobRecovers
  <2> QED
    BY <1>0, <1>1, <2>3, <2>4 DEF ReadyInv, Normal
<1>7. CASE Released
  <2>1. UNCHANGED <<state, pending, speaking>> /\ capture = "queued"
    BY <1>7 DEF Released, controllerVars, pipelineVars
  <2>2. JobRecovers \/ TakeRecovers => JobRecovers' \/ TakeRecovers'
    BY <1>0, <2>1 DEF JobRecovers, TakeRecovers
  <2>3. JobRecovers => JobRecovers'
    BY <1>0, <2>1 DEF JobRecovers
  <2> QED
    BY <1>0, <1>1, <2>1, <2>2, <2>3 DEF ReadyInv
<1> QED
  BY <1>2, <1>3, <1>4, <1>5, <1>6, <1>7 DEF User

LEMMA ReadyWorker ==
  ASSUME Base, ReadyInv, Worker, failures' = 0
  PROVE  ReadyInv'
<1>0. /\ ~Fails /\ failures = 0
      /\ UNCHANGED <<mode, ptt, takeVars, flush, finish, release>>
  <2>1. ~Fails
    BY NoFailure
  <2> QED
    BY <2>1 DEF Worker, TakeJob, NoText, TextReady, Decide, AppendDeferred, TypeText, TypeFails,
       SettleFailed, FinishJob, RecoverJob, EndJob, KeepForWorker
<1>1. /\ state \in Normal /\ worker.pc # "failed"
      /\ state \in {"Transcribing", "Injecting"} => JobRecovers
      /\ state = "Ready" \/ JobRecovers \/ TakeRecovers
  BY <1>0 DEF ReadyInv
<1>2. TakeRecovers' <=> TakeRecovers
  BY <1>0 DEF TakeRecovers, takeVars
<1>3. CASE TakeJob
  <2>1. /\ queue # <<>> /\ pending' = pending /\ state' = Announce(state)
        /\ worker'.pc = "work"
    BY <1>3 DEF TakeJob
  <2>2. pending > 0
    BY <2>1, EmptySeq DEF Base, Ground, PendingExact, Types, JobTypes
  <2>3. JobRecovers' /\ state' \in Normal
    BY <1>1, <2>1, <2>2, NormalStates DEF JobRecovers
  <2> QED
    BY <2>1, <2>3 DEF ReadyInv
<1>4. CASE NoText \/ TextReady \/ Decide \/ AppendDeferred \/ TypeText
  <2>1. /\ worker.pc \in Busy /\ pending' = pending
        /\ \E pc \in {"finish", "decide", "append", "type"} : WorkerGoes(pc)
        /\ state' = state \/ state' = Transition(state, "Injecting")
    BY <1>4 DEF NoText, TextReady, Decide, AppendDeferred, TypeText, WorkerAt, Busy
  <2>2. pending > 0
    BY <2>1 DEF Base, Ground, PendingExact, Types, JobTypes
  <2>3. JobRecovers' /\ state' \in Normal
    BY <1>1, <2>1, <2>2, NormalStates DEF JobRecovers
  <2>4. worker'.pc # "failed"
    BY <2>1 DEF WorkerGoes, Base, Ground, Types, JobTypes
  <2> QED
    BY <2>3, <2>4 DEF ReadyInv
<1>5. CASE FinishJob
  <2>1. /\ worker.pc = "finish" /\ pending' = pending - 1 /\ state' = state
        /\ WorkerGoes(IF pending = 1 THEN "recover" ELSE "idle")
    BY <1>5 DEF FinishJob, WorkerAt
  <2>2. pending > 0 /\ pending \in Nat
    BY <2>1 DEF Base, Ground, PendingExact, Types, JobTypes, Busy
  <2>3. worker'.pc = IF pending = 1 THEN "recover" ELSE "idle"
    BY <2>1 DEF WorkerGoes, Base, Ground, Types, JobTypes
  <2>4. pending' > 0 \/ worker'.pc = "recover"
    BY <2>1, <2>2, <2>3
  <2>5. JobRecovers'
    BY <2>4 DEF JobRecovers
  <2>6. worker'.pc # "failed"
    BY <2>3
  <2> QED
    BY <1>1, <2>1, <2>5, <2>6 DEF ReadyInv
<1>6. CASE RecoverJob
  <2>1. state' = RecoverAfterSegment(state, ptt) /\ WorkerGoes("look")
    BY <1>6 DEF RecoverJob
  <2>2. state' \in {"Ready", "Listening"} /\ (state' = "Ready" \/ TakeRecovers)
    BY <1>1, <2>1, Recovered
  <2>3. worker'.pc = "look"
    BY <2>1 DEF WorkerGoes, Base, Ground, Types, JobTypes
  <2> QED
    BY <1>2, <2>2, <2>3 DEF ReadyInv, Normal
<1>7. CASE EndJob
  <2>1. UNCHANGED <<state, pending>> /\ WorkerGoes("idle") /\ worker.pc = "end"
    BY <1>7 DEF EndJob, WorkerAt
  <2>2. worker'.pc = "idle"
    BY <2>1 DEF WorkerGoes, Base, Ground, Types, JobTypes
  <2>3. JobRecovers => JobRecovers'
    BY <1>0, <2>1 DEF JobRecovers
  <2> QED
    BY <1>1, <1>2, <2>1, <2>2, <2>3 DEF ReadyInv
<1>8. ~TypeFails /\ ~SettleFailed
  BY <1>0, <1>1 DEF TypeFails, SettleFailed, WorkerAt
<1> QED
  BY <1>3, <1>4, <1>5, <1>6, <1>7, <1>8 DEF Worker

LEMMA ReadyFlush ==
  ASSUME Base, ReadyInv, failures' = 0, Watch \/ \E f \in Flushes : Flush(f)
  PROVE  ReadyInv'
<1>0. /\ ~Fails /\ failures = 0
      /\ UNCHANGED <<mode, ptt, takeVars, pipelineVars, rewriteVars>>
  <2>1. ~Fails
    BY NoFailure
  <2> QED
    BY <2>1 DEF Watch, WatchStarts, FieldLost, FieldRegained, KeepForWatch, controllerVars,
       Flush, FlushHasNothing, FlushTooLate, FlushSnapshot, FlushTypes, FlushFails,
       FlushConsumes, FlushEnds, KeepForFlush
<1>1. /\ state \in Normal /\ worker.pc # "failed"
      /\ state \in {"Transcribing", "Injecting"} => JobRecovers
      /\ state = "Ready" \/ JobRecovers \/ TakeRecovers
  BY <1>0 DEF ReadyInv
<1>2. (TakeRecovers' <=> TakeRecovers) /\ worker'.pc # "failed"
  BY <1>0, <1>1 DEF TakeRecovers, takeVars, pipelineVars
<1>3. flush \in [Flushes -> [pc : FlushPcs, text : Seq(Segments)]]
  BY DEF Base, Ground, Types, JobTypes
<1>4. CASE Watch
  <2>1. /\ state' = state
        /\ \/ flush' = flush
           \/ \E f \in Flushes : flush[f].pc = "idle" /\ flush' = [flush EXCEPT ![f].pc = "start"]
    BY <1>4 DEF Watch, WatchStarts, FieldLost, FieldRegained, KeepForWatch, controllerVars
  <2>2. \A g \in Flushes : flush[g].pc \in FlushUnderway => flush'[g].pc \in FlushUnderway
    <3>1. ASSUME NEW f \in Flushes, flush[f].pc = "idle", flush' = [flush EXCEPT ![f].pc = "start"]
          PROVE  \A g \in Flushes : flush[g].pc \in FlushUnderway => flush'[g].pc \in FlushUnderway
      <4>1. \A g \in Flushes \ {f} : flush'[g] = flush[g]
        BY <1>3, <3>1, FlushGoesOn DEF FlushPcs
      <4> QED
        BY <3>1, <4>1 DEF FlushUnderway
    <3> QED
      BY <2>1, <3>1
  <2>3. JobRecovers => JobRecovers'
    BY <1>0, <2>2 DEF JobRecovers, pipelineVars, rewriteVars
  <2> QED
    BY <1>1, <1>2, <2>1, <2>3 DEF ReadyInv
<1>5. ASSUME NEW f \in Flushes, FlushHasNothing(f) \/ FlushTooLate(f)
      PROVE  ReadyInv'
  <2>1. flush[f].pc = "start" /\ flush' = [flush EXCEPT ![f] = [pc |-> "idle", text |-> <<>>]]
        /\ state' = state
    BY <1>5 DEF FlushHasNothing, FlushTooLate, FlushAt, FlushIdle
  <2>2. \A g \in Flushes : flush[g].pc \in FlushUnderway => flush'[g].pc \in FlushUnderway
    BY <1>3, <2>1 DEF FlushUnderway
  <2>3. JobRecovers => JobRecovers'
    BY <1>0, <2>2 DEF JobRecovers, pipelineVars, rewriteVars
  <2> QED
    BY <1>1, <1>2, <2>1, <2>3 DEF ReadyInv
<1>6. ASSUME NEW f \in Flushes, FlushSnapshot(f) \/ FlushTypes(f) \/ FlushConsumes(f)
      PROVE  ReadyInv'
  <2>1. flush'[f].pc \in FlushUnderway
    <3>1. CASE FlushSnapshot(f)
      BY <1>3, <3>1 DEF FlushSnapshot, FlushUnderway
    <3>2. CASE FlushTypes(f) \/ FlushConsumes(f)
      <4>1. \E pc \in {"consume", "look"} : flush' = [flush EXCEPT ![f].pc = pc]
        BY <3>2 DEF FlushTypes, FlushConsumes, FlushGoes
      <4> QED
        BY <1>3, <4>1, FlushGoesOn DEF FlushPcs, FlushUnderway
    <3> QED
      BY <1>6, <3>1, <3>2
  <2>2. JobRecovers'
    BY <2>1 DEF JobRecovers
  <2>3. state' \in Normal
    BY <1>1, <1>6, NormalStates DEF FlushSnapshot, FlushTypes, FlushConsumes
  <2> QED
    BY <1>2, <2>2, <2>3 DEF ReadyInv
<1>7. ASSUME NEW f \in Flushes, FlushEnds(f)
      PROVE  ReadyInv'
  <2>1. state' = IF pending = 0 THEN RecoverAfterSegment(state, ptt) ELSE state
    BY <1>7 DEF FlushEnds
  <2>2. CASE pending = 0
    <3>1. state' \in {"Ready", "Listening"} /\ (state' = "Ready" \/ TakeRecovers)
      BY <1>1, <2>1, <2>2, Recovered
    <3> QED
      BY <1>2, <3>1 DEF ReadyInv, Normal
  <2>3. CASE pending # 0
    <3>1. pending' > 0
      BY <1>0, <2>3 DEF Base, Ground, Types, JobTypes, pipelineVars
    <3>2. JobRecovers'
      BY <3>1 DEF JobRecovers
    <3> QED
      BY <1>1, <1>2, <2>1, <2>3, <3>2 DEF ReadyInv
  <2> QED
    BY <2>2, <2>3
<1>8. \A f \in Flushes : ~FlushFails(f)
  BY <1>0 DEF FlushFails
<1> QED
  BY <1>4, <1>5, <1>6, <1>7, <1>8 DEF Flush

LEMMA ReadyFinish ==
  ASSUME Base, ReadyInv, failures' = 0, Finish
  PROVE  ReadyInv'
<1>0. /\ ~Fails /\ failures = 0
      /\ UNCHANGED <<mode, ptt, takeVars, queue, pending, dropped, buffer>>
  <2>1. ~Fails
    BY NoFailure
  <2> QED
    BY <2>1 DEF Finish, FinishLooks, FinishLeaves, FinishNoModel, FinishClaims, DeleteText,
       DeleteFails, RewriteFails, RewriteSkipped, RewriteReady, InsertText, InsertFails,
       RestoreText, RestoreTextFails, EndRelease, KeepForFinish
<1>1. /\ state \in Normal /\ worker.pc # "failed"
      /\ state \in {"Transcribing", "Injecting"} => JobRecovers
      /\ state = "Ready" \/ JobRecovers \/ TakeRecovers
  BY <1>0 DEF ReadyInv
<1>2. TakeRecovers' <=> TakeRecovers
  BY <1>0 DEF TakeRecovers, takeVars
(* A step of a finisher takes no flush task out of what is under way. *)
<1>3. ASSUME NEW c \in Finishers, NEW pc \in {"claim", "hold", "end"}, Goes(c, pc),
             NEW from \in {"look", "claim", "hold"}, At(c, from)
      PROVE  /\ worker'.pc # "failed"
             /\ worker'.pc = "recover" <=> worker.pc = "recover"
             /\ \A f \in Flushes : flush[f].pc \in FlushUnderway => flush'[f].pc \in FlushUnderway
  <2>1. /\ worker'.pc = IF c = "worker" THEN pc ELSE worker.pc
        /\ \A f \in Flushes : flush'[f].pc = IF c = f THEN pc ELSE flush[f].pc
    BY <1>3, GoesOn DEF Base, Ground, Types
  <2>2. c = "worker" => worker.pc = from
    BY <1>3, AtIs
  <2> QED
    BY <1>1, <2>1, <2>2 DEF FlushUnderway
<1>4. ASSUME NEW c \in Finishers, FinishLooks(c) \/ FinishLeaves(c)
      PROVE  ReadyInv'
  <2>1. /\ finish' = finish /\ state' = state
        /\ \E pc \in {"claim", "hold", "end"}, from \in {"look", "claim", "hold"} :
             Goes(c, pc) /\ At(c, from)
    BY <1>4 DEF FinishLooks, FinishLeaves
  <2>2. /\ worker'.pc # "failed"
        /\ worker'.pc = "recover" <=> worker.pc = "recover"
        /\ \A f \in Flushes : flush[f].pc \in FlushUnderway => flush'[f].pc \in FlushUnderway
    BY <1>3, <2>1
  <2>3. JobRecovers => JobRecovers'
    BY <1>0, <2>1, <2>2 DEF JobRecovers
  <2> QED
    BY <1>1, <1>2, <2>1, <2>2, <2>3 DEF ReadyInv
<1>5. ASSUME NEW c \in Finishers, FinishClaims(c)
      PROVE  ReadyInv'
  <2>1. /\ Goes(c, "hold") /\ At(c, "claim") /\ state' = Transition(state, "Processing")
        /\ finish'.by = c /\ finish'.pc = "delete"
    BY <1>5 DEF FinishClaims, CanClaim
  <2>2. JobRecovers'
    BY <2>1, FinisherNames DEF JobRecovers
  <2>3. worker'.pc # "failed"
    BY <1>3, <2>1
  <2>4. state' \in Normal
    BY <1>1, <2>1, NormalStates
  <2> QED
    BY <2>2, <2>3, <2>4 DEF ReadyInv
<1>6. CASE DeleteText \/ RewriteSkipped \/ RewriteReady
  <2>1. /\ UNCHANGED <<worker, flush>> /\ finish'.by = finish.by
        /\ finish'.pc \in {"rewrite", "restore", "insert"}
        /\ finish'.pc = "restore" => pending > 0
        /\ finish.pc \in {"delete", "rewrite"}
        /\ state' = state \/ state' = Transition(state, "Injecting")
    BY <1>6 DEF DeleteText, RewriteSkipped, RewriteReady, FinishStays, FinishGoes, FinishAt, Base,
       Ground, Types, FinishTypes
  <2>2. JobRecovers'
    <3>1. finish.by # "none"
      BY <2>1 DEF Base, FinishInv
    <3> QED
      BY <1>0, <2>1, <3>1 DEF JobRecovers
  <2>3. state' \in Normal
    BY <1>1, <2>1, NormalStates
  <2> QED
    BY <1>1, <2>1, <2>2, <2>3 DEF ReadyInv
<1>7. CASE InsertText \/ RestoreText
  <2>1. /\ Goes(finish.by, "end") /\ finish' = NotFinishing /\ finish.pc \in {"insert", "restore"}
        /\ \/ state' = RecoverAfterSegment(state, ptt)
           \/ state' = state /\ finish.pc = "restore" /\ ~finish.recover
    BY <1>7 DEF InsertText, RestoreText, FinishEnds, FinishAt
  <2>2. finish.by \in Finishers /\ At(finish.by, "hold")
    BY <2>1 DEF Base, FinishInv, Ground, Types, FinishTypes
  <2>3. /\ worker'.pc # "failed"
        /\ worker'.pc = "recover" <=> worker.pc = "recover"
        /\ \A f \in Flushes : flush[f].pc \in FlushUnderway => flush'[f].pc \in FlushUnderway
    BY <1>3, <2>1, <2>2
  <2>4. CASE state' = RecoverAfterSegment(state, ptt)
    <3>1. state' \in {"Ready", "Listening"} /\ (state' = "Ready" \/ TakeRecovers)
      BY <1>1, <2>4, Recovered
    <3> QED
      BY <1>2, <2>3, <3>1 DEF ReadyInv, Normal
  <2>5. CASE state' = state /\ finish.pc = "restore" /\ ~finish.recover
    <3>1. JobRecovers => JobRecovers'
      BY <1>0, <2>3, <2>5 DEF JobRecovers
    <3> QED
      BY <1>1, <1>2, <2>3, <2>5, <3>1 DEF ReadyInv
  <2> QED
    BY <2>1, <2>4, <2>5
<1>8. CASE EndRelease
  <2>1. UNCHANGED <<state, worker, flush, finish>>
    BY <1>8 DEF EndRelease
  <2>2. JobRecovers => JobRecovers'
    BY <1>0, <2>1 DEF JobRecovers
  <2> QED
    BY <1>1, <1>2, <2>1, <2>2 DEF ReadyInv
<1>9. /\ ~DeleteFails /\ ~RewriteFails /\ ~InsertFails /\ ~RestoreTextFails
      /\ \A c \in Finishers : ~FinishNoModel(c)
  BY <1>0 DEF DeleteFails, RewriteFails, InsertFails, RestoreTextFails, FinishNoModel
<1> QED
  BY <1>4, <1>5, <1>6, <1>7, <1>8, <1>9 DEF Finish

LEMMA ReadyStep ==
  ASSUME Base, ReadyInv, [Next]_everything
  PROVE  ReadyInv'
<1>1. CASE Next
  <2>1. CASE failures' # 0
    BY <2>1 DEF ReadyInv
  <2>2. CASE failures' = 0
    BY <1>1, <2>2, ReadyUser, ReadyWorker, ReadyFlush, ReadyFinish DEF Next, Defer
  <2> QED
    BY <2>1, <2>2
<1>2. CASE UNCHANGED everything
  <2>1. UNCHANGED <<state, ptt, capture, speaking, pending, worker, flush, finish, failures>>
    BY <1>2 DEF everything, vars, controllerVars, takeVars, pipelineVars, rewriteVars
  <2> QED
    BY <2>1 DEF ReadyInv, JobRecovers, TakeRecovers
<1> QED
  BY <1>1, <1>2

(* ReadyAtRest: after the worker, the flushes and the rewrite, in whatever  *)
(* order they ended, the controller takes the next take, races or not.     *)
THEOREM ReadyAfterwards == Spec => []ReadyAtRest
<1>1. Init => Base /\ ReadyInv
  BY BaseInit DEF Init, ReadyInv, Normal
<1>2. Base /\ ReadyInv /\ [Next]_everything => (Base /\ ReadyInv)'
  BY BaseStep, ReadyStep
<1>3. Base /\ ReadyInv => ReadyAtRest
  <2> SUFFICES ASSUME Base, ReadyInv, Resting, failures = 0 PROVE state = "Ready"
    BY DEF ReadyAtRest
  <2>1. ~TakeRecovers
    BY DEF Resting, TakeRecovers
  <2>2. ~JobRecovers
    BY DEF Resting, JobRecovers, FlushesBusy, FlushUnderway
  <2> QED
    BY <2>1, <2>2 DEF ReadyInv
<1> QED
  BY <1>1, <1>2, <1>3, PTL DEF Spec

-----------------------------------------------------------------------------
(* What a step does to the buffer, to the watch and to the flush tasks.    *)

LEMMA BufferMoves ==
  ASSUME Next
  PROVE  \/ buffer' = buffer \/ buffer' = <<>>
         \/ AppendDeferred \/ \E f \in Flushes : FlushConsumes(f)
<1>1. CASE User
  BY <1>1 DEF User, MoveFocus, ShowSettings, PressKey, OpenTake, ShowListening,
     EndTake, SpeechStarted, SpeechEnded, TakeQueued, TakeSilent, Released, CaptureTarget
<1>2. CASE Worker
  BY <1>2 DEF Worker, TakeJob, NoText, TextReady, Decide, TypeText, TypeFails,
     SettleFailed, FinishJob, RecoverJob, EndJob
<1>3. CASE Watch
  BY <1>3 DEF Watch, WatchStarts, FieldLost, FieldRegained, KeepForWatch
<1>4. CASE \E f \in Flushes : Flush(f)
  BY <1>4 DEF Flush, FlushHasNothing, FlushTooLate, FlushSnapshot, FlushTypes, FlushFails, FlushEnds
<1>5. CASE Finish
  BY <1>5 DEF Finish, FinishLooks, FinishLeaves, FinishNoModel, FinishClaims, DeleteText,
     DeleteFails, RewriteFails, RewriteSkipped, RewriteReady, InsertText, InsertFails,
     RestoreText, RestoreTextFails, EndRelease, KeepForFinish
<1> QED
  BY <1>1, <1>2, <1>3, <1>4, <1>5 DEF Next, Defer

LEMMA WatchMoves ==
  ASSUME Next, buffer # <<>>, watch = "away"
  PROVE  watch' \in {"away", "new"} \/ FieldRegained
<1>1. ASSUME NEW s, MaybeStopWatch(s)
      PROVE  watch' = watch
  BY <1>1 DEF MaybeStopWatch, Retained, fieldVars
<1>2. CASE User
  BY <1>2 DEF User, MoveFocus, ShowSettings, PressKey, OpenTake, ShowListening, BeginSession,
     EndTake, SpeechStarted, SpeechEnded, TakeQueued, TakeSilent, Released, fieldVars
<1>3. CASE Worker
  BY <1>1, <1>3 DEF Worker, TakeJob, NoText, TextReady, Decide, AppendDeferred, TypeText,
     TypeFails, SettleFailed, FinishJob, RecoverJob, EndJob, Prepare, fieldVars
<1>4. CASE Watch
  BY <1>4 DEF Watch, WatchStarts, FieldLost
<1>5. CASE \E f \in Flushes : Flush(f)
  BY <1>1, <1>5 DEF Flush, FlushHasNothing, FlushTooLate, FlushSnapshot, FlushTypes, FlushFails,
     FlushConsumes, FlushEnds, Prepare, fieldVars
<1>6. CASE Finish
  BY <1>1, <1>6 DEF Finish, FinishLooks, FinishLeaves, FinishNoModel, FinishClaims, DeleteText,
     DeleteFails, RewriteFails, RewriteSkipped, RewriteReady, InsertText, InsertFails,
     RestoreText, RestoreTextFails, EndRelease, KeepFields, Prepare, fieldVars
<1> QED
  BY <1>2, <1>3, <1>4, <1>5, <1>6 DEF Next, Defer

(* A flush task moves in steps of its own, but for its start and for the    *)
(* part it shares with the other finishers.                                *)
LEMMA FlushMoves ==
  ASSUME Base, Next, NEW f \in Flushes, flush[f].pc \in {"start", "type", "consume", "end"}
  PROVE  flush'[f] = flush[f] \/ Flush(f)
<1>0. flush \in [Flushes -> [pc : FlushPcs, text : Seq(Segments)]]
  BY DEF Base, Ground, Types, JobTypes
<1>1. CASE User \/ Worker
  <2>1. flush' = flush
    BY <1>1 DEF User, MoveFocus, ShowSettings, PressKey, OpenTake, ShowListening,
       EndTake, SpeechStarted, SpeechEnded, TakeQueued, TakeSilent, Released,
       Worker, TakeJob, NoText, TextReady, Decide, AppendDeferred, TypeText,
       TypeFails, SettleFailed, FinishJob, RecoverJob, EndJob, KeepForWorker
  <2> QED
    BY <2>1
<1>2. CASE Watch
  <2>1. \/ flush' = flush
        \/ \E g \in Flushes : flush[g].pc = "idle" /\ flush' = [flush EXCEPT ![g].pc = "start"]
    BY <1>2 DEF Watch, WatchStarts, FieldLost, FieldRegained
  <2>2. ASSUME NEW g \in Flushes, flush[g].pc = "idle", flush' = [flush EXCEPT ![g].pc = "start"]
        PROVE  flush'[f] = flush[f]
    <3>1. f # g
      BY <2>2
    <3> QED
      BY <1>0, <2>2, <3>1, FlushGoesOn DEF FlushPcs
  <2> QED
    BY <2>1, <2>2
<1>3. ASSUME NEW g \in Flushes, Flush(g), g # f
      PROVE  flush'[f] = flush[f]
  <2>1. CASE FlushTypes(g) \/ FlushConsumes(g)
    <3>1. \E pc \in {"consume", "look"} : flush' = [flush EXCEPT ![g].pc = pc]
      BY <2>1 DEF FlushTypes, FlushConsumes, FlushGoes
    <3> QED
      BY <1>0, <1>3, <3>1, FlushGoesOn DEF FlushPcs
  <2>2. CASE ~(FlushTypes(g) \/ FlushConsumes(g))
    <3>1. \E r : flush' = [flush EXCEPT ![g] = r]
      BY <1>3, <2>2 DEF Flush, FlushHasNothing, FlushTooLate, FlushSnapshot, FlushFails,
         FlushEnds, FlushIdle
    <3> QED
      BY <1>0, <1>3, <3>1
  <2> QED
    BY <2>1, <2>2
<1>4. ASSUME NEW c \in Finishers, NEW pc \in {"claim", "hold", "end"}, Goes(c, pc),
             NEW from \in {"look", "claim", "hold"}, At(c, from)
      PROVE  flush'[f] = flush[f]
  <2>1. CASE c \in Flushes
    <3>1. flush[c].pc = from
      BY <1>4, <2>1, AtIs
    <3>2. flush' = [flush EXCEPT ![c].pc = pc] /\ c # f
      BY <1>4, <2>1, <3>1 DEF Goes
    <3> QED
      BY <1>0, <2>1, <3>2, FlushGoesOn DEF FlushPcs
  <2>2. CASE c \notin Flushes
    BY <1>4, <2>2 DEF Goes
  <2> QED
    BY <2>1, <2>2
<1>5. CASE Finish
  <2>1. CASE \E c \in Finishers : FinishLooks(c) \/ FinishLeaves(c) \/ FinishNoModel(c)
                                  \/ FinishClaims(c)
    <3>1. \E c \in Finishers, pc \in {"claim", "hold", "end"}, from \in {"look", "claim", "hold"} :
             Goes(c, pc) /\ At(c, from)
      BY <2>1 DEF FinishLooks, FinishLeaves, FinishNoModel, FinishClaims, CanClaim
    <3> QED
      BY <1>4, <3>1
  <2>2. CASE DeleteText \/ DeleteFails \/ RewriteFails \/ RewriteSkipped \/ RewriteReady
             \/ InsertFails \/ EndRelease
    BY <2>2 DEF DeleteText, DeleteFails, RewriteFails, RewriteSkipped, RewriteReady,
       InsertFails, EndRelease, FinishStays
  <2>3. CASE InsertText \/ RestoreText \/ RestoreTextFails
    <3>1. Goes(finish.by, "end") /\ finish.pc # "none"
      BY <2>3 DEF InsertText, RestoreText, RestoreTextFails, FinishEnds, FinishAt
    <3>2. finish.by \in Finishers /\ At(finish.by, "hold")
      BY <3>1 DEF Base, Ground, Types, FinishInv, FinishTypes
    <3> QED
      BY <1>4, <3>1, <3>2
  <2> QED
    BY <1>5, <2>1, <2>2, <2>3 DEF Finish
<1> QED
  BY <1>1, <1>2, <1>3, <1>5 DEF Next, Defer

-----------------------------------------------------------------------------
(* Text in the buffer, and the user in its field: the watch has yet to see  *)
(* it, or a flush is about to look, or is typing the whole of it.          *)
Heard(f) == flush[f].pc \in {"type", "consume"} /\ flush[f].text = buffer

WaitInv ==
  races = {} =>
    /\ \A f, g \in FlushesBusy : f = g
    /\ failures = 0 /\ buffer # <<>> /\ ~ShouldDefer =>
         \/ watch = "away"
         \/ \E f \in Flushes : flush[f].pc = "start" \/ Heard(f)

LEMMA NoRace ==
  ASSUME Notes, races' = {}
  PROVE  races = {} /\ \A k \in Races : ~Race(k)
BY DEF Notes

LEMMA WaitStep ==
  ASSUME Base, WaitInv, Next
  PROVE  WaitInv'
<1> SUFFICES ASSUME races' = {} PROVE WaitInv'
  BY DEF WaitInv
<1>1. /\ races = {}
      /\ ~Race("overlap") /\ ~Race("glance") /\ ~Race("restart")
  BY NoRace DEF Next, Races
<1>2. \A f, g \in FlushesBusy' : f = g
  BY <1>1 DEF Race
<1>3. \A f, g \in FlushesBusy : f = g
  BY <1>1 DEF WaitInv
<1> SUFFICES ASSUME failures' = 0, buffer' # <<>>, ~ShouldDefer'
             PROVE  \/ watch' = "away"
                    \/ \E f \in Flushes : flush'[f].pc = "start" \/ Heard(f)'
  BY <1>2 DEF WaitInv
<1>4. failures = 0 /\ ~Fails
  BY NoFailure DEF Next, Defer, User, MoveFocus, ShowSettings, PressKey, OpenTake,
     ShowListening, EndTake, SpeechStarted, SpeechEnded, TakeQueued, TakeSilent, Released,
     Worker, TakeJob, NoText, TextReady, Decide, AppendDeferred, TypeText, TypeFails,
     SettleFailed, FinishJob, RecoverJob, EndJob, Watch, WatchStarts, FieldLost,
     FieldRegained, KeepForWatch, Flush, FlushHasNothing, FlushTooLate, FlushSnapshot,
     FlushTypes, FlushFails, FlushConsumes, FlushEnds,
     Finish, FinishLooks, FinishLeaves, FinishNoModel, FinishClaims, DeleteText,
     DeleteFails, RewriteFails, RewriteSkipped, RewriteReady, InsertText, InsertFails,
     RestoreText, RestoreTextFails, EndRelease
<1>5. flush \in [Flushes -> [pc : FlushPcs, text : Seq(Segments)]]
      /\ flush' \in [Flushes -> [pc : FlushPcs, text : Seq(Segments)]]
      /\ buffer \in Seq(Segments)
  BY BaseStep DEF Base, Ground, Types, JobTypes
<1>6. ~AppendDeferred
  <2> SUFFICES ASSUME AppendDeferred PROVE FALSE
    OBVIOUS
  <2>1. buffer' = Append(buffer, worker.seg) /\ worker.seg \in Segments
        /\ UNCHANGED <<focus, target>>
    BY DEF AppendDeferred, WorkerAt, userVars, fieldVars, Base, Ground, Types, JobTypes, Busy
  <2>2. Len(buffer') > Len(buffer)
    BY <1>5, <2>1
  <2>3. ~ShouldDefer
    BY <2>1 DEF ShouldDefer
  <2> QED
    BY <1>1, <2>2, <2>3 DEF Race
<1>7. buffer # <<>>
  <2>1. CASE \E f \in Flushes : FlushConsumes(f)
    <3>1. PICK f \in Flushes : FlushConsumes(f)
      BY <2>1
    <3>2. buffer' = buffer \/ buffer' = SubSeq(buffer, Len(flush[f].text) + 1, Len(buffer))
      BY <3>1 DEF FlushConsumes
    <3>3. flush[f].text \in Seq(Segments)
      BY <1>5
    <3>4. buffer = <<>> => SubSeq(buffer, Len(flush[f].text) + 1, Len(buffer)) = <<>>
      <4>1. Len(flush[f].text) \in Nat /\ Len(<<>>) = 0
        BY <3>3
      <4>2. Len(flush[f].text) + 1 \in Int /\ Len(<<>>) \in Int /\ Len(<<>>) < Len(flush[f].text) + 1
        BY <4>1
      <4> QED
        BY <4>2, SubSeqEmpty
    <3> QED
      BY <3>2, <3>4
  <2> QED
    BY <1>6, <2>1, BufferMoves
(* The watch does not look away from a buffer that waits. *)
<1>8. CASE watch = "away"
  <2>1. watch' # "new"
    BY <1>1, <1>7, <1>8 DEF Race
  <2>2. watch' = "away" \/ FieldRegained
    BY <1>7, <1>8, <2>1, WatchMoves
  <2>3. FieldRegained => \E f \in Flushes : flush'[f].pc = "start"
    <3> SUFFICES ASSUME FieldRegained PROVE \E f \in Flushes : flush'[f].pc = "start"
      OBVIOUS
    <3>1. PICK f \in Flushes : flush' = [flush EXCEPT ![f].pc = "start"]
      BY DEF FieldRegained
    <3> QED
      BY <1>5, <3>1, FlushGoesOn DEF FlushPcs
  <2> QED
    BY <2>2, <2>3
<1>9. CASE watch # "away"
  <2>1. ~ShouldDefer
    BY <1>1, <1>7, <1>9 DEF Race
  <2>2. PICK f \in Flushes : flush[f].pc = "start" \/ Heard(f)
    BY <1>1, <1>4, <1>7, <1>9, <2>1 DEF WaitInv
  <2>3. flush'[f] = flush[f] \/ Flush(f)
    BY <2>2, FlushMoves DEF Heard
  <2>4. CASE flush[f].pc = "start" /\ Flush(f)
    <3>1. FlushSnapshot(f)
      BY <1>7, <2>1, <2>4 DEF Flush, FlushHasNothing, FlushTooLate, FlushTypes, FlushFails,
         FlushConsumes, FlushEnds, FlushAt, ShouldDefer
    <3>2. flush'[f] = [pc |-> "type", text |-> buffer] /\ buffer' = buffer
      BY <1>5, <3>1 DEF FlushSnapshot
    <3> QED
      BY <3>2 DEF Heard
  <2>5. CASE flush[f].pc = "start" /\ flush'[f] = flush[f]
    BY <2>5
  <2>6. CASE Heard(f)
    <3>1. f \in FlushesBusy
      BY <2>6 DEF Heard, FlushesBusy
    <3>2. ~FlushConsumes(f)
      <4> SUFFICES ASSUME FlushConsumes(f) PROVE FALSE
        OBVIOUS
      <4>1. IsPrefix(buffer, buffer) => buffer' = SubSeq(buffer, Len(buffer) + 1, Len(buffer))
        BY <2>6 DEF FlushConsumes, Heard
      <4>2. IsPrefix(buffer, buffer)
        BY <1>5 DEF IsPrefix
      <4>3. Len(buffer) + 1 \in Int /\ Len(buffer) \in Int /\ Len(buffer) < Len(buffer) + 1
        BY <1>5
      <4>4. SubSeq(buffer, Len(buffer) + 1, Len(buffer)) = <<>>
        BY <4>3, SubSeqEmpty
      <4> QED
        BY <4>1, <4>2, <4>4
    <3>3. buffer' = buffer
      <4>1. ASSUME NEW g \in Flushes, FlushConsumes(g)
            PROVE  g = f
        <5>1. g \in FlushesBusy
          BY <4>1 DEF FlushConsumes, FlushAt, FlushesBusy
        <5> QED
          BY <1>3, <3>1, <5>1
      <4> QED
        BY <1>6, <3>2, <4>1, BufferMoves
    <3>4. CASE flush'[f] = flush[f]
      BY <2>6, <3>3, <3>4 DEF Heard
    <3>5. CASE Flush(f)
      <4>1. FlushTypes(f)
        BY <1>4, <2>6, <3>2, <3>5 DEF Flush, FlushHasNothing, FlushTooLate, FlushSnapshot,
           FlushFails, FlushEnds, FlushAt, Heard
      <4>2. flush' = [flush EXCEPT ![f].pc = "consume"]
        BY <4>1 DEF FlushTypes, FlushGoes
      <4>3. flush'[f].pc = "consume" /\ flush'[f].text = flush[f].text
        BY <1>5, <4>2, FlushGoesOn DEF FlushPcs
      <4> QED
        BY <2>6, <3>3, <4>3 DEF Heard
    <3> QED
      BY <2>3, <3>4, <3>5
  <2> QED
    BY <2>2, <2>3, <2>4, <2>5, <2>6
<1> QED
  BY <1>8, <1>9

(* WaitsOnlyAway: when nothing moves any more and the user is back in the   *)
(* field, what waited for it has been typed.                               *)
THEOREM NothingWaitsInTheField == Spec => []WaitsOnlyAway
<1>1. Init => Base /\ WaitInv
  BY BaseInit DEF Init, WaitInv, FlushesBusy
<1>2. Base /\ WaitInv /\ [Next]_everything => (Base /\ WaitInv)'
  <2>1. CASE Next
    BY <2>1, BaseStep, WaitStep
  <2>2. ASSUME WaitInv, UNCHANGED everything
        PROVE  WaitInv'
    <3>1. UNCHANGED <<races, flush, failures, buffer, focus, target, watch>>
      BY <2>2 DEF everything, vars, userVars, fieldVars
    <3> QED
      BY <2>2, <3>1 DEF WaitInv, FlushesBusy, ShouldDefer, Heard
  <2> QED
    BY <2>1, <2>2, BaseStep
<1>3. Base /\ WaitInv => WaitsOnlyAway
  <2> SUFFICES ASSUME Base, WaitInv, Resting, races = {}, failures = 0, buffer # <<>>, ~ShouldDefer
               PROVE  FALSE
    BY DEF WaitsOnlyAway
  <2>1. watch # "away"
    BY DEF Resting, Seen, Matches, ShouldDefer
  <2>2. \A f \in Flushes : flush[f].pc = "idle"
    BY DEF Resting, FlushesBusy
  <2> QED
    BY <2>1, <2>2 DEF WaitInv, Heard
<1> QED
  BY <1>1, <1>2, <1>3, PTL DEF Spec

-----------------------------------------------------------------------------
(* Sequences of segments, taken apart and put together.                    *)

Increasing(s) == \A i, j \in 1 .. Len(s) : i < j => s[i] < s[j]

(* The sequence ends with p. *)
EndsWith(s, p) == \E q \in Seq(Segments) : s = q \o p

(* What is in a sequence of segments.                                     *)
LEMMA InToSet ==
  ASSUME NEW s \in Seq(Segments)
  PROVE  /\ \A x : x \in ToSet(s) <=> \E i \in 1 .. Len(s) : s[i] = x
         /\ ToSet(s) \subseteq Segments
BY DEF ToSet

LEMMA EmptyAndSingle ==
  /\ <<>> \in Seq(Segments) /\ ToSet(<<>>) = {} /\ Increasing(<<>>)
  /\ \A e \in Segments : <<e>> \in Seq(Segments) /\ ToSet(<<e>>) = {e} /\ Increasing(<<e>>)
                         /\ <<e>> # <<>>
<1>1. <<>> \in Seq(Segments) /\ ToSet(<<>>) = {} /\ Increasing(<<>>)
  BY DEF ToSet, Increasing
<1>2. ASSUME NEW e \in Segments
      PROVE  <<e>> \in Seq(Segments) /\ ToSet(<<e>>) = {e} /\ Increasing(<<e>>) /\ <<e>> # <<>>
  <2>1. <<e>> \in Seq(Segments) /\ Len(<<e>>) = 1 /\ <<e>>[1] = e /\ <<e>> # <<>>
    OBVIOUS
  <2>2. Increasing(<<e>>)
    BY <2>1 DEF Increasing
  <2>3. \A x : x \in ToSet(<<e>>) <=> x = e
    <3>1. \A x : x \in ToSet(<<e>>) <=> \E i \in 1 .. 1 : <<e>>[i] = x
      BY <2>1, InToSet
    <3>2. \A i \in 1 .. 1 : i = 1
      OBVIOUS
    <3> QED
      BY <2>1, <3>1, <3>2
  <2> QED
    BY <2>1, <2>2, <2>3
<1> QED
  BY <1>1, <1>2

LEMMA ToSetConcat ==
  ASSUME NEW a \in Seq(Segments), NEW b \in Seq(Segments)
  PROVE  a \o b \in Seq(Segments) /\ ToSet(a \o b) = ToSet(a) \cup ToSet(b)
<1>1. /\ a \o b \in Seq(Segments) /\ Len(a \o b) = Len(a) + Len(b)
      /\ \A i \in 1 .. Len(a) + Len(b) :
           (a \o b)[i] = IF i <= Len(a) THEN a[i] ELSE b[i - Len(a)]
  BY ConcatProperties
<1>2. Len(a) \in Nat /\ Len(b) \in Nat
  OBVIOUS
<1>3. ASSUME NEW x \in ToSet(a \o b)
      PROVE  x \in ToSet(a) \cup ToSet(b)
  <2>1. PICK i \in 1 .. Len(a) + Len(b) : (a \o b)[i] = x
    BY <1>1, <1>3, InToSet
  <2>2. CASE i <= Len(a)
    <3>1. i \in 1 .. Len(a) /\ a[i] = x
      BY <1>1, <1>2, <2>1, <2>2
    <3> QED
      BY <3>1, InToSet
  <2>3. CASE ~(i <= Len(a))
    <3>1. i - Len(a) \in 1 .. Len(b) /\ b[i - Len(a)] = x
      BY <1>1, <1>2, <2>1, <2>3
    <3> QED
      BY <3>1, InToSet
  <2> QED
    BY <2>2, <2>3
<1>4. ASSUME NEW x \in ToSet(a)
      PROVE  x \in ToSet(a \o b)
  <2>1. PICK i \in 1 .. Len(a) : a[i] = x
    BY <1>4, InToSet
  <2>2. i \in 1 .. Len(a) + Len(b) /\ (a \o b)[i] = x
    BY <1>1, <1>2, <2>1
  <2> QED
    BY <1>1, <2>2, InToSet
<1>5. ASSUME NEW x \in ToSet(b)
      PROVE  x \in ToSet(a \o b)
  <2>1. PICK i \in 1 .. Len(b) : b[i] = x
    BY <1>5, InToSet
  <2>2. i + Len(a) \in 1 .. Len(a) + Len(b) /\ ~(i + Len(a) <= Len(a)) /\ i + Len(a) - Len(a) = i
    BY <1>2
  <2>3. (a \o b)[i + Len(a)] = x
    BY <1>1, <2>1, <2>2
  <2> QED
    BY <1>1, <2>2, <2>3, InToSet
<1> QED
  BY <1>1, <1>3, <1>4, <1>5

LEMMA IncreasingConcat ==
  ASSUME NEW a \in Seq(Segments), NEW b \in Seq(Segments)
  PROVE  Increasing(a \o b) <=> /\ Increasing(a) /\ Increasing(b)
                                /\ \A x \in ToSet(a), y \in ToSet(b) : x < y
<1>1. /\ a \o b \in Seq(Segments) /\ Len(a \o b) = Len(a) + Len(b)
      /\ \A i \in 1 .. Len(a) + Len(b) :
           (a \o b)[i] = IF i <= Len(a) THEN a[i] ELSE b[i - Len(a)]
  BY ConcatProperties
<1>2. Len(a) \in Nat /\ Len(b) \in Nat
  OBVIOUS
<1> DEFINE n == Len(a)
           m == Len(b)
           c == a \o b
<1>3. /\ n \in Nat /\ m \in Nat /\ Len(c) = n + m
      /\ \A i \in 1 .. n : c[i] = a[i]
      /\ \A j \in 1 .. m : c[n + j] = b[j]
  <2>1. \A i \in 1 .. n : i \in 1 .. n + m /\ i <= n
    BY <1>2
  <2>2. \A j \in 1 .. m : n + j \in 1 .. n + m /\ ~(n + j <= n) /\ n + j - n = j
    BY <1>2
  <2> QED
    BY <1>1, <1>2, <2>1, <2>2
<1>4. ASSUME Increasing(c)
      PROVE  /\ Increasing(a) /\ Increasing(b)
             /\ \A x \in ToSet(a), y \in ToSet(b) : x < y
  <2> HIDE DEF n, m, c
  <2>0. \A i, j \in 1 .. n + m : i < j => c[i] < c[j]
    BY <1>3, <1>4 DEF Increasing
  <2>1. \A i, j \in 1 .. n : i < j => a[i] < a[j]
    <3>1. \A i \in 1 .. n : i \in 1 .. n + m
      BY <1>3
    <3> QED
      BY <1>3, <2>0, <3>1
  <2>2. \A i, j \in 1 .. m : i < j => b[i] < b[j]
    <3>1. \A i, j \in 1 .. m : n + i \in 1 .. n + m /\ (i < j => n + i < n + j)
      BY <1>3
    <3> QED
      BY <1>3, <2>0, <3>1
  <2>3. \A i \in 1 .. n, j \in 1 .. m : a[i] < b[j]
    <3>1. \A i \in 1 .. n, j \in 1 .. m : i \in 1 .. n + m /\ n + j \in 1 .. n + m /\ i < n + j
      BY <1>3
    <3> QED
      BY <1>3, <2>0, <3>1
  <2> USE DEF n, m
  <2>4. ASSUME NEW x \in ToSet(a), NEW y \in ToSet(b)
        PROVE  x < y
    <3>1. PICK i \in 1 .. n : a[i] = x
      BY InToSet, <2>4
    <3>2. PICK j \in 1 .. m : b[j] = y
      BY InToSet, <2>4
    <3> QED
      BY <2>3, <3>1, <3>2
  <2> QED
    BY <2>1, <2>2, <2>4 DEF Increasing
<1>5. ASSUME /\ Increasing(a) /\ Increasing(b)
             /\ \A x \in ToSet(a), y \in ToSet(b) : x < y
      PROVE  Increasing(c)
  <2>1. \A i \in 1 .. n, j \in 1 .. m : a[i] < b[j]
    <3>1. \A i \in 1 .. n, j \in 1 .. m : a[i] \in ToSet(a) /\ b[j] \in ToSet(b)
      BY InToSet
    <3> QED
      BY <1>5, <3>1
  <2>2. (\A i, j \in 1 .. n : i < j => a[i] < a[j]) /\ (\A i, j \in 1 .. m : i < j => b[i] < b[j])
    BY <1>5 DEF Increasing
  <2> HIDE DEF n, m, c
  <2>3. ASSUME NEW i \in 1 .. n + m, NEW j \in 1 .. n + m, i < j
        PROVE  c[i] < c[j]
    <3>1. CASE j <= n
      <4>1. i \in 1 .. n /\ j \in 1 .. n
        BY <1>3, <2>3, <3>1
      <4> QED
        BY <1>3, <2>2, <2>3, <4>1
    <3>2. CASE i > n
      <4>1. i - n \in 1 .. m /\ j - n \in 1 .. m /\ i - n < j - n /\ n + (i - n) = i /\ n + (j - n) = j
        BY <1>3, <2>3, <3>2
      <4>2. c[i] = b[i - n] /\ c[j] = b[j - n]
        BY <1>3, <4>1
      <4> QED
        BY <2>2, <4>1, <4>2
    <3>3. CASE i <= n /\ j > n
      <4>1. i \in 1 .. n /\ j - n \in 1 .. m /\ n + (j - n) = j
        BY <1>3, <2>3, <3>3
      <4>2. c[i] = a[i] /\ c[j] = b[j - n]
        BY <1>3, <4>1
      <4> QED
        BY <2>1, <4>1, <4>2
    <3> QED
      BY <1>3, <3>1, <3>2, <3>3
  <2> QED
    BY <1>3, <2>3 DEF Increasing
<1> QED
  BY <1>4, <1>5

(* A sequence is its head and its tail.                                   *)
LEMMA HeadAndTail ==
  ASSUME NEW s \in Seq(Segments), s # <<>>
  PROVE  Head(s) \in Segments /\ Tail(s) \in Seq(Segments) /\ s = <<Head(s)>> \o Tail(s)
<1>1. Head(s) \in Segments /\ Tail(s) \in Seq(Segments)
  BY HeadTailProperties
<1>2. Len(s) \in Nat /\ Len(s) >= 1
  OBVIOUS
<1>3. 1 \in 1 .. Len(s) /\ Len(s) \in 1 .. Len(s)
  BY <1>2
<1>4. SubSeq(s, 1, Len(s)) = <<s[1]>> \o SubSeq(s, 1 + 1, Len(s))
  BY <1>3, SubSeqRecursiveFirst
<1>5. SubSeq(s, 1, Len(s)) = s /\ Tail(s) = SubSeq(s, 2, Len(s)) /\ Head(s) = s[1] /\ 1 + 1 = 2
  BY SubSeqFull, TailIsSubSeq
<1> QED
  BY <1>1, <1>4, <1>5

(* What follows a prefix, and the prefix. *)
LEMMA Parts ==
  ASSUME NEW a \in Seq(Segments), NEW b \in Seq(Segments)
  PROVE  /\ SubSeq(a \o b, 1, Len(a)) = a
         /\ SubSeq(a \o b, Len(a) + 1, Len(a \o b)) = b
         /\ IsPrefix(a, a \o b)
         /\ Len(a \o b) = Len(a) + Len(b)
<1>1. Len(a) \in Nat /\ Len(b) \in Nat /\ Len(a \o b) = Len(a) + Len(b)
  OBVIOUS
<1>2. SubSeq(a \o b, 1, Len(a)) = a
  <2>1. CASE a = <<>>
    <3>1. Len(a) = 0 /\ 1 \in Int /\ 0 \in Int /\ 0 < 1
      BY <2>1
    <3> QED
      BY <2>1, <3>1, SubSeqEmpty
  <2>2. CASE a # <<>>
    <3>1. 1 \in 1 .. Len(a) /\ Len(a) \in 1 .. Len(a)
      BY <1>1, <2>2
    <3> QED
      BY <3>1, SubSeqOfConcat1, SubSeqFull
  <2> QED
    BY <2>1, <2>2
<1>3. SubSeq(a \o b, Len(a) + 1, Len(a \o b)) = b
  <2>1. CASE b = <<>>
    <3>1. Len(b) = 0
      BY <2>1
    <3>2. Len(a) + 1 \in Int /\ Len(a \o b) \in Int /\ Len(a \o b) < Len(a) + 1
      BY <1>1, <3>1
    <3> QED
      BY <2>1, <3>2, SubSeqEmpty
  <2>2. CASE b # <<>>
    <3>1. Len(b) >= 1
      BY <2>2
    <3>2. /\ Len(a) + 1 \in Len(a) + 1 .. Len(a) + Len(b)
          /\ Len(a) + Len(b) \in Len(a) + 1 .. Len(a) + Len(b)
          /\ Len(a) + 1 - Len(a) = 1 /\ Len(a) + Len(b) - Len(a) = Len(b)
      BY <1>1, <3>1
    <3> QED
      BY <1>1, <3>2, SubSeqOfConcat2, SubSeqFull
  <2> QED
    BY <2>1, <2>2
<1>4. IsPrefix(a, a \o b)
  BY <1>1, <1>2, SubSeqFull DEF IsPrefix
<1> QED
  BY <1>1, <1>2, <1>3, <1>4

(* An end stays an end when both grow alike.                              *)
LEMMA EndsWithMore ==
  ASSUME NEW s \in Seq(Segments), NEW p \in Seq(Segments), NEW t \in Seq(Segments)
  PROVE  /\ EndsWith(s, <<>>)
         /\ EndsWith(s, p) => EndsWith(s \o t, p \o t)
         /\ EndsWith(<<>>, p) => p = <<>>
<1>1. EndsWith(s, <<>>)
  BY ConcatEmptySeq DEF EndsWith
<1>2. ASSUME NEW q \in Seq(Segments), s = q \o p
      PROVE  EndsWith(s \o t, p \o t)
  <2>1. (q \o p) \o t = q \o (p \o t)
    BY ConcatAssociative
  <2> QED
    BY <1>2, <2>1 DEF EndsWith
<1>3. ASSUME NEW q \in Seq(Segments), <<>> = q \o p
      PROVE  p = <<>>
  <2>1. Len(q) \in Nat /\ Len(p) \in Nat /\ Len(q \o p) = Len(q) + Len(p) /\ Len(<<>>) = 0
    OBVIOUS
  <2>2. Len(q \o p) = 0
    BY <1>3, <2>1
  <2>3. Len(p) = 0
    BY <2>1, <2>2
  <2> QED
    BY <2>3
<1> QED
  BY <1>1, <1>2, <1>3 DEF EndsWith

-----------------------------------------------------------------------------
(* What the windows hold, or are about to hold again (L), and what is still *)
(* coming (C): each window holds its segments once and in order, and what   *)
(* comes is in order and later than what any window holds.                  *)
Orderly(L, C, h) ==
  /\ \A w \in Windows : Increasing(L[w])
  /\ \A v, w \in Windows : v # w => ToSet(L[v]) \cap ToSet(L[w]) = {}
  /\ Increasing(C)
  /\ \A w \in Windows : \A x \in ToSet(L[w]) : x <= h /\ \A y \in ToSet(C) : x < y
  /\ \A y \in ToSet(C) : y <= h

(* Every segment is in its field, and what comes goes to the target t.     *)
AtHome(L, C, t, hm, sp) ==
  /\ \A w \in Windows : \A s \in ToSet(L[w]) : hm[s] \in {w, NoWindow}
  /\ t \in Fields => /\ sp \in {t, NoWindow}
                     /\ \A s \in ToSet(C) : hm[s] \in {t, NoWindow}

Accounted(L, C, h, d) ==
  \A s \in 1 .. h : s \in ToSet(C) \cup d \/ \E w \in Windows : s \in ToSet(L[w])

Put(L, t, p) == [L EXCEPT ![t] = @ \o p]

LEMMA SameWindows ==
  \A L, M \in [Windows -> Seq(Segments)] : (\A w \in Windows : L[w] = M[w]) => L = M
OBVIOUS

LEMMA Regroup ==
  \A a, b, c \in Seq(Segments) : (a \o b) \o c = a \o (b \o c)
BY ConcatAssociative

(* The first of what is coming is typed. *)
LEMMA TypedThere ==
  ASSUME NEW L \in [Windows -> Seq(Segments)], NEW t \in Fields,
         NEW p \in Seq(Segments), NEW C \in Seq(Segments), NEW h, NEW d, NEW hm, NEW sp
  PROVE  /\ Put(L, t, p) \in [Windows -> Seq(Segments)]
         /\ Orderly(L, p \o C, h) => Orderly(Put(L, t, p), C, h)
         /\ AtHome(L, p \o C, t, hm, sp) => AtHome(Put(L, t, p), C, t, hm, sp)
         /\ Accounted(L, p \o C, h, d) => Accounted(Put(L, t, p), C, h, d)
<1> DEFINE M == Put(L, t, p)
<1>1. t \in Windows /\ L[t] \in Seq(Segments)
  BY DEF Windows
<1>2. L[t] \o p \in Seq(Segments) /\ ToSet(L[t] \o p) = ToSet(L[t]) \cup ToSet(p)
  BY <1>1, ToSetConcat
<1>3. /\ M \in [Windows -> Seq(Segments)] /\ M[t] = L[t] \o p
      /\ \A w \in Windows : w # t => M[w] = L[w]
  BY <1>1, <1>2 DEF Put
<1>4. p \o C \in Seq(Segments) /\ ToSet(p \o C) = ToSet(p) \cup ToSet(C)
  BY ToSetConcat
<1>5. /\ ToSet(M[t]) = ToSet(L[t]) \cup ToSet(p)
      /\ \A w \in Windows : w # t => ToSet(M[w]) = ToSet(L[w])
  BY <1>2, <1>3
<1>6. ASSUME Orderly(L, p \o C, h)
      PROVE  Orderly(M, C, h)
  <2>1. Increasing(p) /\ Increasing(C) /\ \A x \in ToSet(p), y \in ToSet(C) : x < y
    BY <1>6, IncreasingConcat DEF Orderly
  <2>2. \A w \in Windows : \A x \in ToSet(L[w]) :
           x <= h /\ \A y \in ToSet(p) \cup ToSet(C) : x < y
    BY <1>4, <1>6 DEF Orderly
  <2>3. \A y \in ToSet(p) \cup ToSet(C) : y <= h
    BY <1>4, <1>6 DEF Orderly
  <2>4. \A w \in Windows : Increasing(M[w])
    <3>1. Increasing(L[t] \o p)
      BY <1>1, <1>6, <2>1, <2>2, IncreasingConcat DEF Orderly
    <3> QED
      BY <1>3, <1>6, <3>1 DEF Orderly
  <2>5. \A w \in Windows : ToSet(L[w]) \cap ToSet(p) = {}
    <3>1. \A w \in Windows : L[w] \in Seq(Segments)
      OBVIOUS
    <3>2. \A w \in Windows : ToSet(L[w]) \subseteq Nat
      BY <3>1, InToSet DEF Segments
    <3>3. \A x \in Nat : ~(x < x)
      OBVIOUS
    <3> QED
      BY <2>2, <3>2, <3>3
  <2>6. ASSUME NEW v \in Windows, NEW w \in Windows, v # w
        PROVE  ToSet(M[v]) \cap ToSet(M[w]) = {}
    <3>1. ToSet(L[v]) \cap ToSet(L[w]) = {}
      BY <1>6, <2>6 DEF Orderly
    <3>2. CASE v = t
      BY <1>5, <2>5, <2>6, <3>1, <3>2
    <3>3. CASE w = t
      BY <1>5, <2>5, <2>6, <3>1, <3>3
    <3>4. CASE v # t /\ w # t
      BY <1>5, <3>1, <3>4
    <3> QED
      BY <3>2, <3>3, <3>4
  <2>7. \A w \in Windows : \A x \in ToSet(M[w]) : x <= h /\ \A y \in ToSet(C) : x < y
    <3>1. \A x \in ToSet(M[t]) : x <= h /\ \A y \in ToSet(C) : x < y
      BY <1>1, <1>5, <2>1, <2>2, <2>3
    <3>2. \A w \in Windows : w # t => \A x \in ToSet(M[w]) : x <= h /\ \A y \in ToSet(C) : x < y
      BY <1>5, <2>2
    <3> QED
      BY <3>1, <3>2
  <2> HIDE DEF M
  <2> QED
    BY <2>1, <2>3, <2>4, <2>6, <2>7 DEF Orderly
<1>7. ASSUME AtHome(L, p \o C, t, hm, sp)
      PROVE  AtHome(M, C, t, hm, sp)
  <2>1. \A s \in ToSet(p) \cup ToSet(C) : hm[s] \in {t, NoWindow}
    BY <1>4, <1>7 DEF AtHome
  <2>2. \A w \in Windows : \A s \in ToSet(M[w]) : hm[s] \in {w, NoWindow}
    <3>1. \A s \in ToSet(M[t]) : hm[s] \in {t, NoWindow}
      BY <1>1, <1>5, <1>7, <2>1 DEF AtHome
    <3> QED
      BY <1>5, <1>7, <3>1 DEF AtHome
  <2> HIDE DEF M
  <2> QED
    BY <1>7, <2>1, <2>2 DEF AtHome
<1>8. ASSUME Accounted(L, p \o C, h, d)
      PROVE  Accounted(M, C, h, d)
  <2> SUFFICES ASSUME NEW s \in 1 .. h
               PROVE  s \in ToSet(C) \cup d \/ \E w \in Windows : s \in ToSet(M[w])
    BY DEF Accounted
  <2>1. s \in ToSet(p) \cup ToSet(C) \cup d \/ \E w \in Windows : s \in ToSet(L[w])
    BY <1>4, <1>8 DEF Accounted
  <2>2. \A w \in Windows : ToSet(L[w]) \subseteq ToSet(M[w])
    BY <1>5
  <2>3. ToSet(p) \subseteq ToSet(M[t])
    BY <1>5
  <2> HIDE DEF M
  <2> QED
    BY <1>1, <2>1, <2>2, <2>3
<1> QED
  BY <1>3, <1>6, <1>7, <1>8

(* One more segment is heard. *)
LEMMA HeardMore ==
  ASSUME NEW L \in [Windows -> Seq(Segments)], NEW C \in Seq(Segments), NEW h \in Nat,
         h + 1 \in Segments, NEW d, NEW t, NEW hm \in [Segments -> Targets], NEW sp \in Targets,
         Orderly(L, C, h)
  PROVE  /\ Orderly(L, C \o <<h + 1>>, h + 1)
         /\ AtHome(L, C, t, hm, sp) =>
              AtHome(L, C \o <<h + 1>>, t, [hm EXCEPT ![h + 1] = sp], sp)
         /\ Accounted(L, C, h, d) => Accounted(L, C \o <<h + 1>>, h + 1, d)
<1> DEFINE e == h + 1
           D == C \o <<e>>
<1>1. e \in Segments /\ e > h /\ <<e>> \in Seq(Segments) /\ ToSet(<<e>>) = {e} /\ Increasing(<<e>>)
  BY EmptyAndSingle
<1>2. D \in Seq(Segments) /\ ToSet(D) = ToSet(C) \cup {e}
  BY <1>1, ToSetConcat
<1>3. \A w \in Windows : L[w] \in Seq(Segments) /\ ToSet(L[w]) \subseteq Nat
  BY InToSet DEF Segments
<1>4. ToSet(C) \subseteq Nat
  BY InToSet DEF Segments
<1>5. /\ \A w \in Windows : \A x \in ToSet(L[w]) : x < e /\ x <= e /\ x # e
      /\ \A x \in ToSet(C) : x < e /\ x <= e /\ x # e
  <2>1. \A x \in Nat : x <= h => x < e /\ x <= e /\ x # e
    OBVIOUS
  <2> HIDE DEF e
  <2> QED
    BY <1>3, <1>4, <2>1 DEF Orderly
<1>6. Orderly(L, D, e)
  <2>1. Increasing(D)
    <3>1. \A x \in ToSet(C), y \in ToSet(<<e>>) : x < y
      BY <1>1, <1>5
    <3> QED
      BY <1>1, <3>1, IncreasingConcat DEF Orderly
  <2>2. e <= e
    BY <1>1 DEF Segments
  <2> HIDE DEF e, D
  <2> QED
    BY <1>2, <1>5, <2>1, <2>2 DEF Orderly
<1>7. ASSUME AtHome(L, C, t, hm, sp)
      PROVE  AtHome(L, D, t, [hm EXCEPT ![e] = sp], sp)
  <2> DEFINE km == [hm EXCEPT ![e] = sp]
  <2>1. km[e] = sp /\ \A s \in Segments : s # e => km[s] = hm[s]
    BY <1>1
  <2>2. ToSet(C) \subseteq Segments /\ \A w \in Windows : ToSet(L[w]) \subseteq Segments
    BY <1>3, InToSet
  <2> HIDE DEF km, e, D
  <2>3. \A w \in Windows : \A s \in ToSet(L[w]) : km[s] \in {w, NoWindow}
    BY <1>5, <1>7, <2>1, <2>2 DEF AtHome
  <2>4. t \in Fields => sp \in {t, NoWindow} /\ \A s \in ToSet(D) : km[s] \in {t, NoWindow}
    BY <1>2, <1>5, <1>7, <2>1, <2>2 DEF AtHome
  <2>5. AtHome(L, D, t, km, sp)
    BY <2>3, <2>4 DEF AtHome
  <2> QED
    BY <2>5 DEF km
<1>8. ASSUME Accounted(L, C, h, d)
      PROVE  Accounted(L, D, e, d)
  <2>1. \A s \in 1 .. e : s \in 1 .. h \/ s = e
    OBVIOUS
  <2> HIDE DEF e, D
  <2> QED
    BY <1>2, <1>8, <2>1 DEF Accounted
<1> QED
  BY <1>6, <1>7, <1>8

(* A segment without text, or that could not be typed. *)
LEMMA LeftOut ==
  ASSUME NEW L \in [Windows -> Seq(Segments)], NEW a \in Seq(Segments),
         NEW b \in Seq(Segments), NEW e \in Segments, NEW h, NEW d, NEW t, NEW hm, NEW sp
  PROVE  /\ Orderly(L, a \o (<<e>> \o b), h) => Orderly(L, a \o b, h)
         /\ AtHome(L, a \o (<<e>> \o b), t, hm, sp) => AtHome(L, a \o b, t, hm, sp)
         /\ Accounted(L, a \o (<<e>> \o b), h, d) => Accounted(L, a \o b, h, d \cup {e})
<1> DEFINE B == <<e>> \o b
           C == a \o B
           D == a \o b
<1>1. <<e>> \in Seq(Segments) /\ ToSet(<<e>>) = {e}
  BY EmptyAndSingle
<1>2. B \in Seq(Segments) /\ ToSet(B) = {e} \cup ToSet(b)
  BY <1>1, ToSetConcat
<1>3. ToSet(C) = ToSet(a) \cup {e} \cup ToSet(b)
  <2> HIDE DEF B
  <2>1. ToSet(a \o B) = ToSet(a) \cup ToSet(B)
    BY <1>2, ToSetConcat
  <2> QED
    BY <1>2, <2>1
<1>4. ToSet(D) = ToSet(a) \cup ToSet(b)
  BY ToSetConcat
<1>5. Increasing(C) => Increasing(D)
  <2>1. Increasing(C) => Increasing(a) /\ Increasing(B) /\ \A x \in ToSet(a), y \in ToSet(B) : x < y
    BY <1>2, IncreasingConcat
  <2>2. Increasing(B) => Increasing(b)
    BY <1>1, IncreasingConcat
  <2>3. Increasing(a) /\ Increasing(b) /\ (\A x \in ToSet(a), y \in ToSet(b) : x < y)
        => Increasing(D)
    BY IncreasingConcat
  <2> QED
    BY <1>2, <2>1, <2>2, <2>3
<1> HIDE DEF B, C, D
<1>6. Orderly(L, C, h) => Orderly(L, D, h)
  BY <1>3, <1>4, <1>5 DEF Orderly
<1>7. AtHome(L, C, t, hm, sp) => AtHome(L, D, t, hm, sp)
  BY <1>3, <1>4 DEF AtHome
<1>8. Accounted(L, C, h, d) => Accounted(L, D, h, d \cup {e})
  BY <1>3, <1>4 DEF Accounted
<1> QED
  BY <1>6, <1>7, <1>8 DEF B, C, D

(* The end of what a window holds is gone. *)
LEMMA EndIsGone ==
  ASSUME NEW L \in [Windows -> Seq(Segments)], NEW M \in [Windows -> Seq(Segments)],
         NEW C, NEW h, NEW t, NEW hm, NEW sp,
         \A w \in Windows : \E p \in Seq(Segments) : L[w] = M[w] \o p
  PROVE  /\ Orderly(L, C, h) => Orderly(M, C, h)
         /\ AtHome(L, C, t, hm, sp) => AtHome(M, C, t, hm, sp)
<1>1. ASSUME NEW w \in Windows
      PROVE  /\ ToSet(M[w]) \subseteq ToSet(L[w])
             /\ Increasing(L[w]) => Increasing(M[w])
  <2>1. PICK p \in Seq(Segments) : L[w] = M[w] \o p
    OBVIOUS
  <2> QED
    BY <2>1, ToSetConcat, IncreasingConcat
<1>2. Orderly(L, C, h) => Orderly(M, C, h)
  BY <1>1 DEF Orderly
<1>3. AtHome(L, C, t, hm, sp) => AtHome(M, C, t, hm, sp)
  BY <1>1 DEF AtHome
<1> QED
  BY <1>2, <1>3

-----------------------------------------------------------------------------
(* While no race moves text.  A window counts with the text that a rewrite  *)
(* has deleted from it and will put back; a flush has not typed the rest of *)
(* the buffer yet.                                                         *)
Removed == IF finish.deleted = TRUE THEN finish.text ELSE <<>>
Line == [w \in Windows |-> IF w = target THEN typed[w] \o Removed ELSE typed[w]]

LeftOver(rest) ==
  /\ \A f \in Flushes : flush[f].pc = "consume" => buffer = flush[f].text \o rest
  /\ (\A f \in Flushes : flush[f].pc # "consume") => rest = buffer

InHand == IF worker.pc \in {"work", "decide", "append", "type"} THEN <<worker.seg>> ELSE <<>>
Coming(rest) == rest \o (InHand \o queue)

(* What the field of the session holds and what waits for it. *)
Reaching(rest) == IF target \in Fields THEN Line[target] \o rest ELSE rest

CalmData(rest) ==
  /\ LeftOver(rest)
  /\ Orderly(Line, Coming(rest), heard)
  /\ AtHome(Line, Coming(rest), target, home, spot)
  /\ failures <= 1 => Accounted(Line, Coming(rest), heard, dropped)
  /\ EndsWith(Reaching(rest), phase1.text)
  /\ finish.by # "none" => EndsWith(Line[target], finish.text)

(* A take is rewritten when nothing of it is on its way any more. *)
RewriteAlone ==
  /\ finish.by # "none" =>
       /\ pending = 0 /\ buffer = <<>> /\ capture \in {"closed", "queued"}
       /\ phase1.text = <<>> /\ target \in Fields
  /\ finish.deleted = TRUE /\ finish.pc = "restore" => failures > 0
  /\ phase1.text # <<>> => phase1.active = TRUE

(* Who types knows the field, and a flush types the head of the buffer.    *)
TypingInField ==
  /\ \A f, g \in FlushesBusy : f = g
  /\ \A f \in Flushes : flush[f].pc \in {"type", "consume"} =>
       /\ flush[f].text # <<>> /\ target \in Fields
       /\ \E r \in Seq(Segments) : buffer = flush[f].text \o r
  /\ worker.pc = "type" => target \in Fields

CalmInv ==
  Calm => /\ RewriteAlone /\ TypingInField /\ misdeleted = FALSE
          /\ \E rest \in Seq(Segments) : CalmData(rest)

(* A step without one of the races that move text. *)
QuietStep ==
  /\ target' # target => ~Underway
  /\ \A f, g \in FlushesBusy' : f = g
  /\ worker.pc = "type" /\ typed' # typed => buffer = <<>>
  /\ finish'.by # "none" => /\ ~(pending' > 0) /\ buffer' = <<>>
                            /\ capture' \in {"closed", "queued"}

(* After a step that leaves the run without a race, there was none before.  *)
LEMMA CalmIsQuiet ==
  ASSUME Notes, Calm'
  PROVE  Calm /\ QuietStep
<1>1. races' = races \cup {k \in Races : Race(k)} /\ races' \subseteq {"glance", "restart"}
  BY DEF Notes, Calm
<1>2. ~Race("retarget") /\ ~Race("overlap") /\ ~Race("overtake") /\ ~Race("straddle")
  <2>1. \A k \in {"retarget", "overlap", "overtake", "straddle"} :
           k \in Races /\ k \notin {"glance", "restart"}
    BY DEF Races
  <2> HIDE DEF Race
  <2>2. \A k \in {"retarget", "overlap", "overtake", "straddle"} : ~Race(k)
    BY <1>1, <2>1
  <2> QED
    BY <2>2
<1>3. target' # target => ~Underway
  BY <1>2 DEF Race
<1>4. \A f, g \in FlushesBusy' : f = g
  BY <1>2 DEF Race
<1>5. worker.pc = "type" /\ typed' # typed => buffer = <<>>
  BY <1>2 DEF Race
<1>6. finish'.by # "none" => /\ ~(pending' > 0) /\ buffer' = <<>>
                             /\ capture' \in {"closed", "queued"}
  <2>1. ~(finish'.by # "none" /\ (pending' > 0 \/ buffer' # <<>>
                                  \/ capture' \notin {"closed", "queued"}))
    BY <1>2 DEF Race
  <2> QED
    BY <2>1
<1> QED
  BY <1>1, <1>3, <1>4, <1>5, <1>6 DEF Calm, QuietStep

(* A step that is none of a flush task that types or has typed. *)
LEMMA LeftOverKept ==
  ASSUME NEW rest, LeftOver(rest), buffer' = buffer,
         \A f \in Flushes : /\ flush'[f].pc = "consume" <=> flush[f].pc = "consume"
                            /\ flush[f].pc = "consume" => flush'[f].text = flush[f].text
  PROVE  LeftOver(rest)'
BY DEF LeftOver

(* While nothing is under way, nothing comes and nothing is removed. *)
LEMMA NothingUnderway ==
  ASSUME Base, ~Underway, NEW rest, LeftOver(rest)
  PROVE  /\ rest = <<>> /\ Coming(rest) = <<>> /\ phase1.text = <<>>
         /\ finish = NotFinishing /\ Removed = <<>>
<1>1. ~(pending > 0) /\ buffer = <<>> /\ phase1.text = <<>> /\ finish.by = "none"
      /\ FlushesBusy = {}
  BY DEF Underway
<1>2. finish = NotFinishing
  BY <1>1 DEF Base, FinishInv
<1>3. Removed = <<>>
  BY <1>2 DEF Removed, NotFinishing
<1>4. rest = <<>>
  BY <1>1 DEF LeftOver, FlushesBusy
<1>5. queue = <<>> /\ worker.pc \notin Busy
  <2>1. pending \in Nat /\ Len(queue) \in Nat /\ queue \in Seq(Segments)
        /\ pending = Len(queue) + (IF worker.pc \in Busy THEN 1 ELSE 0)
    BY DEF Base, Ground, Types, JobTypes, PendingExact
  <2>2. Len(queue) = 0 /\ worker.pc \notin Busy
    BY <1>1, <2>1
  <2> QED
    BY <2>1, <2>2
<1>6. Coming(rest) = <<>>
  <2>1. InHand = <<>>
    BY <1>5 DEF InHand, Busy
  <2>2. <<>> \o (<<>> \o <<>>) = <<>>
    BY EmptyAndSingle, ConcatEmptySeq
  <2> QED
    BY <1>4, <1>5, <2>1, <2>2 DEF Coming
<1> QED
  BY <1>1, <1>2, <1>3, <1>4, <1>6

(* What the windows hold, with the text a rewrite removed.                *)
LEMMA LineTypes ==
  ASSUME Base
  PROVE  /\ Removed \in Seq(Segments)
         /\ Line \in [Windows -> Seq(Segments)]
         /\ \A w \in Windows : /\ typed[w] \in Seq(Segments)
                               /\ w # target => Line[w] = typed[w]
                               /\ w = target => Line[w] = typed[w] \o Removed
                               /\ Removed = <<>> => Line[w] = typed[w]
<1>1. typed \in [Windows -> Seq(Segments)] /\ finish.text \in Seq(Segments)
  BY DEF Base, Ground, Types, FieldTypes, FinishTypes
<1>2. Removed \in Seq(Segments)
  BY <1>1, EmptyAndSingle DEF Removed
<1>3. \A w \in Windows : typed[w] \o Removed \in Seq(Segments) /\ typed[w] \o <<>> = typed[w]
  BY <1>1, <1>2, ConcatEmptySeq, ToSetConcat
<1> HIDE DEF Removed
<1> QED
  BY <1>1, <1>2, <1>3 DEF Line

(* Nothing is typed and no text moves. *)
LEMMA SameLine ==
  ASSUME Base, Base', typed' = typed, UNCHANGED <<Removed>>, target' = target \/ Removed = <<>>
  PROVE  Line' = Line
<1>1. CASE target' = target
  BY <1>1 DEF Line
<1>2. CASE Removed = <<>>
  <2>1. \A w \in Windows : typed[w] \o <<>> = typed[w]
    BY LineTypes, ConcatEmptySeq
  <2> HIDE DEF Removed
  <2> QED
    BY <1>2, <2>1 DEF Line
<1> QED
  BY <1>1, <1>2

(* What is still to be typed is a sequence of segments.                   *)
LEMMA ComingTypes ==
  ASSUME Base, NEW rest \in Seq(Segments)
  PROVE  /\ InHand \in Seq(Segments) /\ queue \in Seq(Segments)
         /\ InHand \o queue \in Seq(Segments) /\ Coming(rest) \in Seq(Segments)
<1>1. queue \in Seq(Segments) /\ (worker.pc \in Busy => worker.seg \in Segments)
  BY DEF Base, Ground, Types, JobTypes
<1>2. InHand \in Seq(Segments)
  BY <1>1, EmptyAndSingle DEF InHand, Busy
<1>3. InHand \o queue \in Seq(Segments)
  BY <1>1, <1>2, ToSetConcat
<1> QED
  BY <1>1, <1>2, <1>3, ToSetConcat DEF Coming

(* A step that moves no text keeps what holds of the text. *)
LEMMA StillCalm ==
  ASSUME Base, Base', NEW rest \in Seq(Segments), CalmData(rest), LeftOver(rest)',
         Line' = Line, Coming(rest)' = Coming(rest), UNCHANGED <<heard, home, dropped>>,
         failures' <= 1 => failures <= 1,
         target' = target \/ ~Underway,
         target' = NoWindow \/ spot' = target' \/ (target' = target /\ spot' = spot),
         phase1'.text \in {phase1.text, <<>>},
         finish'.by # "none" => EndsWith(Line[target'], finish'.text)
  PROVE  CalmData(rest)'
<1>0. target \in Targets /\ target' \in Targets /\ NoWindow \notin Fields
  BY DeferAssumption DEF Base, Ground, Types, FieldTypes, Windows
<1>1. Orderly(Line, Coming(rest), heard)'
  BY DEF CalmData
<1>2. AtHome(Line, Coming(rest), target, home, spot)'
  <2>1. AtHome(Line, Coming(rest), target, home, spot)
    BY DEF CalmData
  <2>2. ToSet(Coming(rest)) = {} \/ target' = target
    <3>1. ~Underway => Coming(rest) = <<>>
      BY NothingUnderway DEF CalmData
    <3> QED
      BY <3>1, EmptyAndSingle
  <2>3. AtHome(Line, Coming(rest), target', home, spot')
    BY <1>0, <2>1, <2>2 DEF AtHome
  <2> QED
    BY <2>3
<1>3. (failures <= 1 => Accounted(Line, Coming(rest), heard, dropped))'
  BY DEF CalmData
<1>4. EndsWith(Reaching(rest), phase1.text)'
  <2>1. Line \in [Windows -> Seq(Segments)]
    BY LineTypes
  <2>2. \A t \in Fields : Line[t] \o rest \in Seq(Segments)
    BY <2>1, ToSetConcat DEF Windows
  <2>3. Reaching(rest)' \in Seq(Segments)
    BY <2>2 DEF Reaching
  <2>4. CASE phase1'.text = <<>>
    BY <2>3, <2>4, EndsWithMore
  <2>5. CASE phase1'.text # <<>>
    <3>1. phase1'.text = phase1.text /\ target' = target
      BY <2>5, NothingUnderway DEF CalmData
    <3>2. Reaching(rest)' = Reaching(rest)
      BY <3>1 DEF Reaching
    <3> QED
      BY <3>1, <3>2 DEF CalmData
  <2> QED
    BY <2>4, <2>5
<1>5. (finish.by # "none" => EndsWith(Line[target], finish.text))'
  OBVIOUS
<1> QED
  BY <1>1, <1>2, <1>3, <1>4, <1>5 DEF CalmData

(* A step of the user, who may begin a take, end it, or change windows.    *)
LEMMA CalmUser ==
  ASSUME Base, Base', User, QuietStep, NEW rest \in Seq(Segments), CalmData(rest)
  PROVE  CalmData(rest)'
<1>1. UNCHANGED <<worker, flush, finish, typed, dropped, failures>>
  BY DEF User, MoveFocus, ShowSettings, PressKey, OpenTake, ShowListening,
     EndTake, SpeechStarted, SpeechEnded, TakeQueued, TakeSilent, Released, pipelineVars,
     rewriteVars
<1>2. buffer' = buffer
  <2>1. CaptureTarget => buffer' = buffer
    BY DEF CaptureTarget, Retained
  <2> QED
    BY <2>1 DEF User, MoveFocus, ShowSettings, PressKey, OpenTake, ShowListening,
       EndTake, SpeechStarted, SpeechEnded, TakeQueued, TakeSilent, Released
<1>3. LeftOver(rest) /\ LeftOver(rest)'
  BY <1>1, <1>2 DEF LeftOver, CalmData
<1>4. target' = target \/ ~Underway
  BY DEF QuietStep
<1>5. Line' = Line
  <2>1. Removed' = Removed
    BY <1>1 DEF Removed
  <2> QED
    BY <1>1, <1>3, <1>4, <2>1, NothingUnderway, SameLine
<1>6. finish'.by # "none" => EndsWith(Line[target'], finish'.text)
  <2>1. finish.by # "none" => Underway
    BY DEF Underway
  <2> QED
    BY <1>1, <1>4, <2>1 DEF CalmData
<1>7. phase1'.text \in {phase1.text, <<>>}
  <2>1. phase1' = phase1 \/ phase1' = [active |-> TRUE, text |-> <<>>]
    BY DEF User, MoveFocus, ShowSettings, PressKey, OpenTake, ShowListening,
       EndTake, SpeechStarted, SpeechEnded, TakeQueued, TakeSilent, Released, rewriteVars
  <2> QED
    BY <2>1
<1>8. CASE ~(SpeechEnded \/ TakeQueued)
  <2>1. UNCHANGED <<queue, heard, home>>
    BY <1>8 DEF User, MoveFocus, ShowSettings, PressKey, OpenTake, ShowListening,
       EndTake, SpeechStarted, TakeSilent, Released, takeVars, pipelineVars
  <2>2. target' = NoWindow \/ spot' = target' \/ (target' = target /\ spot' = spot)
    BY <1>8 DEF User, MoveFocus, ShowSettings, PressKey, OpenTake, ShowListening, BeginSession,
       EndTake, SpeechStarted, TakeSilent, Released, takeVars, fieldVars
  <2>3. Coming(rest)' = Coming(rest)
    BY <1>1, <2>1 DEF Coming, InHand
  <2> QED
    BY <1>1, <1>3, <1>4, <1>5, <1>6, <1>7, <2>1, <2>2, <2>3, StillCalm
<1>9. CASE SpeechEnded \/ TakeQueued
  <2>1. /\ speaking = TRUE /\ Enqueued
        /\ UNCHANGED <<target, spot, phase1>>
    BY <1>9 DEF SpeechEnded, TakeQueued, fieldVars, rewriteVars
  <2>2. /\ heard \in Nat /\ heard + 1 \in Segments /\ heard' = heard + 1
        /\ home \in [Segments -> Targets] /\ spot \in Targets
    BY <2>1 DEF Base, Ground, Types, TakeTypes, Enqueued, Segments
  <2>3. Coming(rest)' = Coming(rest) \o <<heard + 1>>
    <3> DEFINE e == heard + 1
    <3>1. queue \in Seq(Segments) /\ InHand \in Seq(Segments) /\ InHand \o queue \in Seq(Segments)
          /\ <<e>> \in Seq(Segments)
      BY <2>2, ComingTypes, EmptyAndSingle
    <3>2. queue' = Append(queue, e)
      BY <2>1 DEF Enqueued
    <3>3. queue' = queue \o <<e>>
      BY <2>2, <3>1, <3>2, AppendIsConcat
    <3>4. InHand' = InHand
      BY <1>1 DEF InHand
    <3> HIDE DEF e
    <3>5. InHand \o (queue \o <<e>>) = (InHand \o queue) \o <<e>>
      BY <3>1, ConcatAssociative
    <3>6. rest \o ((InHand \o queue) \o <<e>>) = (rest \o (InHand \o queue)) \o <<e>>
      BY <3>1, ConcatAssociative
    <3>7. Coming(rest)' = (rest \o (InHand \o queue)) \o <<e>>
      BY <3>3, <3>4, <3>5, <3>6 DEF Coming
    <3> QED
      BY <3>7 DEF Coming, e
  <2>4. Line \in [Windows -> Seq(Segments)] /\ Coming(rest) \in Seq(Segments)
    BY LineTypes, ComingTypes
  <2>5. home' = [home EXCEPT ![heard + 1] = spot]
    BY <2>1 DEF Enqueued
  <2>6. /\ Orderly(Line, Coming(rest) \o <<heard + 1>>, heard + 1)
        /\ AtHome(Line, Coming(rest) \o <<heard + 1>>, target, home', spot)
        /\ failures <= 1 =>
             Accounted(Line, Coming(rest) \o <<heard + 1>>, heard + 1, dropped)
    BY <2>2, <2>4, <2>5, HeardMore DEF CalmData
  <2>7. Reaching(rest)' = Reaching(rest)
    BY <1>5, <2>1 DEF Reaching
  <2>8. /\ Orderly(Line, Coming(rest), heard)'
        /\ AtHome(Line, Coming(rest), target, home, spot)'
        /\ (failures <= 1 => Accounted(Line, Coming(rest), heard, dropped))'
    BY <1>1, <1>5, <2>1, <2>2, <2>3, <2>6
  <2>9. EndsWith(Reaching(rest), phase1.text)'
    BY <2>1, <2>7 DEF CalmData
  <2> QED
    BY <1>3, <1>5, <1>6, <2>8, <2>9 DEF CalmData
<1> QED
  BY <1>8, <1>9

LEMMA PreparedInField ==
  ASSUME Base, RestoreFails = FALSE, target \in Fields, Prepare
  PROVE  target' = target /\ focus' = target
BY DeferAssumption DEF Prepare, Windows

(* A step fails at most one call, and a failure is counted.               *)
LEMMA FailuresGrow ==
  ASSUME Base, failures' = failures \/ Fails
  PROVE  /\ failures' <= 1 => failures <= 1
         /\ Fails => failures' > 0 /\ (failures > 0 => failures' > 1)
<1>1. failures \in Nat
  <2>1. failures \in 0 .. MaxFailures
    BY DEF Base, Ground, Types, FieldTypes
  <2> QED
    BY <2>1
<1>2. failures' = failures \/ failures' = failures + 1
  BY DEF Fails
<1>3. Fails => failures' = failures + 1
  BY DEF Fails
<1> QED
  BY <1>1, <1>2, <1>3

(* Typed text is the end of the field, and of what phase one noted.       *)
LEMMA RecordedEnds ==
  ASSUME Base, RewriteAlone, NEW e \in Segments, phase1' = Recorded(e),
         NEW s \in Seq(Segments), EndsWith(s, phase1.text)
  PROVE  EndsWith(s \o <<e>>, phase1'.text)
<1>1. phase1 \in [active : BOOLEAN, text : Seq(Segments)] /\ <<e>> \in Seq(Segments)
  BY EmptyAndSingle DEF Base, Ground, Types, TakeTypes
<1>2. CASE mode.ai /\ phase1.active
  <2>1. phase1'.text = Append(phase1.text, e)
    BY <1>1, <1>2 DEF Recorded
  <2>2. phase1'.text = phase1.text \o <<e>>
    BY <1>1, <2>1, AppendIsConcat
  <2> QED
    BY <1>1, <2>2, EndsWithMore
<1>3. CASE ~(mode.ai /\ phase1.active)
  <2>1. phase1.text = <<>>
    BY <1>3 DEF RewriteAlone, Base, FinishInv
  <2>2. phase1'.text = <<>>
    BY <1>3, <2>1 DEF Recorded
  <2>3. s \o <<e>> \in Seq(Segments)
    BY <1>1, ToSetConcat
  <2> QED
    BY <2>2, <2>3, EndsWithMore
<1> QED
  BY <1>2, <1>3

(* No flush is between typing and consuming while the buffer is empty. *)
LEMMA RestIsEmpty ==
  ASSUME Base, TypingInField, NEW rest, LeftOver(rest), buffer = <<>>
  PROVE  rest = <<>>
<1>1. ASSUME NEW f \in Flushes, flush[f].pc = "consume"
      PROVE  FALSE
  <2>1. flush[f].text \in Seq(Segments) /\ flush[f].text # <<>>
    BY <1>1 DEF TypingInField, Base, Ground, Types, JobTypes
  <2>2. PICK r \in Seq(Segments) : buffer = flush[f].text \o r
    BY <1>1 DEF TypingInField
  <2>3. flush[f].text \o r # <<>>
    BY <2>1, ConcatEqualIffEmpty
  <2> QED
    BY <2>2, <2>3
<1> QED
  BY <1>1 DEF LeftOver

(* Steps of the worker that move a job on and no text.                    *)
LEMMA WorkerStill ==
  ASSUME Base, Base', QuietStep, NEW rest \in Seq(Segments), CalmData(rest),
         TakeJob \/ TextReady \/ Decide \/ SettleFailed \/ FinishJob \/ RecoverJob \/ EndJob
  PROVE  CalmData(rest)'
<1>1. UNCHANGED <<finish, typed, dropped, failures, phase1, buffer, flush, heard, home, spot>>
  BY DEF TakeJob, TextReady, Decide, SettleFailed, FinishJob, RecoverJob, EndJob,
     KeepForWorker, takeVars
<1>2. LeftOver(rest) /\ LeftOver(rest)'
  BY <1>1 DEF LeftOver, CalmData
<1>3. target' = target \/ ~Underway
  BY DEF QuietStep
<1>4. Line' = Line
  <2>1. Removed' = Removed
    BY <1>1 DEF Removed
  <2> QED
    BY <1>1, <1>2, <1>3, <2>1, NothingUnderway, SameLine
<1>5. finish'.by # "none" => EndsWith(Line[target'], finish'.text)
  <2>1. finish.by # "none" => Underway
    BY DEF Underway
  <2> QED
    BY <1>1, <1>3, <2>1 DEF CalmData
<1>6. target' = NoWindow \/ target' = target
  BY DEF TakeJob, TextReady, Decide, SettleFailed, FinishJob, RecoverJob, EndJob,
     MaybeStopWatch, fieldVars
<1>7. InHand' \o queue' = InHand \o queue
  <2>1. worker \in [pc : WorkerPcs, seg : Segments \cup {0}] /\ queue \in Seq(Segments)
    BY DEF Base, Ground, Types, JobTypes
  <2>2. CASE TakeJob
    <3>1. /\ worker.pc = "idle" /\ queue # <<>> /\ queue' = Tail(queue)
          /\ worker'.pc = "work" /\ worker'.seg = Head(queue)
      BY <2>2 DEF TakeJob, WorkerAt
    <3>2. InHand = <<>> /\ InHand' = <<Head(queue)>>
      BY <3>1 DEF InHand
    <3>3. <<>> \o queue = queue /\ queue = <<Head(queue)>> \o Tail(queue)
      BY <2>1, <3>1, ConcatEmptySeq, HeadAndTail
    <3> QED
      BY <3>1, <3>2, <3>3
  <2>3. CASE TextReady \/ Decide
    <3>1. PICK pc \in {"decide", "append", "type"} : WorkerGoes(pc)
      BY <2>3 DEF TextReady, Decide
    <3>2. worker.pc \in {"work", "decide"} /\ queue' = queue
      BY <2>3 DEF TextReady, Decide, WorkerAt
    <3>3. worker'.pc = pc /\ worker'.seg = worker.seg
      BY <2>1, <3>1 DEF WorkerGoes
    <3> QED
      BY <3>2, <3>3 DEF InHand
  <2>4. CASE SettleFailed \/ FinishJob \/ RecoverJob \/ EndJob
    <3>1. PICK pc \in {"idle", "recover", "look"} : WorkerGoes(pc)
      BY <2>4 DEF SettleFailed, FinishJob, RecoverJob, EndJob
    <3>2. worker.pc \in {"failed", "finish", "recover", "end"} /\ queue' = queue
      BY <2>4 DEF SettleFailed, FinishJob, RecoverJob, EndJob, WorkerAt
    <3>3. worker'.pc = pc
      BY <2>1, <3>1 DEF WorkerGoes
    <3> QED
      BY <3>2, <3>3 DEF InHand
  <2> QED
    BY <2>2, <2>3, <2>4
<1>8. Coming(rest)' = Coming(rest)
  BY <1>7 DEF Coming
<1> QED
  BY <1>1, <1>2, <1>3, <1>4, <1>5, <1>6, <1>8, StillCalm

(* Steps of the worker that give its segment up.                          *)
LEMMA WorkerDrops ==
  ASSUME Base, Base', RestoreFails = FALSE, TypingInField, NEW rest \in Seq(Segments), CalmData(rest),
         NoText \/ TypeFails
  PROVE  CalmData(rest)'
<1> DEFINE e == worker.seg
<1>1. /\ worker.pc \in {"work", "type"}
      /\ UNCHANGED <<finish, typed, queue, phase1, buffer, flush, heard, home, spot>>
      /\ dropped' = dropped \cup {e}
  BY DEF NoText, TypeFails, KeepForWorker, WorkerAt, takeVars
<1>2. worker'.pc \in {"finish", "failed"}
  BY DEF NoText, TypeFails, WorkerGoes, Base, Ground, Types, JobTypes
<1>3. target' = target
  <2>1. NoText => target' = target
    BY DEF NoText, fieldVars
  <2>2. TypeFails => target \in Fields /\ Prepare
    BY DEF TypeFails, WorkerAt, TypingInField
  <2> QED
    BY <2>1, <2>2, PreparedInField
<1>4. failures' <= 1 => failures <= 1
  <2>1. failures' = failures \/ Fails
    BY DEF NoText, TypeFails
  <2> QED
    BY <2>1, FailuresGrow
<1>5. LeftOver(rest) /\ LeftOver(rest)'
  BY <1>1 DEF LeftOver, CalmData
<1>6. Line' = Line
  <2>1. Removed' = Removed
    BY <1>1 DEF Removed
  <2> QED
    BY <1>1, <1>3, <2>1, SameLine
<1>7. e \in Segments /\ queue \in Seq(Segments)
  BY <1>1 DEF Base, Ground, Types, JobTypes, Busy
<1>8. Coming(rest) = rest \o (<<e>> \o queue)
  BY <1>1 DEF Coming, InHand
<1>9. Coming(rest)' = rest \o queue
  <2>1. InHand' = <<>>
    BY <1>2 DEF InHand
  <2>2. <<>> \o queue = queue
    BY <1>7, ConcatEmptySeq
  <2> QED
    BY <1>1, <2>1, <2>2 DEF Coming
<1> HIDE DEF e
<1>10. Line \in [Windows -> Seq(Segments)]
  BY LineTypes
<1>11. /\ Orderly(Line, rest \o queue, heard)
       /\ AtHome(Line, rest \o queue, target, home, spot)
       /\ failures <= 1 => Accounted(Line, rest \o queue, heard, dropped \cup {e})
  <2>1. /\ Orderly(Line, rest \o (<<e>> \o queue), heard)
        /\ AtHome(Line, rest \o (<<e>> \o queue), target, home, spot)
        /\ failures <= 1 => Accounted(Line, rest \o (<<e>> \o queue), heard, dropped)
    BY <1>8 DEF CalmData
  <2> QED
    BY <1>7, <1>10, <2>1, LeftOut
<1>12. /\ Orderly(Line, Coming(rest), heard)'
       /\ AtHome(Line, Coming(rest), target, home, spot)'
       /\ (failures <= 1 => Accounted(Line, Coming(rest), heard, dropped))'
  BY <1>1, <1>3, <1>4, <1>6, <1>9, <1>11
<1>13. Reaching(rest)' = Reaching(rest)
  BY <1>3, <1>6 DEF Reaching
<1>14. /\ EndsWith(Reaching(rest), phase1.text)'
       /\ (finish.by # "none" => EndsWith(Line[target], finish.text))'
  BY <1>1, <1>3, <1>6, <1>13 DEF CalmData
<1> QED
  BY <1>5, <1>12, <1>14 DEF CalmData

(* The worker keeps its segment for later.                                *)
LEMMA WorkerAppends ==
  ASSUME Base, Base', RewriteAlone, NEW rest \in Seq(Segments), CalmData(rest), AppendDeferred,
         NEW e, e = worker.seg, NEW more, more = rest \o <<e>>
  PROVE  CalmData(more)'
<1>1. /\ worker.pc = "append" /\ buffer' = Append(buffer, e) /\ phase1' = Recorded(e)
      /\ UNCHANGED <<target, finish, typed, queue, dropped, failures, flush, heard, home, spot>>
  BY DEF AppendDeferred, KeepForWorker, WorkerAt, takeVars, fieldVars
<1>2. worker'.pc = "finish"
  BY DEF AppendDeferred, WorkerGoes, Base, Ground, Types, JobTypes
<1>3. /\ e \in Segments /\ queue \in Seq(Segments) /\ buffer \in Seq(Segments)
      /\ <<e>> \in Seq(Segments) /\ \A f \in Flushes : flush[f].text \in Seq(Segments)
  BY <1>1, EmptyAndSingle DEF Base, Ground, Types, JobTypes, Busy
<1>4. buffer' = buffer \o <<e>>
  BY <1>1, <1>3, AppendIsConcat
<1>5. Coming(rest) = rest \o (<<e>> \o queue)
  BY <1>1 DEF Coming, InHand
<1>6. more \in Seq(Segments)
  BY <1>3, ToSetConcat
<1>7. LeftOver(more)'
  <2>1. ASSUME NEW f \in Flushes, flush[f].pc = "consume"
        PROVE  buffer' = flush[f].text \o more
    <3>1. buffer = flush[f].text \o rest
      BY <2>1 DEF CalmData, LeftOver
    <3>2. flush[f].text \in Seq(Segments) /\ <<e>> \in Seq(Segments)
      BY <1>3
    <3>3. (flush[f].text \o rest) \o <<e>> = flush[f].text \o (rest \o <<e>>)
      BY <3>2, Regroup
    <3> QED
      BY <1>4, <3>1, <3>3
  <2>2. (\A f \in Flushes : flush[f].pc # "consume") => more = buffer'
    BY <1>4 DEF CalmData, LeftOver
  <2> QED
    BY <1>1, <2>1, <2>2 DEF LeftOver
<1>8. Coming(more)' = Coming(rest)
  <2>1. InHand' = <<>>
    BY <1>2 DEF InHand
  <2>2. <<>> \o queue = queue
    BY <1>3, ConcatEmptySeq
  <2>3. (rest \o <<e>>) \o queue = rest \o (<<e>> \o queue)
    BY <1>3, ConcatAssociative
  <2> QED
    BY <1>1, <1>5, <2>1, <2>2, <2>3 DEF Coming
<1>9. Line' = Line
  <2>1. Removed' = Removed
    BY <1>1 DEF Removed
  <2> QED
    BY <1>1, <2>1, SameLine
<1>10. Reaching(more)' = Reaching(rest) \o <<e>> /\ Reaching(rest) \in Seq(Segments)
  <2>1. ASSUME target \in Fields
        PROVE  /\ Line[target] \in Seq(Segments)
               /\ Line[target] \o more = (Line[target] \o rest) \o <<e>>
    <3>1. Line[target] \in Seq(Segments)
      BY <2>1, LineTypes DEF Windows
    <3>2. (Line[target] \o rest) \o <<e>> = Line[target] \o (rest \o <<e>>)
      BY <1>3, <3>1, Regroup
    <3> QED
      BY <3>1, <3>2
  <2> QED
    BY <1>1, <1>9, <2>1, ToSetConcat DEF Reaching
<1>11. EndsWith(Reaching(more), phase1.text)'
  <2>1. EndsWith(Reaching(rest) \o <<e>>, phase1'.text)
    BY <1>1, <1>3, <1>10, RecordedEnds DEF CalmData
  <2> QED
    BY <1>10, <2>1
<1>12. /\ Orderly(Line, Coming(more), heard)'
       /\ AtHome(Line, Coming(more), target, home, spot)'
       /\ (failures <= 1 => Accounted(Line, Coming(more), heard, dropped))'
       /\ (finish.by # "none" => EndsWith(Line[target], finish.text))'
  BY <1>1, <1>8, <1>9 DEF CalmData
<1> QED
  BY <1>7, <1>11, <1>12 DEF CalmData

(* What is typed in the field while no rewrite is under way. *)
LEMMA LinePut ==
  ASSUME Base, Base', finish = NotFinishing, finish' = finish, NEW p \in Seq(Segments),
         target \in Fields, target' = target, typed' = [typed EXCEPT ![target] = @ \o p]
  PROVE  /\ Line' = Put(Line, target, p)
         /\ Line'[target] = Line[target] \o p /\ Line[target] \in Seq(Segments)
<1>1. Removed = <<>> /\ Removed' = <<>> /\ target \in Windows
  BY DEF Removed, NotFinishing, Windows
<1>2. typed \in [Windows -> Seq(Segments)] /\ typed' \in [Windows -> Seq(Segments)]
  BY DEF Base, Ground, Types, FieldTypes
<1>3. Line \in [Windows -> Seq(Segments)] /\ \A w \in Windows : Line[w] = typed[w]
  BY <1>1, LineTypes
<1>4. Line' \in [Windows -> Seq(Segments)] /\ \A w \in Windows : Line'[w] = typed'[w]
  <2>1. Line' = [w \in Windows |-> IF w = target' THEN typed'[w] \o Removed' ELSE typed'[w]]
    BY DEF Line
  <2>2. \A w \in Windows : typed'[w] \in Seq(Segments) /\ typed'[w] \o <<>> = typed'[w]
    BY <1>2, ConcatEmptySeq
  <2> QED
    BY <1>1, <2>1, <2>2
<1>5. typed'[target] = typed[target] \o p /\ \A w \in Windows : w # target => typed'[w] = typed[w]
  BY <1>1, <1>2
<1>6. /\ Put(Line, target, p) \in [Windows -> Seq(Segments)]
      /\ Put(Line, target, p)[target] = Line[target] \o p
      /\ \A w \in Windows : w # target => Put(Line, target, p)[w] = Line[w]
  <2>1. Line[target] \o p \in Seq(Segments)
    BY <1>1, <1>3, ToSetConcat
  <2> QED
    BY <1>1, <1>3, <2>1 DEF Put
<1>7. \A w \in Windows : Line'[w] = Put(Line, target, p)[w]
  BY <1>1, <1>3, <1>4, <1>5, <1>6
<1> QED
  BY <1>1, <1>3, <1>4, <1>5, <1>6, <1>7, SameWindows

(* The worker types its segment.                                          *)
LEMMA WorkerTypes ==
  ASSUME Base, Base', RestoreFails = FALSE, RewriteAlone, TypingInField, QuietStep,
         NEW rest \in Seq(Segments), CalmData(rest), TypeText
  PROVE  CalmData(rest)'
<1> DEFINE e == worker.seg
<1>1. /\ worker.pc = "type" /\ phase1' = Recorded(e) /\ Prepare
      /\ typed' = [typed EXCEPT ![focus'] = Append(@, e)]
      /\ UNCHANGED <<finish, queue, dropped, buffer, failures, flush, heard, home, spot>>
  BY DEF TypeText, KeepForWorker, WorkerAt, takeVars
<1>2. worker'.pc = "finish"
  BY DEF TypeText, WorkerGoes, Base, Ground, Types, JobTypes
<1>3. /\ e \in Segments /\ queue \in Seq(Segments) /\ <<e>> \in Seq(Segments)
      /\ typed \in [Windows -> Seq(Segments)]
  BY <1>1, EmptyAndSingle DEF Base, Ground, Types, JobTypes, FieldTypes, Busy
<1>4. target \in Fields /\ target \in Windows /\ target' = target /\ focus' = target
  <2>1. target \in Fields
    BY <1>1 DEF TypingInField
  <2> QED
    BY <1>1, <2>1, PreparedInField DEF Windows
<1>5. Coming(rest) = rest \o (<<e>> \o queue)
  BY <1>1 DEF Coming, InHand
<1>6. typed' = [typed EXCEPT ![target] = @ \o <<e>>]
  <2>1. Append(typed[target], e) = typed[target] \o <<e>>
    BY <1>3, <1>4, AppendIsConcat
  <2> QED
    BY <1>1, <1>4, <2>1
<1>7. buffer = <<>>
  <2>1. Len(typed[target]) \in Nat /\ Len(typed'[target]) = Len(typed[target]) + 1
    BY <1>1, <1>3, <1>4
  <2>2. typed' # typed
    BY <2>1
  <2> QED
    BY <1>1, <2>2 DEF QuietStep
<1>8. rest = <<>> /\ LeftOver(rest)'
  BY <1>1, <1>7, RestIsEmpty DEF CalmData, LeftOver
<1>9. finish = NotFinishing
  <2>1. pending > 0
    <3>1. pending = Len(queue) + 1 /\ Len(queue) \in Nat
      BY <1>1, <1>3 DEF Base, Ground, PendingExact, Busy
    <3> QED
      BY <3>1
  <2> QED
    BY <2>1 DEF RewriteAlone, Base, FinishInv
<1>10. Line \in [Windows -> Seq(Segments)]
  BY LineTypes
<1> HIDE DEF e
<1>11. /\ Line' = Put(Line, target, <<e>>)
       /\ Line'[target] = Line[target] \o <<e>> /\ Line[target] \in Seq(Segments)
  BY <1>1, <1>3, <1>4, <1>6, <1>9, LinePut
<1>12. <<e>> \o queue = Coming(rest) /\ Coming(rest)' = queue
  <2>1. InHand' = <<>>
    BY <1>2 DEF InHand
  <2>2. <<>> \o queue = queue /\ <<e>> \o queue \in Seq(Segments)
    BY <1>3, ConcatEmptySeq, ToSetConcat
  <2>3. <<>> \o (<<e>> \o queue) = <<e>> \o queue
    BY <2>2, ConcatEmptySeq
  <2> QED
    BY <1>1, <1>5, <1>8, <2>1, <2>2, <2>3 DEF Coming
<1>13. /\ Orderly(Line, Coming(rest), heard)'
       /\ AtHome(Line, Coming(rest), target, home, spot)'
       /\ (failures <= 1 => Accounted(Line, Coming(rest), heard, dropped))'
  <2>1. /\ Orderly(Put(Line, target, <<e>>), queue, heard)
        /\ AtHome(Put(Line, target, <<e>>), queue, target, home, spot)
        /\ failures <= 1 => Accounted(Put(Line, target, <<e>>), queue, heard, dropped)
    BY <1>3, <1>4, <1>10, <1>12, TypedThere DEF CalmData
  <2> QED
    BY <1>1, <1>4, <1>11, <1>12, <2>1
<1>14. EndsWith(Reaching(rest), phase1.text)'
  <2>1. Line[target] \in Seq(Segments) /\ Line'[target] = Line[target] \o <<e>>
    BY <1>11
  <2>2. Reaching(rest) = Line[target] /\ Reaching(rest)' = Line[target] \o <<e>>
    BY <1>4, <1>8, <2>1, ConcatEmptySeq DEF Reaching
  <2>3. EndsWith(Line[target] \o <<e>>, phase1'.text)
    BY <1>1, <1>3, <2>1, <2>2, RecordedEnds DEF CalmData
  <2> QED
    BY <2>2, <2>3
<1>15. finish'.by = "none"
  BY <1>1, <1>9 DEF NotFinishing
<1> QED
  BY <1>8, <1>13, <1>14, <1>15 DEF CalmData

(* A step of the worker.                                                  *)
LEMMA CalmWorker ==
  ASSUME Base, Base', RestoreFails = FALSE, RewriteAlone, TypingInField, QuietStep, Worker,
         NEW rest \in Seq(Segments), CalmData(rest)
  PROVE  \E r \in Seq(Segments) : CalmData(r)'
<1>1. CASE AppendDeferred
  <2>1. worker.seg \in Segments
    BY <1>1 DEF AppendDeferred, WorkerAt, Base, Ground, Types, JobTypes, Busy
  <2>2. PICK e \in Segments : e = worker.seg
    BY <2>1
  <2>3. rest \o <<e>> \in Seq(Segments)
    BY EmptyAndSingle, ToSetConcat
  <2> QED
    BY <1>1, <2>2, <2>3, WorkerAppends
<1>2. CASE ~AppendDeferred
  BY <1>2, WorkerStill, WorkerDrops, WorkerTypes DEF Worker
<1> QED
  BY <1>1, <1>2

(* A step of the watch, which types nothing and takes nothing.             *)
LEMMA CalmWatch ==
  ASSUME Base, Base', Watch, NEW rest \in Seq(Segments), CalmData(rest)
  PROVE  CalmData(rest)'
<1>1. UNCHANGED <<target, finish, typed, dropped, failures, phase1, buffer, heard, home, spot,
                  worker, queue>>
  BY DEF Watch, WatchStarts, FieldLost, FieldRegained, KeepForWatch, takeVars, pipelineVars,
     rewriteVars
<1>2. \A f \in Flushes : /\ flush'[f].pc = "consume" <=> flush[f].pc = "consume"
                         /\ flush[f].pc = "consume" => flush'[f].text = flush[f].text
  <2>1. \/ flush' = flush
        \/ \E g \in Flushes : flush[g].pc = "idle" /\ flush' = [flush EXCEPT ![g].pc = "start"]
    BY DEF Watch, WatchStarts, FieldLost, FieldRegained
  <2>2. flush \in [Flushes -> [pc : FlushPcs, text : Seq(Segments)]]
    BY DEF Base, Ground, Types, JobTypes
  <2>3. ASSUME NEW g \in Flushes, flush[g].pc = "idle", flush' = [flush EXCEPT ![g].pc = "start"],
               NEW f \in Flushes
        PROVE  /\ flush'[f].pc = "consume" <=> flush[f].pc = "consume"
               /\ flush[f].pc = "consume" => flush'[f].text = flush[f].text
    BY <2>2, <2>3, FlushGoesOn DEF FlushPcs
  <2> QED
    BY <2>1, <2>3
<1>3. LeftOver(rest)'
  BY <1>1, <1>2, LeftOverKept DEF CalmData
<1>4. Line' = Line
  <2>1. Removed' = Removed
    BY <1>1 DEF Removed
  <2> QED
    BY <1>1, <2>1, SameLine
<1>5. Coming(rest)' = Coming(rest)
  BY <1>1 DEF Coming, InHand
<1>6. finish'.by # "none" => EndsWith(Line[target'], finish'.text)
  BY <1>1 DEF CalmData
<1> QED
  BY <1>1, <1>3, <1>4, <1>5, <1>6, StillCalm

(* Steps of a flush that type nothing and keep the buffer.                *)
LEMMA FlushStill ==
  ASSUME Base, Base', RestoreFails = FALSE, QuietStep, TypingInField,
         NEW rest \in Seq(Segments), CalmData(rest), NEW f \in Flushes,
         \/ FlushHasNothing(f) \/ FlushTooLate(f) \/ FlushSnapshot(f) \/ FlushFails(f)
         \/ FlushEnds(f)
  PROVE  CalmData(rest)'
<1>1. UNCHANGED <<finish, typed, dropped, phase1, buffer, heard, home, spot, worker, queue>>
  BY DEF FlushHasNothing, FlushTooLate, FlushSnapshot, FlushFails, FlushEnds, KeepForFlush,
     takeVars, pipelineVars, rewriteVars
<1>2. flush[f].pc # "consume"
  BY DEF FlushHasNothing, FlushTooLate, FlushSnapshot, FlushFails, FlushEnds, FlushAt
<1>3. \E r : r.pc # "consume" /\ flush' = [flush EXCEPT ![f] = r]
  BY DEF FlushHasNothing, FlushTooLate, FlushSnapshot, FlushFails, FlushEnds, FlushIdle
<1>4. LeftOver(rest)'
  <2>1. flush \in [Flushes -> [pc : FlushPcs, text : Seq(Segments)]]
    BY DEF Base, Ground, Types, JobTypes
  <2>2. \A g \in Flushes : /\ flush'[g].pc = "consume" <=> flush[g].pc = "consume"
                           /\ flush[g].pc = "consume" => flush'[g].text = flush[g].text
    BY <1>2, <1>3, <2>1
  <2> QED
    BY <1>1, <2>2, LeftOverKept DEF CalmData
<1>5. target' = target \/ (target' = NoWindow /\ ~Underway)
  <2>1. FlushFails(f) => target' = target
    <3>1. FlushFails(f) => target \in Fields /\ Prepare
      BY DEF FlushFails, FlushAt, TypingInField
    <3> QED
      BY <3>1, PreparedInField
  <2>2. ~FlushFails(f) => target' = target \/ target' = NoWindow
    BY DEF FlushHasNothing, FlushTooLate, FlushSnapshot, FlushEnds, MaybeStopWatch, fieldVars
  <2> QED
    BY <2>1, <2>2 DEF QuietStep
<1>6. failures' <= 1 => failures <= 1
  <2>1. failures' = failures \/ Fails
    BY DEF FlushHasNothing, FlushTooLate, FlushSnapshot, FlushFails, FlushEnds
  <2> QED
    BY <2>1, FailuresGrow
<1>7. Line' = Line
  <2>1. Removed' = Removed
    BY <1>1 DEF Removed
  <2>2. LeftOver(rest)
    BY DEF CalmData
  <2> QED
    BY <1>1, <1>5, <2>1, <2>2, NothingUnderway, SameLine
<1>8. Coming(rest)' = Coming(rest)
  BY <1>1 DEF Coming, InHand
<1>9. finish'.by # "none" => EndsWith(Line[target'], finish'.text)
  <2>1. finish.by # "none" => Underway
    BY DEF Underway
  <2> QED
    BY <1>1, <1>5, <2>1 DEF CalmData
<1> QED
  BY <1>1, <1>4, <1>5, <1>6, <1>7, <1>8, <1>9, StillCalm

(* A flush types what it has read of the buffer.                          *)
LEMMA FlushTyped ==
  ASSUME Base, Base', RestoreFails = FALSE, RewriteAlone, TypingInField, QuietStep,
         NEW rest \in Seq(Segments), CalmData(rest), NEW f \in Flushes, FlushTypes(f)
  PROVE  \E r \in Seq(Segments) : CalmData(r)'
<1>1. /\ flush[f].pc = "type" /\ Prepare
      /\ typed' = [typed EXCEPT ![focus'] = @ \o flush[f].text]
      /\ flush' = [flush EXCEPT ![f].pc = "consume"]
      /\ UNCHANGED <<finish, dropped, failures, phase1, buffer, heard, home, spot, worker, queue>>
  BY DEF FlushTypes, FlushAt, FlushGoes, KeepForFlush, takeVars, pipelineVars, rewriteVars
<1>2. flush \in [Flushes -> [pc : FlushPcs, text : Seq(Segments)]]
  BY DEF Base, Ground, Types, JobTypes
<1>3. target \in Fields /\ target' = target /\ focus' = target
  <2>1. target \in Fields
    BY <1>1 DEF TypingInField
  <2> QED
    BY <1>1, <2>1, PreparedInField
<1>4. PICK p \in Seq(Segments) : p = flush[f].text
  BY <1>2
<1>5. PICK r \in Seq(Segments) : buffer = p \o r
  BY <1>1, <1>4 DEF TypingInField
<1>6. p # <<>>
  BY <1>1, <1>4 DEF TypingInField
<1>7. \A g \in Flushes : g # f => flush[g].pc = "idle"
  BY <1>1 DEF TypingInField, FlushesBusy
<1>8. rest = p \o r
  BY <1>1, <1>5, <1>7 DEF CalmData, LeftOver
<1>9. LeftOver(r)'
  <2>1. flush'[f].pc = "consume" /\ flush'[f].text = p /\ \A g \in Flushes : g # f => flush'[g].pc = "idle"
    BY <1>1, <1>2, <1>4, <1>7, FlushGoesOn DEF FlushPcs
  <2> QED
    BY <1>1, <1>5, <2>1 DEF LeftOver
<1>10. finish = NotFinishing
  <2>1. p \o r # <<>>
    BY <1>6, ConcatEqualIffEmpty
  <2> QED
    BY <1>5, <2>1 DEF RewriteAlone, Base, FinishInv
<1>11. /\ Line' = Put(Line, target, p)
       /\ Line'[target] = Line[target] \o p /\ Line[target] \in Seq(Segments)
  <2>1. typed' = [typed EXCEPT ![target] = @ \o p]
    BY <1>1, <1>3, <1>4
  <2> QED
    BY <1>1, <1>3, <1>10, <2>1, LinePut
<1>12. Coming(rest) = p \o Coming(r) /\ Coming(r)' = Coming(r) /\ Coming(r) \in Seq(Segments)
  <2>1. InHand \o queue \in Seq(Segments) /\ Coming(r) \in Seq(Segments)
    BY ComingTypes
  <2>2. (p \o r) \o (InHand \o queue) = p \o (r \o (InHand \o queue))
    BY <2>1, Regroup
  <2>3. InHand' = InHand
    BY <1>1 DEF InHand
  <2> QED
    BY <1>1, <1>8, <2>1, <2>2, <2>3 DEF Coming
<1>13. /\ Orderly(Line, Coming(r), heard)'
       /\ AtHome(Line, Coming(r), target, home, spot)'
       /\ (failures <= 1 => Accounted(Line, Coming(r), heard, dropped))'
  <2>1. /\ Orderly(Line, p \o Coming(r), heard)
        /\ AtHome(Line, p \o Coming(r), target, home, spot)
        /\ failures <= 1 => Accounted(Line, p \o Coming(r), heard, dropped)
    BY <1>12 DEF CalmData
  <2>2. Line \in [Windows -> Seq(Segments)]
    BY LineTypes
  <2>3. /\ Orderly(Put(Line, target, p), Coming(r), heard)
        /\ AtHome(Put(Line, target, p), Coming(r), target, home, spot)
        /\ failures <= 1 => Accounted(Put(Line, target, p), Coming(r), heard, dropped)
    BY <1>3, <1>12, <2>1, <2>2, TypedThere
  <2> QED
    BY <1>1, <1>3, <1>11, <1>12, <2>3
<1>14. EndsWith(Reaching(r), phase1.text)'
  <2>1. (Line[target] \o p) \o r = Line[target] \o (p \o r)
    BY <1>11, Regroup
  <2>2. Reaching(r)' = Reaching(rest)
    BY <1>3, <1>8, <1>11, <2>1 DEF Reaching
  <2> QED
    BY <1>1, <2>2 DEF CalmData
<1>15. finish'.by = "none"
  BY <1>1, <1>10 DEF NotFinishing
<1>16. CalmData(r)'
  BY <1>9, <1>13, <1>14, <1>15 DEF CalmData
<1> QED
  BY <1>16

(* A flush takes what it typed out of the buffer.                         *)
LEMMA FlushConsumed ==
  ASSUME Base, Base', TypingInField,
         NEW rest \in Seq(Segments), CalmData(rest), NEW f \in Flushes, FlushConsumes(f)
  PROVE  CalmData(rest)'
<1>1. /\ flush[f].pc = "consume"
      /\ flush' = [flush EXCEPT ![f].pc = "look"]
      /\ buffer' = IF IsPrefix(flush[f].text, buffer)
                   THEN SubSeq(buffer, Len(flush[f].text) + 1, Len(buffer)) ELSE buffer
      /\ UNCHANGED <<target, typed, finish, dropped, failures, phase1, heard, home, spot, worker,
                     queue>>
  BY DEF FlushConsumes, FlushAt, FlushGoes, KeepForFlush, takeVars, pipelineVars, rewriteVars,
     fieldVars
<1>2. flush \in [Flushes -> [pc : FlushPcs, text : Seq(Segments)]]
  BY DEF Base, Ground, Types, JobTypes
<1>3. buffer = flush[f].text \o rest
  BY <1>1 DEF CalmData, LeftOver
<1>4. buffer' = rest
  <2>1. PICK p \in Seq(Segments) : p = flush[f].text
    BY <1>2
  <2>2. IsPrefix(p, p \o rest) /\ SubSeq(p \o rest, Len(p) + 1, Len(p \o rest)) = rest
    BY Parts
  <2> QED
    BY <1>1, <1>3, <2>1, <2>2
<1>5. LeftOver(rest)'
  <2>1. \A g \in Flushes : g # f => flush[g].pc = "idle"
    BY <1>1 DEF TypingInField, FlushesBusy
  <2>2. \A g \in Flushes : flush'[g].pc # "consume"
    BY <1>1, <1>2, <2>1, FlushGoesOn DEF FlushPcs
  <2> QED
    BY <1>4, <2>2 DEF LeftOver
<1>6. Line' = Line
  <2>1. Removed' = Removed
    BY <1>1 DEF Removed
  <2> QED
    BY <1>1, <2>1, SameLine
<1>7. Coming(rest)' = Coming(rest)
  BY <1>1 DEF Coming, InHand
<1>8. finish'.by # "none" => EndsWith(Line[target'], finish'.text)
  BY <1>1 DEF CalmData
<1> QED
  BY <1>1, <1>5, <1>6, <1>7, <1>8, StillCalm

(* A step of a flush.                                                     *)
LEMMA CalmFlush ==
  ASSUME Base, Base', RestoreFails = FALSE, RewriteAlone, TypingInField, QuietStep,
         NEW f \in Flushes, Flush(f), NEW rest \in Seq(Segments), CalmData(rest)
  PROVE  \E r \in Seq(Segments) : CalmData(r)'
BY FlushStill, FlushTyped, FlushConsumed DEF Flush

(* Who looks after a rewrite has typed and consumed what there was. *)
LEMMA FinishKeepsTasks ==
  ASSUME Base, Finish
  PROVE  /\ \A f \in Flushes :
              /\ flush'[f].text = flush[f].text
              /\ \/ flush'[f].pc = flush[f].pc
                 \/ flush[f].pc \in {"look", "claim", "hold"} /\ flush'[f].pc \in {"claim", "hold", "end"}
         /\ worker'.seg = worker.seg
         /\ \/ worker'.pc = worker.pc
            \/ worker.pc \in {"look", "claim", "hold"} /\ worker'.pc \in {"claim", "hold", "end"}
<1>1. \/ \E c \in Finishers, pc \in {"claim", "hold", "end"} :
           Goes(c, pc) /\ \E from \in {"look", "claim", "hold"} : At(c, from)
      \/ UNCHANGED <<worker, flush>>
  <2>1. CASE \E c \in Finishers : FinishLooks(c) \/ FinishLeaves(c) \/ FinishNoModel(c)
                                  \/ FinishClaims(c)
    BY <2>1 DEF FinishLooks, FinishLeaves, FinishNoModel, FinishClaims, CanClaim
  <2>2. CASE DeleteText \/ DeleteFails \/ RewriteFails \/ RewriteSkipped \/ RewriteReady
             \/ InsertFails \/ EndRelease
    BY <2>2 DEF DeleteText, DeleteFails, RewriteFails, RewriteSkipped, RewriteReady,
       InsertFails, EndRelease, FinishStays
  <2>3. CASE InsertText \/ RestoreText \/ RestoreTextFails
    <3>1. Goes(finish.by, "end") /\ finish.pc # "none"
      BY <2>3 DEF InsertText, RestoreText, RestoreTextFails, FinishEnds, FinishAt
    <3>2. finish.by \in Finishers /\ At(finish.by, "hold")
      BY <3>1 DEF Base, Ground, Types, FinishInv, FinishTypes
    <3> QED
      BY <3>1, <3>2
  <2> QED
    BY <2>1, <2>2, <2>3 DEF Finish
<1>2. ASSUME NEW c \in Finishers, NEW pc \in {"claim", "hold", "end"}, Goes(c, pc),
             NEW from \in {"look", "claim", "hold"}, At(c, from)
      PROVE  /\ \A f \in Flushes :
                  /\ flush'[f].text = flush[f].text
                  /\ \/ flush'[f].pc = flush[f].pc
                     \/ flush[f].pc = from /\ flush'[f].pc = pc
             /\ worker'.seg = worker.seg
             /\ \/ worker'.pc = worker.pc
                \/ worker.pc = from /\ worker'.pc = pc
  <2>1. /\ worker'.seg = worker.seg
        /\ worker'.pc = IF c = "worker" THEN pc ELSE worker.pc
        /\ \A f \in Flushes : /\ flush'[f].text = flush[f].text
                              /\ flush'[f].pc = IF c = f THEN pc ELSE flush[f].pc
    BY <1>2, GoesOn DEF Base, Ground, Types
  <2>2. (c = "worker" => worker.pc = from) /\ (\A f \in Flushes : c = f => flush[f].pc = from)
    BY <1>2, AtIs
  <2> QED
    BY <2>1, <2>2
<1> QED
  BY <1>1, <1>2

(* The end of a field that ends with the text of the take. *)
LEMMA DeletesEnd ==
  ASSUME Base, NEW w \in Windows, NEW q \in Seq(Segments), typed[w] = q \o finish.text
  PROVE  Deleted(w) = q /\ ~OtherText(w)
<1>1. PICK t \in Seq(Segments) : t = finish.text
  BY DEF Base, Ground, Types, FinishTypes
<1>2. /\ SubSeq(q \o t, 1, Len(q)) = q /\ SubSeq(q \o t, Len(q) + 1, Len(q \o t)) = t
      /\ Len(q \o t) = Len(q) + Len(t)
  BY Parts
<1>3. Kept(w) = Len(q)
  <2> DEFINE n == Len(q)
             m == Len(t)
  <2>1. n \in Nat /\ m \in Nat /\ Len(typed[w]) = n + m /\ Len(finish.text) = m
    BY <1>1, <1>2
  <2>2. Kept(w) = IF m < n + m THEN (n + m) - m ELSE 0
    BY <2>1 DEF Kept
  <2> HIDE DEF n, m
  <2>3. Kept(w) = n
    BY <2>1, <2>2
  <2> QED
    BY <2>3 DEF n
<1> HIDE DEF Kept
<1>4. Deleted(w) = q
  BY <1>1, <1>2, <1>3 DEF Deleted
<1>5. ~OtherText(w)
  BY <1>1, <1>2, <1>3 DEF OtherText
<1> QED
  BY <1>4, <1>5

(* The rewrite puts back what it has deleted. *)
LEMMA RewriteLine ==
  ASSUME Base, Base', finish.by # "none", target \in Fields, target' = target,
         EndsWith(Line[target], finish.text),
         \/ /\ finish.deleted = FALSE /\ finish'.deleted = TRUE /\ finish'.text = finish.text
            /\ typed' = [typed EXCEPT ![target] = Deleted(target)]
         \/ /\ finish.deleted = TRUE /\ finish'.deleted = FALSE
            /\ typed' = [typed EXCEPT ![target] = @ \o finish.text]
         \/ /\ finish.deleted = FALSE /\ finish'.deleted = FALSE
            /\ typed' = [typed EXCEPT ![target] = Deleted(target) \o finish.text]
  PROVE  Line' = Line /\ (finish.deleted = FALSE => ~OtherText(target))
<1> DEFINE t == finish.text
<1>1. /\ target \in Windows /\ t \in Seq(Segments)
      /\ typed \in [Windows -> Seq(Segments)] /\ typed' \in [Windows -> Seq(Segments)]
  BY DEF Windows, Base, Ground, Types, FinishTypes, FieldTypes
<1>2. /\ finish.deleted = TRUE => Line[target] = typed[target] \o t
      /\ finish.deleted = FALSE => Line[target] = typed[target]
  BY <1>1, LineTypes DEF Removed
<1>3. /\ finish'.deleted = TRUE => Line'[target] = typed'[target] \o finish'.text
      /\ finish'.deleted = FALSE => Line'[target] = typed'[target]
      /\ \A w \in Windows : w # target => Line'[w] = typed'[w]
      /\ Line' \in [Windows -> Seq(Segments)]
  <2>1. Line' = [w \in Windows |-> IF w = target' THEN typed'[w] \o Removed' ELSE typed'[w]]
    BY DEF Line
  <2>2. Removed' = (IF finish'.deleted = TRUE THEN finish'.text ELSE <<>>)
    BY DEF Removed
  <2>3. Removed' \in Seq(Segments)
    BY <2>2, EmptyAndSingle DEF Base, Ground, Types, FinishTypes
  <2>4. \A w \in Windows : typed'[w] \o Removed' \in Seq(Segments) /\ typed'[w] \o <<>> = typed'[w]
    BY <1>1, <2>3, ConcatEmptySeq, ToSetConcat
  <2> QED
    BY <1>1, <2>1, <2>2, <2>4
<1>4. \A w \in Windows : w # target => typed'[w] = typed[w]
  BY <1>1
<1>5. Line \in [Windows -> Seq(Segments)] /\ \A w \in Windows : w # target => Line[w] = typed[w]
  BY LineTypes
<1>6. ASSUME finish.deleted = FALSE
      PROVE  \E q \in Seq(Segments) : /\ typed[target] = q \o t
                                      /\ Deleted(target) = q /\ ~OtherText(target)
  <2>1. PICK q \in Seq(Segments) : typed[target] = q \o t
    BY <1>2, <1>6 DEF EndsWith
  <2> QED
    BY <1>1, <2>1, DeletesEnd
<1>7. Line'[target] = Line[target]
  <2>1. CASE finish.deleted = FALSE /\ finish'.deleted = TRUE
    <3>1. typed'[target] = Deleted(target) /\ finish'.text = t
      BY <1>1, <2>1
    <3> QED
      BY <1>2, <1>3, <1>6, <2>1, <3>1
  <2>2. CASE finish.deleted = TRUE
    <3>1. typed'[target] = typed[target] \o t /\ finish'.deleted = FALSE
      BY <1>1, <2>2
    <3> QED
      BY <1>2, <1>3, <2>2, <3>1
  <2>3. CASE finish.deleted = FALSE /\ finish'.deleted = FALSE
    <3>1. typed'[target] = Deleted(target) \o t
      BY <1>1, <2>3
    <3> QED
      BY <1>2, <1>3, <1>6, <2>3, <3>1
  <2> QED
    BY <2>1, <2>2, <2>3
<1>8. \A w \in Windows : Line'[w] = Line[w]
  BY <1>3, <1>4, <1>5, <1>7
<1>9. Line' = Line
  BY <1>3, <1>5, <1>8, SameWindows
<1> QED
  BY <1>6, <1>9

LEMMA FinishStill ==
  ASSUME Base, Base', RestoreFails = FALSE, RewriteAlone, TypingInField, QuietStep, Finish,
         NEW rest \in Seq(Segments), CalmData(rest)
  PROVE  /\ UNCHANGED <<heard, home, spot, dropped, queue, buffer>>
         /\ LeftOver(rest)' /\ Coming(rest)' = Coming(rest)
         /\ phase1'.text \in {phase1.text, <<>>}
         /\ failures' = failures \/ Fails
         /\ target' = target \/ (target' = NoWindow /\ ~Underway)
         /\ finish.by # "none" => target \in Fields /\ target' = target
<1>1. UNCHANGED <<heard, home, spot, dropped, queue, buffer>>
  BY DEF Finish, FinishLooks, FinishLeaves, FinishNoModel, FinishClaims, DeleteText,
     DeleteFails, RewriteFails, RewriteSkipped, RewriteReady, InsertText, InsertFails,
     RestoreText, RestoreTextFails, EndRelease, KeepForFinish, takeVars
<1>2. LeftOver(rest)'
  <2>1. \A f \in Flushes : /\ flush'[f].pc = "consume" <=> flush[f].pc = "consume"
                           /\ flush[f].pc = "consume" => flush'[f].text = flush[f].text
    BY FinishKeepsTasks
  <2> QED
    BY <1>1, <2>1, LeftOverKept DEF CalmData
<1>3. Coming(rest)' = Coming(rest)
  <2>1. InHand' = InHand
    BY FinishKeepsTasks DEF InHand
  <2> QED
    BY <1>1, <2>1 DEF Coming
<1>4. phase1'.text \in {phase1.text, <<>>}
  <2>1. phase1' = phase1 \/ phase1' = [active |-> FALSE, text |-> <<>>]
    BY DEF Finish, FinishLooks, FinishLeaves, FinishNoModel, FinishClaims, DeleteText,
       DeleteFails, RewriteFails, RewriteSkipped, RewriteReady, InsertText, InsertFails,
       RestoreText, RestoreTextFails, EndRelease
  <2> QED
    BY <2>1
<1>5. failures' = failures \/ Fails
  BY DEF Finish, FinishLooks, FinishLeaves, FinishNoModel, FinishClaims, DeleteText,
     DeleteFails, RewriteFails, RewriteSkipped, RewriteReady, InsertText, InsertFails,
     RestoreText, RestoreTextFails, EndRelease
<1>6. finish.by # "none" => target \in Fields
  BY DEF RewriteAlone
<1>7. \/ target' = target
      \/ target' = NoWindow
      \/ Prepare /\ finish.by # "none"
  <2>1. CASE \/ \E c \in Finishers : FinishLooks(c) \/ FinishLeaves(c) \/ FinishNoModel(c)
                                     \/ FinishClaims(c)
             \/ RewriteFails \/ RewriteSkipped \/ RewriteReady
    BY <2>1 DEF FinishLooks, FinishLeaves, FinishNoModel, FinishClaims, RewriteFails,
       RewriteSkipped, RewriteReady, KeepFields, fieldVars
  <2>2. CASE EndRelease
    BY <2>2 DEF EndRelease, MaybeStopWatch, fieldVars
  <2>3. CASE DeleteText \/ DeleteFails \/ InsertText \/ InsertFails \/ RestoreText
             \/ RestoreTextFails
    <3>1. finish.pc # "none"
      BY <2>3 DEF DeleteText, DeleteFails, InsertText, InsertFails, RestoreText,
         RestoreTextFails, FinishAt
    <3>2. finish.by # "none"
      BY <3>1 DEF Base, FinishInv
    <3>3. Prepare \/ target' = target
      BY <2>3 DEF DeleteText, DeleteFails, InsertText, InsertFails, RestoreText,
         RestoreTextFails, fieldVars
    <3> QED
      BY <3>2, <3>3
  <2> QED
    BY <2>1, <2>2, <2>3 DEF Finish
<1>8. target' = target \/ (target' = NoWindow /\ ~Underway)
  <2>1. Prepare /\ finish.by # "none" => target' = target
    BY <1>6, PreparedInField
  <2> QED
    BY <1>7, <2>1 DEF QuietStep
<1>9. finish.by # "none" => target' = target
  BY <1>8 DEF Underway
<1> QED
  BY <1>1, <1>2, <1>3, <1>4, <1>5, <1>6, <1>8, <1>9

(* The rewrite is begun with the end of what the field holds. *)
LEMMA Claimed ==
  ASSUME Base, Base', TypingInField, QuietStep, NEW c \in Finishers, FinishClaims(c),
         NEW rest \in Seq(Segments), CalmData(rest)
  PROVE  /\ target \in Fields /\ target' = target
         /\ EndsWith(Line[target], phase1.text)
         /\ Line' = Line
<1>1. /\ finish.by = "none" /\ phase1.text # <<>>
      /\ finish'.by # "none" /\ finish'.deleted = FALSE
      /\ UNCHANGED <<buffer, typed, target>>
  BY FinisherNames DEF FinishClaims, CanClaim, KeepForFinish, KeepFields, fieldVars
<1>2. buffer = <<>>
  BY <1>1 DEF QuietStep
<1>3. rest = <<>>
  BY <1>2, RestIsEmpty DEF CalmData
<1>4. phase1.text \in Seq(Segments)
  BY DEF Base, Ground, Types, TakeTypes
<1>5. target \in Fields
  <2>1. CASE target \notin Fields
    <3>1. EndsWith(<<>>, phase1.text)
      BY <1>3, <2>1 DEF CalmData, Reaching
    <3> QED
      BY <1>1, <1>4, <3>1, EmptyAndSingle, EndsWithMore
  <2> QED
    BY <2>1
<1>6. EndsWith(Line[target], phase1.text)
  <2>1. Line[target] \in Seq(Segments)
    BY <1>5, LineTypes DEF Windows
  <2>2. Line[target] \o rest = Line[target]
    BY <1>3, <2>1, ConcatEmptySeq
  <2> QED
    BY <1>5, <2>2 DEF CalmData, Reaching
<1>7. Line' = Line
  <2>1. finish = NotFinishing
    BY <1>1 DEF Base, FinishInv
  <2>2. Removed = <<>> /\ Removed' = <<>>
    BY <1>1, <2>1 DEF Removed, NotFinishing
  <2> QED
    BY <1>1, <2>2, SameLine
<1> QED
  BY <1>1, <1>5, <1>6, <1>7

(* A step of a rewrite.                                                   *)
LEMMA CalmFinish ==
  ASSUME Base, Base', RestoreFails = FALSE, RewriteAlone, TypingInField, QuietStep, Finish,
         misdeleted = FALSE, NEW rest \in Seq(Segments), CalmData(rest)
  PROVE  CalmData(rest)' /\ misdeleted' = FALSE
<1>1. /\ UNCHANGED <<heard, home, spot, dropped, queue, buffer>>
      /\ LeftOver(rest)' /\ Coming(rest)' = Coming(rest)
      /\ phase1'.text \in {phase1.text, <<>>}
      /\ failures' = failures \/ Fails
      /\ target' = target \/ (target' = NoWindow /\ ~Underway)
      /\ finish.by # "none" => target \in Fields /\ target' = target
  BY FinishStill
<1>2. failures' <= 1 => failures <= 1
  BY <1>1, FailuresGrow
<1>3. finish.by # "none" <=> finish.pc # "none"
  BY DEF Base, FinishInv
<1>4. finish.deleted \in BOOLEAN
  BY DEF Base, Ground, Types, FinishTypes
<1>5. ASSUME Line' = Line, misdeleted' = FALSE,
             finish'.by # "none" => EndsWith(Line[target'], finish'.text)
      PROVE  CalmData(rest)' /\ misdeleted' = FALSE
  BY <1>1, <1>2, <1>5, StillCalm
<1>6. CASE \/ \E c \in Finishers : FinishLooks(c) \/ FinishLeaves(c) \/ FinishNoModel(c)
           \/ DeleteFails \/ RewriteFails \/ RewriteSkipped \/ RewriteReady \/ InsertFails
           \/ EndRelease
  <2>1. /\ typed' = typed /\ misdeleted' = misdeleted /\ finish'.by = finish.by
        /\ finish'.text = finish.text /\ finish'.deleted = finish.deleted
    <3>1. typed' = typed /\ misdeleted' = misdeleted
      BY <1>6 DEF FinishLooks, FinishLeaves, FinishNoModel, DeleteFails, RewriteFails,
         RewriteSkipped, RewriteReady, InsertFails, EndRelease, KeepFields
    <3>2. \/ finish' = finish
          \/ \E pc : finish' = [finish EXCEPT !.pc = pc]
          \/ \E pc, r : finish' = [finish EXCEPT !.pc = pc, !.recover = r]
      BY <1>6 DEF FinishLooks, FinishLeaves, FinishNoModel, DeleteFails, RewriteFails,
         RewriteSkipped, RewriteReady, InsertFails, EndRelease, FinishGoes
    <3>3. finish \in [by : Finishers \cup {"none"}, pc : FinishPcs, text : Seq(Segments),
                      deleted : BOOLEAN, recover : BOOLEAN]
      BY DEF Base, Ground, Types, FinishTypes
    <3> QED
      BY <3>1, <3>2, <3>3
  <2>2. Line' = Line
    <3>1. Removed' = Removed
      BY <2>1 DEF Removed
    <3>2. LeftOver(rest)
      BY DEF CalmData
    <3> QED
      BY <1>1, <2>1, <3>1, <3>2, NothingUnderway, SameLine
  <2>3. finish'.by # "none" => EndsWith(Line[target'], finish'.text)
    BY <1>1, <2>1 DEF CalmData
  <2> QED
    BY <1>5, <2>1, <2>2, <2>3
<1>7. CASE \E c \in Finishers : FinishClaims(c)
  <2>1. PICK c \in Finishers : FinishClaims(c)
    BY <1>7
  <2>2. finish'.text = phase1.text /\ misdeleted' = misdeleted
    BY <2>1 DEF FinishClaims, KeepFields
  <2> QED
    BY <1>5, <2>1, <2>2, Claimed
<1>8. CASE DeleteText
  <2>1. /\ finish.by # "none" /\ finish.deleted = FALSE /\ Prepare
        /\ finish' = [finish EXCEPT !.pc = "rewrite", !.deleted = TRUE]
        /\ typed' = [typed EXCEPT ![focus'] = Deleted(focus')]
        /\ misdeleted' = (misdeleted \/ OtherText(focus'))
    BY <1>3, <1>8 DEF DeleteText, FinishAt, Base, FinishInv
  <2>2. finish'.deleted = TRUE /\ finish'.text = finish.text
    BY <2>1 DEF Base, Ground, Types, FinishTypes
  <2>3. target \in Fields /\ target' = target /\ focus' = target
    BY <1>1, <2>1, PreparedInField
  <2>4. EndsWith(Line[target], finish.text)
    BY <2>1 DEF CalmData
  <2>5. typed' = [typed EXCEPT ![target] = Deleted(target)]
    BY <2>1, <2>3
  <2>6. Line' = Line /\ ~OtherText(target)
    BY <2>1, <2>2, <2>3, <2>4, <2>5, RewriteLine
  <2>7. misdeleted' = FALSE
    BY <2>1, <2>3, <2>6
  <2> QED
    BY <1>5, <2>2, <2>3, <2>4, <2>6, <2>7
<1>9. CASE InsertText
  <2>1. /\ finish.by # "none" /\ Prepare /\ finish' = NotFinishing
        /\ typed' = [typed EXCEPT ![focus'] =
                      (IF finish.deleted THEN @ ELSE Deleted(focus')) \o finish.text]
        /\ misdeleted' = (misdeleted \/ (~finish.deleted /\ OtherText(focus')))
    BY <1>3, <1>9 DEF InsertText, FinishAt, FinishEnds
  <2>2. finish'.deleted = FALSE /\ finish'.by = "none"
    BY <2>1 DEF NotFinishing
  <2>3. target \in Fields /\ target' = target /\ focus' = target
    BY <1>1, <2>1, PreparedInField
  <2>4. EndsWith(Line[target], finish.text)
    BY <2>1 DEF CalmData
  <2>5. CASE finish.deleted = TRUE
    <3>1. typed' = [typed EXCEPT ![target] = @ \o finish.text] /\ misdeleted' = FALSE
      BY <2>1, <2>3, <2>5
    <3>2. Line' = Line
      BY <2>1, <2>2, <2>3, <2>4, <2>5, <3>1, RewriteLine
    <3> QED
      BY <1>5, <2>2, <3>1, <3>2
  <2>6. CASE finish.deleted = FALSE
    <3>1. typed' = [typed EXCEPT ![target] = Deleted(target) \o finish.text]
      BY <2>1, <2>3, <2>6
    <3>2. Line' = Line /\ ~OtherText(target)
      BY <2>1, <2>2, <2>3, <2>4, <2>6, <3>1, RewriteLine
    <3>3. misdeleted' = FALSE
      BY <2>1, <2>3, <3>2
    <3> QED
      BY <1>5, <2>2, <3>2, <3>3
  <2> QED
    BY <1>4, <2>5, <2>6
<1>10. CASE RestoreText
  <2>1. /\ finish.by # "none" /\ finish' = NotFinishing /\ misdeleted' = misdeleted
        /\ finish.deleted = TRUE => Prepare /\ typed' = [typed EXCEPT ![focus'] = @ \o finish.text]
        /\ finish.deleted = FALSE => typed' = typed
    BY <1>3, <1>10 DEF RestoreText, FinishAt, FinishEnds
  <2>2. finish'.deleted = FALSE /\ finish'.by = "none"
    BY <2>1 DEF NotFinishing
  <2>3. EndsWith(Line[target], finish.text)
    BY <2>1 DEF CalmData
  <2>4. CASE finish.deleted = TRUE
    <3>1. target \in Fields /\ target' = target /\ focus' = target
      BY <1>1, <2>1, <2>4, PreparedInField
    <3>2. typed' = [typed EXCEPT ![target] = @ \o finish.text]
      BY <2>1, <2>4, <3>1
    <3>3. Line' = Line
      BY <2>1, <2>2, <2>3, <2>4, <3>1, <3>2, RewriteLine
    <3> QED
      BY <1>5, <2>1, <2>2, <3>3
  <2>5. CASE finish.deleted = FALSE
    <3>1. Removed = <<>> /\ Removed' = <<>>
      BY <2>2, <2>5 DEF Removed
    <3>2. Line' = Line
      BY <2>1, <2>5, <3>1, SameLine
    <3> QED
      BY <1>5, <2>1, <2>2, <3>2
  <2> QED
    BY <1>4, <2>4, <2>5
<1>11. CASE RestoreTextFails
  <2>1. /\ finish.by # "none" /\ finish' = NotFinishing /\ UNCHANGED <<misdeleted, typed, phase1>>
        /\ finish.deleted = TRUE /\ finish.pc = "restore" /\ Fails
    BY <1>3, <1>4, <1>11 DEF RestoreTextFails, FinishAt, FinishEnds
  <2>2. ~(failures' <= 1)
    <3>1. failures' > 1
      BY <2>1, FailuresGrow DEF RewriteAlone
    <3>2. failures' \in Nat
      <4>1. failures' \in 0 .. MaxFailures
        BY DEF Base, Ground, Types, FieldTypes
      <4> QED
        BY <4>1
    <3> QED
      BY <3>1, <3>2
  <2>3. target \in Fields /\ target' = target /\ phase1.text = <<>>
    BY <1>1, <2>1 DEF RewriteAlone
  <2>4. Line \in [Windows -> Seq(Segments)] /\ Removed \in Seq(Segments)
    BY LineTypes
  <2>5. /\ Line' \in [Windows -> Seq(Segments)]
        /\ \A w \in Windows : Line'[w] = typed[w]
    <3>1. Line' = [w \in Windows |-> IF w = target' THEN typed'[w] \o Removed' ELSE typed'[w]]
      BY DEF Line
    <3>2. Removed' = <<>>
      BY <2>1 DEF Removed, NotFinishing
    <3>3. \A w \in Windows : typed[w] \in Seq(Segments) /\ typed[w] \o <<>> = typed[w]
      BY LineTypes, ConcatEmptySeq
    <3> QED
      BY <2>1, <3>1, <3>2, <3>3
  <2>6. \A w \in Windows : \E p \in Seq(Segments) : Line[w] = Line'[w] \o p
    <3>1. \A w \in Windows : w # target => Line[w] = Line'[w] \o <<>>
      BY <2>5, LineTypes, ConcatEmptySeq
    <3>2. Line[target] = Line'[target] \o Removed
      BY <2>3, <2>5, LineTypes DEF Windows
    <3> QED
      BY <2>4, <3>1, <3>2, EmptyAndSingle
  <2>7. /\ Orderly(Line', Coming(rest), heard)
        /\ AtHome(Line', Coming(rest), target, home, spot)
    BY <2>4, <2>5, <2>6, EndIsGone DEF CalmData
  <2>8. /\ Orderly(Line, Coming(rest), heard)'
        /\ AtHome(Line, Coming(rest), target, home, spot)'
    BY <1>1, <2>3, <2>7
  <2>9. EndsWith(Reaching(rest), phase1.text)'
    <3>1. Line'[target] \o rest \in Seq(Segments)
      BY <2>3, <2>5, ToSetConcat DEF Windows
    <3>2. Reaching(rest)' = Line'[target] \o rest
      BY <2>3 DEF Reaching
    <3> QED
      BY <2>1, <2>3, <3>1, <3>2, EndsWithMore
  <2>10. finish'.by = "none"
    BY <2>1 DEF NotFinishing
  <2> QED
    BY <1>1, <2>1, <2>2, <2>8, <2>9, <2>10 DEF CalmData
<1> QED
  BY <1>6, <1>7, <1>8, <1>9, <1>10, <1>11 DEF Finish

-----------------------------------------------------------------------------
(* Who is at work while no race moves text. *)

(* Whoever is busy counts as under way.                                   *)
LEMMA BusyIsUnderway ==
  ASSUME Base
  PROVE  /\ worker.pc \in Busy => pending > 0
         /\ worker.pc \in Busy \/ finish.by # "none" => Underway
         /\ \A f \in Flushes : flush[f].pc # "idle" => Underway
<1>1. worker.pc \in Busy => pending > 0
  <2>1. queue \in Seq(Segments) /\ pending = Len(queue) + (IF worker.pc \in Busy THEN 1 ELSE 0)
    BY DEF Base, Ground, Types, JobTypes, PendingExact
  <2>2. Len(queue) \in Nat
    BY <2>1
  <2> QED
    BY <2>1, <2>2
<1> QED
  BY <1>1 DEF Underway, FlushesBusy

(* A segment is recorded by the worker alone. *)
LEMMA RecordingMoves ==
  ASSUME Base, Next
  PROVE  \/ phase1' = phase1
         \/ phase1'.text = <<>>
         \/ worker.pc \in Busy /\ phase1' = Recorded(worker.seg) /\ finish' = finish
<1>1. CASE User
  BY <1>1 DEF User, MoveFocus, ShowSettings, PressKey, OpenTake, ShowListening,
     EndTake, SpeechStarted, SpeechEnded, TakeQueued, TakeSilent, Released, rewriteVars
<1>2. CASE Worker
  <2>1. CASE AppendDeferred \/ TypeText
    BY <2>1 DEF AppendDeferred, TypeText, WorkerAt, Busy, KeepForWorker
  <2>2. CASE ~(AppendDeferred \/ TypeText)
    BY <1>2, <2>2 DEF Worker, TakeJob, NoText, TextReady, Decide, TypeFails, SettleFailed,
       FinishJob, RecoverJob, EndJob
  <2> QED
    BY <2>1, <2>2
<1>3. CASE Watch
  BY <1>3 DEF Watch, WatchStarts, FieldLost, FieldRegained, KeepForWatch, rewriteVars
<1>4. CASE \E f \in Flushes : Flush(f)
  BY <1>4 DEF Flush, FlushHasNothing, FlushTooLate, FlushSnapshot, FlushTypes, FlushFails,
     FlushConsumes, FlushEnds, KeepForFlush, rewriteVars
<1>5. CASE Finish
  <2>1. phase1' = phase1 \/ phase1' = [active |-> FALSE, text |-> <<>>]
    BY <1>5 DEF Finish, FinishLooks, FinishLeaves, FinishNoModel, FinishClaims, DeleteText,
       DeleteFails, RewriteFails, RewriteSkipped, RewriteReady, InsertText, InsertFails,
       RestoreText, RestoreTextFails, EndRelease
  <2> QED
    BY <2>1
<1> QED
  BY <1>1, <1>2, <1>3, <1>4, <1>5 DEF Next, Defer

(* A rewrite has its field to itself, from its claim to its end.          *)
LEMMA AloneStep ==
  ASSUME Base, Base', QuietStep, Next, RewriteAlone, TypingInField,
         NEW rest \in Seq(Segments), CalmData(rest)
  PROVE  RewriteAlone'
<1>0. finish \in [by : Finishers \cup {"none"}, pc : FinishPcs, text : Seq(Segments),
                  deleted : BOOLEAN, recover : BOOLEAN]
  BY DEF Base, Ground, Types, FinishTypes
<1>1. finish' = finish \/ Finish
  BY DEF Next, Defer, User, MoveFocus, ShowSettings, PressKey, OpenTake, ShowListening,
     EndTake, SpeechStarted, SpeechEnded, TakeQueued, TakeSilent, Released, Worker, TakeJob,
     NoText, TextReady, Decide, AppendDeferred, TypeText, TypeFails, SettleFailed, FinishJob,
     RecoverJob, EndJob, KeepForWorker, Watch, WatchStarts, FieldLost, FieldRegained,
     KeepForWatch, Flush, FlushHasNothing, FlushTooLate, FlushSnapshot, FlushTypes, FlushFails,
     FlushConsumes, FlushEnds, KeepForFlush, rewriteVars
<1>2. finish'.by # "none" => finish.by # "none" \/ \E c \in Finishers : FinishClaims(c)
  <2>1. ASSUME Finish, finish.by = "none", \A c \in Finishers : ~FinishClaims(c)
        PROVE  finish'.by = "none"
    <3>1. finish = NotFinishing
      BY <2>1 DEF Base, FinishInv
    <3>2. \A pc \in {"delete", "rewrite", "insert", "restore"} : ~FinishAt(pc)
      BY <3>1 DEF FinishAt, NotFinishing
    <3>3. finish' = finish
      BY <2>1, <3>2 DEF Finish, FinishLooks, FinishLeaves, FinishNoModel, DeleteText,
         DeleteFails, RewriteFails, RewriteSkipped, RewriteReady, InsertText, InsertFails,
         RestoreText, RestoreTextFails, EndRelease
    <3> QED
      BY <2>1, <3>3
  <2> QED
    BY <1>1, <2>1
<1>3. ASSUME finish'.by # "none"
      PROVE  /\ pending' = 0 /\ buffer' = <<>> /\ capture' \in {"closed", "queued"}
             /\ phase1'.text = <<>> /\ target' \in Fields
  <2>1. pending' = 0 /\ buffer' = <<>> /\ capture' \in {"closed", "queued"}
    <3>1. pending' \in Nat
      BY DEF Base, Ground, Types, JobTypes
    <3> QED
      BY <1>3, <3>1 DEF QuietStep
  <2>2. CASE finish.by # "none"
    <3>1. pending = 0 /\ phase1.text = <<>> /\ target \in Fields
      BY <2>2 DEF RewriteAlone
    <3>2. worker.pc \notin Busy /\ target' = target
      BY <2>2, <3>1, BusyIsUnderway DEF QuietStep
    <3> QED
      BY <2>1, <3>1, <3>2, RecordingMoves
  <2>3. CASE \E c \in Finishers : FinishClaims(c)
    <3>1. phase1'.text = <<>>
      BY <2>3 DEF FinishClaims
    <3> QED
      BY <2>1, <2>3, <3>1, Claimed
  <2> QED
    BY <1>2, <1>3, <2>2, <2>3
<1>4. ASSUME finish'.deleted = TRUE, finish'.pc = "restore"
      PROVE  failures' > 0
  <2>1. \/ Fails
        \/ finish' = finish /\ (failures' = failures)
        \/ RewriteSkipped
    <3>1. finish' = finish => Fails \/ failures' = failures
      BY DEF Next, Defer, User, MoveFocus, ShowSettings, PressKey, OpenTake, ShowListening,
         EndTake, SpeechStarted, SpeechEnded, TakeQueued, TakeSilent, Released, Worker, TakeJob,
         NoText, TextReady, Decide, AppendDeferred, TypeText, TypeFails, SettleFailed, FinishJob,
         RecoverJob, EndJob, Watch, WatchStarts, FieldLost, FieldRegained,
         KeepForWatch, Flush, FlushHasNothing, FlushTooLate, FlushSnapshot, FlushTypes,
         FlushFails, FlushConsumes, FlushEnds, Finish, FinishLooks, FinishLeaves, FinishNoModel,
         FinishClaims, DeleteText, DeleteFails, RewriteFails, RewriteSkipped, RewriteReady,
         InsertText, InsertFails, RestoreText, RestoreTextFails, EndRelease
    <3>2. ASSUME Finish, finish' # finish
          PROVE  Fails \/ RewriteSkipped
      <4> DEFINE inserting == [finish EXCEPT !.pc = "insert"]
                 rewriting == [finish EXCEPT !.pc = "rewrite", !.deleted = TRUE]
      <4>1. finish' # inserting /\ finish' # rewriting
        <5>1. inserting.pc = "insert" /\ rewriting.pc = "rewrite"
          BY <1>0, Zenon
        <5>2. finish'.pc \notin {"insert", "rewrite"}
          BY <1>4
        <5> HIDE DEF inserting, rewriting
        <5> QED
          BY <5>1, <5>2
      <4>2. finish' # NotFinishing
        BY <1>4 DEF NotFinishing
      <4>3. ~(\E c \in Finishers : FinishClaims(c))
        BY <1>4 DEF FinishClaims
      <4> QED
        BY <3>2, <4>1, <4>2, <4>3 DEF Finish, FinishLooks, FinishLeaves, FinishNoModel, DeleteText,
           DeleteFails, RewriteFails, RewriteReady, InsertText, InsertFails, RestoreText,
           RestoreTextFails, EndRelease, FinishGoes, FinishEnds
    <3> QED
      BY <1>1, <3>1, <3>2
  <2>2. ~RewriteSkipped
    <3>1. RewriteSkipped => finish.pc = "rewrite" /\ pending > 0
      BY DEF RewriteSkipped, FinishAt
    <3>2. finish.pc = "rewrite" => pending = 0
      BY DEF Base, FinishInv, RewriteAlone
    <3>3. ~(0 > 0)
      OBVIOUS
    <3> QED
      BY <3>1, <3>2, <3>3
  <2> QED
    BY <1>4, <2>1, <2>2, FailuresGrow DEF RewriteAlone
<1>5. phase1'.text # <<>> => phase1'.active = TRUE
  <2>1. phase1 \in [active : BOOLEAN, text : Seq(Segments)]
    BY DEF Base, Ground, Types, TakeTypes
  <2>2. phase1' = Recorded(worker.seg) => phase1' = phase1 \/ phase1'.active = TRUE
    BY <2>1 DEF Recorded
  <2> QED
    BY <2>2, RecordingMoves DEF RewriteAlone
<1> QED
  BY <1>3, <1>4, <1>5 DEF RewriteAlone

(* Whoever is about to type has a field to type in.                       *)
LEMMA TypingStep ==
  ASSUME Base, Base', QuietStep, Next, TypingInField
  PROVE  TypingInField'
<1>0. /\ flush \in [Flushes -> [pc : FlushPcs, text : Seq(Segments)]]
      /\ flush' \in [Flushes -> [pc : FlushPcs, text : Seq(Segments)]]
      /\ buffer \in Seq(Segments) /\ target \in Targets
  BY DEF Base, Ground, Types, JobTypes, FieldTypes
<1>1. \A f, g \in FlushesBusy' : f = g
  BY DEF QuietStep
<1>2. worker'.pc = "type" => target' \in Fields
  <2>1. CASE worker.pc = "type"
    <3>1. target' = target
      BY <2>1, BusyIsUnderway DEF QuietStep, Busy
    <3> QED
      BY <2>1, <3>1 DEF TypingInField
  <2>2. CASE worker.pc # "type" /\ worker'.pc = "type"
    <3>1. Decide
      <4>1. worker \in [pc : WorkerPcs, seg : Segments \cup {0}]
        BY DEF Base, Ground, Types, JobTypes
      <4>2. \A pc \in WorkerPcs \ {"type"} : ~WorkerGoes(pc)
        BY <2>2, <4>1 DEF WorkerGoes
      <4>3. worker' # worker /\ worker'.pc # "work"
        BY <2>2
      <4>4. ~User /\ ~Watch /\ ~(\E f \in Flushes : Flush(f))
        BY <4>3 DEF User, MoveFocus, ShowSettings, PressKey, OpenTake, ShowListening, EndTake,
           SpeechStarted, SpeechEnded, TakeQueued, TakeSilent, Released, Watch, WatchStarts,
           FieldLost, FieldRegained, KeepForWatch, Flush, FlushHasNothing, FlushTooLate,
           FlushSnapshot, FlushTypes, FlushFails, FlushConsumes, FlushEnds, KeepForFlush,
           pipelineVars
      <4>5. ~Finish
        BY <2>2, FinishKeepsTasks
      <4>6. Worker
        BY <4>4, <4>5 DEF Next, Defer
      <4>7. ~TakeJob
        BY <4>3 DEF TakeJob
      <4> QED
        BY <4>2, <4>6, <4>7 DEF Worker, NoText, TextReady, AppendDeferred, TypeText, TypeFails,
           SettleFailed, FinishJob, RecoverJob, EndJob, WorkerPcs
    <3>2. ~ShouldDefer /\ target' = target
      <4>1. ShouldDefer => WorkerGoes("append")
        BY <3>1 DEF Decide
      <4>2. WorkerGoes("append") => worker'.pc # "type"
        BY DEF WorkerGoes, Base, Ground, Types, JobTypes
      <4> QED
        BY <2>2, <3>1, <4>1, <4>2 DEF Decide, fieldVars
    <3> QED
      BY <1>0, <3>2 DEF ShouldDefer, Targets
  <2> QED
    BY <2>1, <2>2
<1>3. ASSUME NEW f \in Flushes, flush'[f].pc \in {"type", "consume"}
      PROVE  /\ flush'[f].text # <<>> /\ target' \in Fields
             /\ \E r \in Seq(Segments) : buffer' = flush'[f].text \o r
  <2>1. CASE flush[f].pc \in {"type", "consume"} /\ flush'[f].text = flush[f].text
             /\ (buffer' = buffer \/ AppendDeferred)
    <3>1. target' = target
      BY <2>1, BusyIsUnderway DEF QuietStep
    <3>2. PICK r \in Seq(Segments) : buffer = flush[f].text \o r
      BY <2>1 DEF TypingInField
    <3>3. ASSUME AppendDeferred
          PROVE  \E q \in Seq(Segments) : buffer' = flush[f].text \o q
      <4>1. PICK e \in Segments : e = worker.seg
        BY <3>3 DEF AppendDeferred, WorkerAt, Base, Ground, Types, JobTypes, Busy
      <4>2. buffer' = buffer \o <<e>>
        BY <1>0, <3>3, <4>1, AppendIsConcat DEF AppendDeferred
      <4>3. flush[f].text \in Seq(Segments) /\ <<e>> \in Seq(Segments)
        BY <1>0, EmptyAndSingle
      <4>4. (flush[f].text \o r) \o <<e>> = flush[f].text \o (r \o <<e>>) /\ r \o <<e>> \in Seq(Segments)
        BY <4>3, Regroup, ToSetConcat
      <4> QED
        BY <3>2, <4>2, <4>4
    <3> QED
      BY <2>1, <3>1, <3>2, <3>3 DEF TypingInField
  <2>2. CASE User \/ Worker \/ Watch
    <3>1. flush'[f] = flush[f]
      <4>1. User \/ Worker => flush' = flush
        BY DEF User, MoveFocus, ShowSettings, PressKey, OpenTake, ShowListening,
           EndTake, SpeechStarted, SpeechEnded, TakeQueued, TakeSilent, Released,
           Worker, TakeJob, NoText, TextReady, Decide, AppendDeferred, TypeText,
           TypeFails, SettleFailed, FinishJob, RecoverJob, EndJob, KeepForWorker
      <4>2. Watch => \/ flush' = flush
                     \/ \E g \in Flushes : flush' = [flush EXCEPT ![g].pc = "start"]
        BY DEF Watch, WatchStarts, FieldLost, FieldRegained
      <4>3. ASSUME NEW g \in Flushes, flush' = [flush EXCEPT ![g].pc = "start"]
            PROVE  flush'[f] = flush[f]
        BY <1>0, <1>3, <4>3, FlushGoesOn DEF FlushPcs
      <4> QED
        BY <2>2, <4>1, <4>2, <4>3
    <3>2. buffer' = buffer \/ AppendDeferred
      <4>1. CaptureTarget => buffer' = buffer
        BY DEF CaptureTarget, Retained
      <4> QED
        BY <2>2, <4>1 DEF User, MoveFocus, ShowSettings, PressKey, OpenTake, ShowListening,
           EndTake, SpeechStarted, SpeechEnded, TakeQueued, TakeSilent, Released,
           Worker, TakeJob, NoText, TextReady, Decide, TypeText, TypeFails, SettleFailed,
           FinishJob, RecoverJob, EndJob, Watch, WatchStarts, FieldLost, FieldRegained,
           KeepForWatch
    <3> QED
      BY <1>3, <2>1, <3>1, <3>2
  <2>3. CASE Finish
    <3>1. buffer' = buffer
      BY <2>3 DEF Finish, FinishLooks, FinishLeaves, FinishNoModel, FinishClaims, DeleteText,
         DeleteFails, RewriteFails, RewriteSkipped, RewriteReady, InsertText, InsertFails,
         RestoreText, RestoreTextFails, EndRelease, KeepForFinish
    <3> QED
      BY <1>3, <2>1, <2>3, <3>1, FinishKeepsTasks
  <2>4. ASSUME NEW g \in Flushes, Flush(g)
        PROVE  /\ flush'[f].text # <<>> /\ target' \in Fields
               /\ \E r \in Seq(Segments) : buffer' = flush'[f].text \o r
    <3>1. flush[g].pc # "idle"
      BY <2>4 DEF Flush, FlushHasNothing, FlushTooLate, FlushSnapshot, FlushTypes, FlushFails,
         FlushConsumes, FlushEnds, FlushAt
    <3>2. CASE FlushHasNothing(g) \/ FlushTooLate(g) \/ FlushFails(g) \/ FlushEnds(g)
      <4>1. flush' = [flush EXCEPT ![g] = [pc |-> "idle", text |-> <<>>]] /\ buffer' = buffer
        BY <3>2 DEF FlushHasNothing, FlushTooLate, FlushFails, FlushEnds, FlushIdle
      <4>2. flush'[f] = flush[f]
        BY <1>0, <1>3, <4>1
      <4> QED
        BY <1>3, <2>1, <4>1, <4>2
    <3>3. CASE FlushTypes(g)
      <4>1. /\ flush[g].pc = "type" /\ flush' = [flush EXCEPT ![g].pc = "consume"]
            /\ buffer' = buffer
        BY <3>3 DEF FlushTypes, FlushAt, FlushGoes
      <4>2. flush[f].pc \in {"type", "consume"} /\ flush'[f].text = flush[f].text
        BY <1>0, <1>3, <4>1, FlushGoesOn DEF FlushPcs
      <4> QED
        BY <2>1, <4>1, <4>2
    <3>4. CASE FlushConsumes(g)
      <4>1. flush[g].pc = "consume" /\ flush' = [flush EXCEPT ![g].pc = "look"]
        BY <3>4 DEF FlushConsumes, FlushAt, FlushGoes
      <4>2. f # g /\ flush'[f] = flush[f]
        BY <1>0, <1>3, <4>1, FlushGoesOn DEF FlushPcs
      <4> QED
        BY <1>3, <4>1, <4>2 DEF TypingInField, FlushesBusy
    <3>5. CASE FlushSnapshot(g)
      <4>1. /\ target # NoWindow /\ buffer # <<>> /\ buffer' = buffer /\ target' = target
            /\ flush' = [flush EXCEPT ![g] = [pc |-> "type", text |-> buffer]]
        BY <3>5 DEF FlushSnapshot, fieldVars
      <4>2. CASE f = g
        <5>1. flush'[f].text = buffer
          BY <1>0, <4>1, <4>2
        <5>2. buffer \o <<>> = buffer /\ <<>> \in Seq(Segments)
          BY <1>0, ConcatEmptySeq, EmptyAndSingle
        <5> QED
          BY <1>0, <4>1, <5>1, <5>2 DEF Targets
      <4>3. CASE f # g
        <5>1. flush'[f] = flush[f]
          BY <1>0, <4>1, <4>3
        <5> QED
          BY <1>3, <2>1, <4>1, <5>1
      <4> QED
        BY <4>2, <4>3
    <3> QED
      BY <2>4, <3>2, <3>3, <3>4, <3>5 DEF Flush
  <2> QED
    BY <2>2, <2>3, <2>4 DEF Next, Defer
<1> QED
  BY <1>1, <1>2, <1>3 DEF TypingInField

(* The invariant holds after each step that meets no race.                *)
LEMMA CalmStep ==
  ASSUME RestoreFails = FALSE, Base, Base', CalmInv, Next
  PROVE  CalmInv'
<1> SUFFICES ASSUME Calm'
             PROVE  /\ (RewriteAlone /\ TypingInField)' /\ misdeleted' = FALSE
                    /\ (\E rest \in Seq(Segments) : CalmData(rest))'
  BY DEF CalmInv
<1>1. Calm /\ QuietStep
  BY CalmIsQuiet DEF Next
<1>2. RewriteAlone /\ TypingInField /\ misdeleted = FALSE
  BY <1>1 DEF CalmInv
<1>3. PICK rest \in Seq(Segments) : CalmData(rest)
  BY <1>1 DEF CalmInv
<1>4. (RewriteAlone /\ TypingInField)'
  BY <1>1, <1>2, <1>3, AloneStep, TypingStep
<1>5. CASE Finish
  BY <1>1, <1>2, <1>3, <1>4, <1>5, CalmFinish
<1>6. CASE Defer
  <2>1. misdeleted' = FALSE
    BY <1>2, <1>6 DEF Defer
  <2>2. \E r \in Seq(Segments) : CalmData(r)'
    BY <1>1, <1>2, <1>3, <1>6, CalmUser, CalmWorker, CalmWatch, CalmFlush DEF Defer
  <2> QED
    BY <1>4, <2>1, <2>2
<1> QED
  BY <1>5, <1>6 DEF Next

(* ... and at the beginning.                                              *)
LEMMA CalmInit == Init => CalmInv
<1> SUFFICES ASSUME Init
             PROVE  /\ RewriteAlone /\ TypingInField /\ misdeleted = FALSE
                    /\ \E rest \in Seq(Segments) : CalmData(rest)
  BY DEF CalmInv
<1>1. /\ queue = <<>> /\ worker.pc = "idle" /\ buffer = <<>> /\ heard = 0 /\ dropped = {}
      /\ target = NoWindow /\ spot = NoWindow /\ finish = NotFinishing
      /\ phase1.text = <<>> /\ misdeleted = FALSE /\ typed = [w \in Windows |-> <<>>]
      /\ \A f \in Flushes : flush[f].pc = "idle"
  BY DEF Init
<1>2. finish.by = "none" /\ finish.deleted = FALSE /\ finish.pc = "none"
  BY <1>1 DEF NotFinishing
<1>3. RewriteAlone /\ TypingInField
  BY <1>1, <1>2 DEF RewriteAlone, TypingInField, FlushesBusy
<1>4. /\ <<>> \in Seq(Segments) /\ ToSet(<<>>) = {} /\ Increasing(<<>>)
      /\ <<>> \o <<>> = <<>> /\ EndsWith(<<>>, <<>>)
  BY EmptyAndSingle, ConcatEmptySeq, EndsWithMore
<1>5. Coming(<<>>) = <<>> /\ Removed = <<>>
  BY <1>1, <1>2, <1>4 DEF Coming, InHand, Removed
<1>6. Line \in [Windows -> Seq(Segments)] /\ \A w \in Windows : Line[w] = <<>>
  BY <1>1, <1>4, <1>5 DEF Line
<1>7. Orderly(Line, <<>>, heard)
  BY <1>4, <1>6 DEF Orderly
<1>8. NoWindow \notin Fields
  BY DeferAssumption DEF Windows
<1>9. AtHome(Line, <<>>, target, home, spot)
  BY <1>1, <1>4, <1>6, <1>8 DEF AtHome
<1>10. Accounted(Line, <<>>, heard, dropped)
  BY <1>1 DEF Accounted
<1>11. LeftOver(<<>>) /\ EndsWith(Reaching(<<>>), phase1.text)
  BY <1>1, <1>4, <1>8 DEF LeftOver, Reaching
<1>12. CalmData(<<>>)
  BY <1>2, <1>5, <1>7, <1>9, <1>10, <1>11 DEF CalmData
<1> QED
  BY <1>1, <1>3, <1>4, <1>12

LEMMA CalmStutter ==
  ASSUME CalmInv, UNCHANGED everything
  PROVE  CalmInv'
<1>1. UNCHANGED <<target, pending, buffer, capture, phase1, finish, failures, flush, worker, typed,
                  queue, heard, home, spot, dropped, races, misdeleted>>
  BY DEF everything, vars, userVars, fieldVars, controllerVars, takeVars, pipelineVars,
     rewriteVars
<1>2. /\ RewriteAlone' <=> RewriteAlone
      /\ TypingInField' <=> TypingInField
      /\ Calm' <=> Calm
  BY <1>1 DEF RewriteAlone, TypingInField, FlushesBusy, Calm
<1>3. ASSUME NEW r \in Seq(Segments), CalmData(r)
      PROVE  CalmData(r)'
  <2>1. Line' = Line
    BY <1>1 DEF Line, Removed
  <2>2. Coming(r)' = Coming(r)
    BY <1>1 DEF Coming, InHand
  <2>3. Reaching(r)' = Reaching(r)
    BY <1>1, <2>1 DEF Reaching
  <2>4. LeftOver(r)' <=> LeftOver(r)
    BY <1>1 DEF LeftOver
  <2> QED
    BY <1>1, <1>3, <2>1, <2>2, <2>3, <2>4 DEF CalmData
<1> QED
  BY <1>1, <1>2, <1>3 DEF CalmInv

(* The invariant of the text: it needs only that the system brings the     *)
(* target forward when asked.                                              *)
THEOREM TextInvariant == ASSUME RestoreFails = FALSE PROVE Spec => [](Base /\ CalmInv)
<1>1. Init => Base /\ CalmInv
  BY BaseInit, CalmInit
<1>2. Base /\ CalmInv /\ [Next]_everything => (Base /\ CalmInv)'
  BY BaseStep, CalmStep, CalmStutter
<1> QED
  BY <1>1, <1>2, PTL DEF Spec

(* What a window holds is the beginning of what it holds again after the   *)
(* rewrite.                                                                *)
LEMMA HeldIsBeginning ==
  ASSUME Base
  PROVE  /\ \A w \in Windows : \E p \in Seq(Segments) : Line[w] = typed[w] \o p
         /\ \A w \in Windows : ToSet(Line[w]) \subseteq ToSet(typed[w]) \cup ToSet(finish.text)
<1>1. \A w \in Windows : typed[w] \in Seq(Segments)
  BY LineTypes
<1>2. finish.text \in Seq(Segments) /\ Removed \in {finish.text, <<>>}
  BY DEF Base, Ground, Types, FinishTypes, Removed
<1>3. ASSUME NEW w \in Windows
      PROVE  /\ \E p \in Seq(Segments) : Line[w] = typed[w] \o p
             /\ ToSet(Line[w]) \subseteq ToSet(typed[w]) \cup ToSet(finish.text)
  <2>1. Line[w] = typed[w] \o <<>> \/ Line[w] = typed[w] \o finish.text
    BY <1>1, <1>2, LineTypes, ConcatEmptySeq
  <2>2. PICK p \in Seq(Segments) : p \in {<<>>, finish.text} /\ Line[w] = typed[w] \o p
    BY <1>2, <2>1, EmptyAndSingle
  <2>3. ToSet(Line[w]) = ToSet(typed[w]) \cup ToSet(p)
    BY <1>1, <2>2, ToSetConcat
  <2>4. ToSet(p) \subseteq ToSet(finish.text)
    BY <2>2, EmptyAndSingle
  <2> QED
    BY <2>2, <2>3, <2>4
<1> QED
  BY <1>3

(* A field holds each segment once and in the order of speech, also while  *)
(* its end is away to be rewritten.                                        *)
THEOREM TextInOrder == ASSUME RestoreFails = FALSE PROVE Spec => []OnceInOrder
<1>1. Base /\ CalmInv => OnceInOrder
  <2> SUFFICES ASSUME Base, CalmInv, Calm
               PROVE  /\ \A w \in Windows : \A i, j \in DOMAIN typed[w] :
                            i < j => typed[w][i] < typed[w][j]
                      /\ \A v, w \in Windows : v # w => ToSet(typed[v]) \cap ToSet(typed[w]) = {}
    BY DEF OnceInOrder
  <2>1. PICK rest \in Seq(Segments) : CalmData(rest)
    BY DEF CalmInv
  <2>2. \A w \in Windows : Increasing(Line[w])
        /\ \A v \in Windows : v # w => ToSet(Line[v]) \cap ToSet(Line[w]) = {}
    BY <2>1 DEF CalmData, Orderly
  <2>3. ASSUME NEW w \in Windows
        PROVE  /\ typed[w] \in Seq(Segments)
               /\ Increasing(typed[w]) /\ ToSet(typed[w]) \subseteq ToSet(Line[w])
    <3>1. PICK p \in Seq(Segments) : Line[w] = typed[w] \o p
      BY HeldIsBeginning
    <3>2. typed[w] \in Seq(Segments)
      BY LineTypes
    <3> QED
      BY <2>2, <3>1, <3>2, ToSetConcat, IncreasingConcat
  <2>4. ASSUME NEW w \in Windows
        PROVE  \A i, j \in DOMAIN typed[w] : i < j => typed[w][i] < typed[w][j]
    <3>1. DOMAIN typed[w] = 1 .. Len(typed[w]) /\ Increasing(typed[w])
      BY <2>3
    <3> QED
      BY <3>1 DEF Increasing
  <2>5. ASSUME NEW v \in Windows, NEW w \in Windows, v # w
        PROVE  ToSet(typed[v]) \cap ToSet(typed[w]) = {}
    <3>1. ToSet(Line[v]) \cap ToSet(Line[w]) = {}
      BY <2>2, <2>5
    <3>2. ToSet(typed[v]) \subseteq ToSet(Line[v]) /\ ToSet(typed[w]) \subseteq ToSet(Line[w])
      BY <2>3
    <3> QED
      BY <3>1, <3>2
  <2> QED
    BY <2>4, <2>5
<1> QED
  BY <1>1, TextInvariant, PTL

(* Text goes to the field its session was begun in. *)
THEOREM TextInItsField == ASSUME RestoreFails = FALSE PROVE Spec => []InItsField
<1>1. Base /\ CalmInv => InItsField
  <2> SUFFICES ASSUME Base, CalmInv, Calm, NEW w \in Windows, NEW s \in ToSet(typed[w])
               PROVE  home[s] \in {w, NoWindow}
    BY DEF InItsField
  <2>1. PICK rest \in Seq(Segments) : CalmData(rest)
    BY DEF CalmInv
  <2>2. PICK p \in Seq(Segments) : Line[w] = typed[w] \o p
    BY HeldIsBeginning
  <2>3. typed[w] \in Seq(Segments)
    BY LineTypes
  <2>4. s \in ToSet(Line[w])
    BY <2>2, <2>3, ToSetConcat
  <2> QED
    BY <2>1, <2>4 DEF CalmData, AtHome
<1> QED
  BY <1>1, TextInvariant, PTL

(* A rewrite deletes the text of its take and nothing else. *)
THEOREM DeletesNothingElse == ASSUME RestoreFails = FALSE PROVE Spec => []DeletesOwnText
<1>1. CalmInv => DeletesOwnText
  BY DEF CalmInv, DeletesOwnText
<1> QED
  BY <1>1, TextInvariant, PTL

(* One failure, wherever it happens, loses no segment: not while it waits, *)
(* is typed, or is away to be rewritten.                                   *)
THEOREM OneFailureLosesNothing ==
  ASSUME RestoreFails = FALSE PROVE Spec => [](failures <= 1 => NothingLost)
<1>1. Base /\ CalmInv => (failures <= 1 => NothingLost)
  <2> SUFFICES ASSUME Base, CalmInv, failures <= 1, Calm, NEW s \in 1 .. heard
               PROVE  \/ s \in ToSet(queue) \cup ToSet(buffer) \cup ToSet(finish.text)
                               \cup InWindows \cup dropped
                      \/ worker.pc # "idle" /\ worker.seg = s
    BY DEF NothingLost
  <2>1. PICK rest \in Seq(Segments) : CalmData(rest)
    BY DEF CalmInv
  <2>2. s \in ToSet(Coming(rest)) \cup dropped \/ \E w \in Windows : s \in ToSet(Line[w])
    BY <2>1 DEF CalmData, Accounted
  <2>3. ToSet(Coming(rest)) = ToSet(rest) \cup ToSet(InHand) \cup ToSet(queue)
    <3>1. /\ InHand \in Seq(Segments) /\ queue \in Seq(Segments)
          /\ InHand \o queue \in Seq(Segments)
      BY ComingTypes
    <3>2. ToSet(InHand \o queue) = ToSet(InHand) \cup ToSet(queue)
      BY <3>1, ToSetConcat
    <3>3. ToSet(Coming(rest)) = ToSet(rest) \cup ToSet(InHand \o queue)
      BY <3>1, ToSetConcat DEF Coming
    <3> QED
      BY <3>2, <3>3
  <2>4. ToSet(rest) \subseteq ToSet(buffer)
    <3>1. CASE \E f \in Flushes : flush[f].pc = "consume"
      <4>1. PICK f \in Flushes : buffer = flush[f].text \o rest
        BY <2>1, <3>1 DEF CalmData, LeftOver
      <4>2. flush[f].text \in Seq(Segments)
        BY DEF Base, Ground, Types, JobTypes
      <4>3. ToSet(flush[f].text \o rest) = ToSet(flush[f].text) \cup ToSet(rest)
        BY <4>2, ToSetConcat
      <4> QED
        BY <4>1, <4>3
    <3>2. CASE \A f \in Flushes : flush[f].pc # "consume"
      BY <2>1, <3>2 DEF CalmData, LeftOver
    <3> QED
      BY <3>1, <3>2
  <2>5. s \in ToSet(InHand) => worker.pc # "idle" /\ worker.seg = s
    <3>1. CASE InHand = <<>>
      BY <3>1, EmptyAndSingle
    <3>2. CASE worker.pc \in {"work", "decide", "append", "type"}
      <4>1. worker.seg \in Segments /\ InHand = <<worker.seg>>
        BY <3>2 DEF InHand, Base, Ground, Types, JobTypes, Busy
      <4>2. ToSet(InHand) = {worker.seg}
        BY <4>1, EmptyAndSingle
      <4> QED
        BY <3>2, <4>2
    <3> QED
      BY <3>1, <3>2 DEF InHand
  <2>6. ASSUME NEW w \in Windows, s \in ToSet(Line[w])
        PROVE  s \in ToSet(finish.text) \cup InWindows
    <3>1. s \in ToSet(typed[w]) \cup ToSet(finish.text)
      BY <2>6, HeldIsBeginning
    <3> QED
      BY <3>1 DEF InWindows
  <2> QED
    BY <2>2, <2>3, <2>4, <2>5, <2>6
<1> QED
  BY <1>1, TextInvariant, PTL

(* ... and so nothing is lost where one call at most fails. *)
THEOREM NoTextLost ==
  ASSUME RestoreFails = FALSE, MaxFailures <= 1 PROVE Spec => []NothingLost
<1>1. Base => failures <= 1
  <2> SUFFICES ASSUME Base PROVE failures <= 1
    OBVIOUS
  <2>1. failures \in 0 .. MaxFailures /\ MaxFailures \in Nat
    BY DeferAssumption DEF Base, Ground, Types, FieldTypes
  <2> QED
    BY <2>1
<1> QED
  BY <1>1, RewriteInvariant, OneFailureLosesNothing, PTL
=============================================================================
