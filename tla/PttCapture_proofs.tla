------------------------- MODULE PttCapture_proofs -------------------------
(***************************************************************************)
(* Theorems about PttCapture, for any number of worker threads, presses    *)
(* and jobs.                                                               *)
(***************************************************************************)
EXTENDS PttCapture, TLAPS

-----------------------------------------------------------------------------
(* The inductive invariants.                                               *)

(* A job that is being processed is still counted, and a busy state always *)
(* has a job, or its recovery, ahead of it.                                *)
JobCounted == job \in {"begin", "text", "inject", "end"} => jobs > 0
BusyServed == IsPipelineBusy(state) => jobs > 0 \/ job = "recover"
PipelineInv == TypeOK /\ JobCounted /\ BusyServed

(* In hold mode push-to-talk is active only under the key, unclaimed.      *)
KeyHeld == hold /\ pttActive => keyDown /\ toggle # "stopping"

(* While every press and release has had its turn: presses never meet, a   *)
(* release that meets one has yet to close the gate, and an open gate is   *)
(* the controller's push-to-talk or about to be closed.                    *)
Ends == Running({"pause", "close"})
OnePress ==
  \A v, w \in Workers :
    worker[v] \in PressSteps /\ worker[w] \in PressSteps => v = w
Turns ==
  \A v, w \in Workers :
    worker[v] \in PressSteps /\ worker[w] \in ReleaseSteps => w \in Ends
Opening == \A w \in Workers : worker[w] \in {"check", "lock", "open"} => gate # "open"
Closing == \A w \in Workers : worker[w] \in {"flush", "finish", "reset"} => gate # "open"
Wanted == Running(PressSteps) # {} => pttActive \/ Ends # {}
Owned == gate = "open" => pttActive \/ Ends # {}
GateInv == OnePress /\ Turns /\ Opening /\ Closing /\ Wanted /\ Owned

(* Hold mode: what a press worker, a take, a release worker and a job each *)
(* know of the rest while they last, and that Ready is what remains.       *)
Quiet == jobs = 0 /\ job = "none"
Pressing ==
  \A w \in Workers : worker[w] \in PressSteps =>
    /\ Quiet /\ state \in {"Ready", "Listening"}
    /\ worker[w] \in {"check", "lock", "open"} => state = "Ready"
    /\ worker[w] \in {"confirm", "listen"} => gate = "open"
    /\ pttActive => toggle = IF worker[w] = "listen" THEN "active" ELSE "starting"
Taking ==
  pttActive => /\ Running(ReleaseSteps) = {}
               /\ \/ Running(PressSteps) # {}
                  \/ /\ Quiet /\ gate = "open"
                     /\ state = "Listening" /\ toggle = "active"
Unheard(w) == \/ worker[w] \in {"pause", "close", "flush"}
              \/ worker[w] = "finish" /\ w \notin queued
OneRelease ==
  \A v, w \in Workers :
    worker[v] \in ReleaseSteps /\ worker[w] \in ReleaseSteps => v = w
Releasing ==
  \A w \in Workers :
    /\ Unheard(w) => Quiet /\ state \in {"Ready", "Listening"}
    /\ worker[w] \in {"pause", "close"} => w \notin spoke
    /\ worker[w] \in {"pause", "close", "flush"} => w \notin queued
    /\ worker[w] = "flush" /\ w \in spoke => state = "Listening"
Heard == gate = "open" /\ Running(PressSteps) = {} => Quiet /\ state = "Listening"
Working ==
  /\ job = "none" /\ jobs > 0 => state = "Listening"
  /\ job = "begin" => state = "Listening"
  /\ job \in {"text", "inject", "end", "recover"}
       => state \in {"Listening", "Transcribing", "Injecting", "Error",
                     "NetworkUnavailable"}
  /\ jobs <= 1 /\ (job = "recover" => jobs = 0)
Resting ==
  Quiet /\ ~pttActive /\ (\A w \in Workers : ~Unheard(w)) => state = "Ready"
HoldInv == /\ ~splitting /\ Pressing /\ Taking /\ OneRelease /\ Releasing
           /\ Heard /\ Working /\ Resting

UserInv == /\ PipelineInv /\ KeyHeld
           /\ InTurn => GateInv
           /\ hold /\ InTurn => HoldInv

-----------------------------------------------------------------------------
(* The controller's state machine.                                         *)

(* A transition goes where it is told or stays. *)
LEMMA TransitionGoes ==
  \A s, t : Transition(s, t) \in {s, t}
BY DEF Transition

(* The edges the proofs follow. *)
LEMMA EdgesOfCapture ==
  /\ \A s \in {"Ready", "Listening"} : Transition(s, "Listening") = "Listening"
  /\ \A s \in {"Ready", "Listening"} : CanTransition(s, "Listening")
  /\ \A s \in {"Ready", "Listening", "Processing", "Transcribing", "Injecting",
               "Error", "NetworkUnavailable"} : Transition(s, "Ready") = "Ready"
  /\ CanTransition("Listening", "Processing")
BY DEF Transition, CanTransition, Successors

(* What the controller's methods may leave behind. *)
LEMMA ControllerLeaves ==
  /\ \A s : Announce(s) \in {s, "Transcribing"}
  /\ \A s, n : ReportError(s, n) \in {s, "Error", "NetworkUnavailable"}
  /\ \A s, a : RecoverAfterSegment(s, a) \in {s, "Listening", "Ready"}
BY TransitionGoes DEF Announce, ReportError, RecoverAfterSegment

(* Whoever recovers a busy controller finds it busy no longer. *)
LEMMA RecoverIsNotBusy ==
  \A s, a : ~IsPipelineBusy(RecoverAfterSegment(s, a)) \/ ~IsPipelineBusy(s)
<1>1. \A s : IsPipelineBusy(s) => Transition(s, "Ready") = "Ready"
  BY EdgesOfCapture DEF IsPipelineBusy
<1> QED
  BY <1>1, TransitionGoes DEF IsPipelineBusy, RecoverAfterSegment

-----------------------------------------------------------------------------
(* Types and the pipeline.                                                 *)

LEMMA InitPipeline == Init => PipelineInv
<1> SUFFICES ASSUME Init  PROVE PipelineInv
  OBVIOUS
<1>1. hold \in BOOLEAN
  BY CaptureAssumption DEF Init
<1>2. worker \in [Workers -> WorkerSteps]
  BY DEF Init, WorkerSteps
<1>3. presses \in 0 .. MaxPresses /\ jobs \in 0 .. MaxJobs
  BY CaptureAssumption DEF Init
<1>4. TypeOK
  BY <1>1, <1>2, <1>3 DEF Init, TypeOK, AppStates
<1> QED
  BY <1>4 DEF Init, PipelineInv, JobCounted, BusyServed, IsPipelineBusy

LEMMA StepTypes ==
  ASSUME TypeOK, NEW w \in Workers, NEW s \in WorkerSteps
  PROVE  [worker EXCEPT ![w] = s] \in [Workers -> WorkerSteps]
BY DEF TypeOK

LEMMA KeysKeepPipeline ==
  ASSUME PipelineInv, KeyPress \/ KeyRelease
  PROVE  PipelineInv'
<1>1. TypeOK' 
  <2>1. CASE PressStarts
    BY <2>1, CaptureAssumption DEF PressStarts, KeyEdge, Spawn, To, PipelineInv, TypeOK, WorkerSteps, pipeVars
  <2>2. CASE PressStops
    BY <2>2, CaptureAssumption DEF PressStops, KeyEdge, Spawn, To, PipelineInv, TypeOK, WorkerSteps, pipeVars
  <2>3. CASE PressIgnored
    BY <2>3, CaptureAssumption DEF PressIgnored, ToggleAtPlan, KeyEdge, PipelineInv, TypeOK, WorkerSteps, pipeVars
  <2>4. CASE ReleaseStops
    BY <2>4 DEF ReleaseStops, KeyEdge, Spawn, To, PipelineInv, TypeOK, WorkerSteps, pipeVars
  <2>5. CASE ReleaseIgnored
    BY <2>5 DEF ReleaseIgnored, KeyEdge, PipelineInv, TypeOK, WorkerSteps, pipeVars
  <2> QED
    BY <2>1, <2>2, <2>3, <2>4, <2>5 DEF KeyPress, KeyRelease
<1>2. UNCHANGED <<state, jobs, job>>
  BY DEF KeyPress, KeyRelease, PressStarts, PressStops, PressIgnored,
         ReleaseStops, ReleaseIgnored, pipeVars
<1> QED
  BY <1>1, <1>2 DEF PipelineInv, JobCounted, BusyServed

LEMMA PressKeepsPipeline ==
  ASSUME PipelineInv, NEW w \in Workers, PressStep(w)
  PROVE  PipelineInv'
<1>1. state' \in {state, "Listening"}
  BY TransitionGoes DEF PressStep, CheckAllowed, CheckRefused, TakeLock, Open, OpenFails, Confirm, Listen
<1>2. TypeOK'
  <2>1. CASE CheckAllowed(w)
    BY <1>1, <2>1
    DEF CheckAllowed, To, PipelineInv, TypeOK, WorkerSteps, AppStates, userVars, pipeVars
  <2>2. CASE CheckRefused(w)
    BY <1>1, <2>2
    DEF CheckRefused, To, PipelineInv, TypeOK, WorkerSteps, AppStates, userVars, pipeVars
  <2>3. CASE TakeLock(w)
    BY <1>1, <2>3
    DEF TakeLock, To, PipelineInv, TypeOK, WorkerSteps, AppStates, userVars, pipeVars
  <2>4. CASE Open(w)
    BY <1>1, <2>4
    DEF Open, To, PipelineInv, TypeOK, WorkerSteps, AppStates, userVars, pipeVars
  <2>5. CASE OpenFails(w)
    BY <1>1, <2>5
    DEF OpenFails, To, PipelineInv, TypeOK, WorkerSteps, AppStates, userVars, pipeVars
  <2>6. CASE Confirm(w)
    BY <1>1, <2>6
    DEF Confirm, To, PipelineInv, TypeOK, WorkerSteps, AppStates, userVars, pipeVars
  <2>7. CASE Listen(w)
    BY <1>1, <2>7
    DEF Listen, To, PipelineInv, TypeOK, WorkerSteps, AppStates, userVars, pipeVars
  <2> QED
    BY <2>1, <2>2, <2>3, <2>4, <2>5, <2>6, <2>7 DEF PressStep
<1>3. UNCHANGED <<jobs, job>>
  BY DEF PressStep, CheckAllowed, CheckRefused, TakeLock, Open, OpenFails, Confirm,
         Listen, pipeVars
<1> QED
  BY <1>1, <1>2, <1>3 DEF PipelineInv, JobCounted, BusyServed, IsPipelineBusy

LEMMA ReleaseKeepsPipeline ==
  ASSUME PipelineInv, NEW w \in Workers, ReleaseStep(w)
  PROVE  PipelineInv'
<1>1. state' \in {state, "Listening", "Ready"}
  BY ControllerLeaves DEF ReleaseStep, PauseCallbacks, CloseGate, FlushQueued,
     FlushEmpty, FinishRelease, ResetToggle
<1>2. job' = job /\ jobs' \in {jobs, jobs + 1} /\ jobs' \in 0 .. MaxJobs
  BY CaptureAssumption DEF ReleaseStep, PauseCallbacks, CloseGate, FlushQueued,
     FlushEmpty, FinishRelease, ResetToggle, pipeVars, PipelineInv, TypeOK
<1>3. TypeOK'
  <2>1. CASE PauseCallbacks(w)
    BY <1>1, <1>2, <2>1
    DEF PauseCallbacks, To, PipelineInv, TypeOK, WorkerSteps, AppStates, userVars, pipeVars
  <2>2. CASE CloseGate(w)
    BY <1>1, <1>2, <2>2
    DEF CloseGate, ClosesInTurn, To, PipelineInv, TypeOK, WorkerSteps, AppStates, userVars, pipeVars
  <2>3. CASE FlushQueued(w)
    BY <1>1, <1>2, <2>3
    DEF FlushQueued, To, PipelineInv, TypeOK, WorkerSteps, AppStates, userVars, pipeVars
  <2>4. CASE FlushEmpty(w)
    BY <1>1, <1>2, <2>4
    DEF FlushEmpty, To, PipelineInv, TypeOK, WorkerSteps, AppStates, userVars, pipeVars
  <2>5. CASE FinishRelease(w)
    BY <1>1, <1>2, <2>5
    DEF FinishRelease, To, PipelineInv, TypeOK, WorkerSteps, AppStates, userVars, pipeVars
  <2>6. CASE ResetToggle(w)
    BY <1>1, <1>2, <2>6
    DEF ResetToggle, To, PipelineInv, TypeOK, WorkerSteps, AppStates, userVars, pipeVars
  <2> QED
    BY <2>1, <2>2, <2>3, <2>4, <2>5, <2>6 DEF ReleaseStep
<1> QED
  BY <1>1, <1>2, <1>3 DEF PipelineInv, JobCounted, BusyServed, IsPipelineBusy, TypeOK

LEMMA SpeechKeepsPipeline ==
  ASSUME PipelineInv, SpeechStarted \/ SplitBegins \/ SplitQueued \/ SplitDropped
  PROVE  PipelineInv'
<1>1. CASE SpeechStarted
  BY <1>1, CaptureAssumption
  DEF SpeechStarted, Unchanged, PipelineInv, TypeOK, JobCounted, BusyServed,
      IsPipelineBusy, AppStates, userVars
<1>2. CASE SplitBegins
  BY <1>2, CaptureAssumption
  DEF SplitBegins, Unchanged, PipelineInv, TypeOK, JobCounted, BusyServed,
      IsPipelineBusy, AppStates, userVars
<1>3. CASE SplitQueued
  <2>1. jobs < MaxJobs /\ jobs' = jobs + 1 /\ splitting' = FALSE
    BY <1>3 DEF SplitQueued
  <2>2. jobs' \in 0 .. MaxJobs
    BY <2>1, CaptureAssumption DEF PipelineInv, TypeOK
  <2>3. TypeOK'
    BY <1>3, <2>1, <2>2 DEF SplitQueued, PipelineInv, TypeOK, userVars
  <2> QED
    BY <1>3, <2>3
    DEF SplitQueued, PipelineInv, TypeOK, JobCounted, BusyServed, IsPipelineBusy
<1>4. CASE SplitDropped
  <2>1. TypeOK'
    BY <1>4, CaptureAssumption DEF SplitDropped, PipelineInv, TypeOK, userVars
  <2> QED
    BY <1>4, <2>1
    DEF SplitDropped, PipelineInv, TypeOK, JobCounted, BusyServed, IsPipelineBusy
<1> QED
  BY <1>1, <1>2, <1>3, <1>4

LEMMA JobsKeepPipeline ==
  ASSUME PipelineInv, PipelineStep
  PROVE  PipelineInv'
<1>1. CASE JobBegins
  BY <1>1 DEF JobBegins, Unchanged, PipelineInv, TypeOK, JobCounted, BusyServed, userVars
<1>2. CASE JobAnnounces
  BY <1>2, ControllerLeaves DEF JobAnnounces, Unchanged, PipelineInv, TypeOK,
     JobCounted, BusyServed, AppStates, userVars
<1>3. CASE JobInjects
  BY <1>3, TransitionGoes DEF JobInjects, Unchanged, PipelineInv, TypeOK,
     JobCounted, BusyServed, AppStates, userVars
<1>4. CASE JobFails
  BY <1>4, ControllerLeaves DEF JobFails, Unchanged, PipelineInv, TypeOK,
     JobCounted, BusyServed, AppStates, userVars
<1>5. CASE JobSettles
  BY <1>5, CaptureAssumption DEF JobSettles, Unchanged, PipelineInv, TypeOK,
     JobCounted, BusyServed, AppStates, userVars
<1>6. CASE JobRecovers
  <2>1. state' \in {state, "Listening", "Ready"}
    BY <1>6, ControllerLeaves DEF JobRecovers
  <2>2. ~IsPipelineBusy(state')
    BY <1>6, <2>1, RecoverIsNotBusy DEF JobRecovers, IsPipelineBusy
  <2> QED
    BY <1>6, <2>1, <2>2 DEF JobRecovers, Unchanged, PipelineInv, TypeOK,
       JobCounted, BusyServed, AppStates, userVars
<1> QED
  BY <1>1, <1>2, <1>3, <1>4, <1>5, <1>6 DEF PipelineStep

LEMMA StepKeepsPipeline == PipelineInv /\ [Next]_vars => PipelineInv'
<1> SUFFICES ASSUME PipelineInv, [Next]_vars  PROVE PipelineInv'
  OBVIOUS
<1>1. CASE UNCHANGED vars
  BY <1>1 DEF vars, userVars, pipeVars, PipelineInv, TypeOK, JobCounted, BusyServed
<1> QED
  BY <1>1, KeysKeepPipeline, PressKeepsPipeline, ReleaseKeepsPipeline,
     SpeechKeepsPipeline, JobsKeepPipeline DEF Next

(* Nothing is ever done with a job that is not counted. *)
THEOREM PipelineInvariant == Spec => []PipelineInv
BY InitPipeline, StepKeepsPipeline, PTL DEF Spec

(* The last job, or the release worker, always recovers the controller.    *)
THEOREM BusyNeedsWork == Spec => []NotBusyAtRest
<1>1. PipelineInv => NotBusyAtRest
  BY DEF PipelineInv, BusyServed, NotBusyAtRest, Settled
<1> QED
  BY <1>1, PipelineInvariant, PTL

-----------------------------------------------------------------------------
(* Presses, releases and the gate.                                         *)

(* Where the other workers are does not change. *)
LEMMA OthersStay ==
  ASSUME TypeOK, NEW w \in Workers, NEW s, To(w, s)
  PROVE  \A v \in Workers : worker'[v] = IF v = w THEN s ELSE worker[v]
BY DEF TypeOK, To

(* Turns that were lost stay lost, and the setting stays. *)
LEMMA TurnsAreHistory ==
  ASSUME [Next]_vars
  PROVE  hold' = hold /\ (InTurn' => InTurn)
<1>1. CASE UNCHANGED vars
  BY <1>1 DEF vars, userVars, InTurn
<1>2. CASE KeyPress \/ KeyRelease
  <2>1. hold' = hold /\ overtaken' = overtaken
    BY <1>2 DEF KeyPress, KeyRelease, PressStarts, PressStops, PressIgnored,
       ReleaseStops, ReleaseIgnored, KeyEdge
  <2>2. CASE crowded' = (crowded \/ Running(ReleaseSteps) # {})
    BY <2>1, <2>2, Zenon DEF InTurn
  <2>3. CASE UNCHANGED crowded
    BY <2>1, <2>3 DEF InTurn
  <2> QED
    BY <1>2, <2>2, <2>3, Zenon DEF KeyPress, KeyRelease, PressStarts, PressStops,
       PressIgnored, ReleaseStops, ReleaseIgnored
<1>3. UNCHANGED userVars => hold' = hold /\ (InTurn' => InTurn)
  BY DEF userVars, InTurn
<1>4. ASSUME NEW w \in Workers, PressStep(w)
      PROVE  UNCHANGED userVars
  BY <1>4 DEF PressStep, CheckAllowed, CheckRefused, TakeLock, Open, OpenFails,
     Confirm, Listen
<1>5. ASSUME NEW w \in Workers, ReleaseStep(w)
      PROVE  hold' = hold /\ (InTurn' => InTurn)
  <2>1. ClosesInTurn => hold' = hold /\ (InTurn' => InTurn)
    <3>1. ClosesInTurn => hold' = hold /\ crowded' = crowded
      BY DEF ClosesInTurn
    <3>2. ClosesInTurn => (overtaken' = (overtaken \/ Running({"check", "lock"}) # {}))
      BY DEF ClosesInTurn
    <3> QED
      BY <3>1, <3>2, Zenon DEF InTurn
  <2>2. ClosesInTurn \/ UNCHANGED userVars
    BY <1>5 DEF ReleaseStep, PauseCallbacks, CloseGate, FlushQueued, FlushEmpty,
       FinishRelease, ResetToggle
  <2> QED
    BY <1>3, <2>1, <2>2, Zenon
<1>6. CASE SpeechStarted \/ SplitBegins \/ SplitQueued \/ SplitDropped \/ PipelineStep
  BY <1>6 DEF SpeechStarted, SplitBegins, SplitQueued, SplitDropped, PipelineStep,
     JobBegins, JobAnnounces, JobInjects, JobFails, JobSettles, JobRecovers,
     Unchanged, userVars, InTurn
<1> QED
  BY <1>1, <1>2, <1>3, <1>4, <1>5, <1>6 DEF Next

(* In hold mode no take outlives its key, whoever overtakes whom. *)
LEMMA StepKeepsKeyHeld ==
  ASSUME KeyHeld, [Next]_vars
  PROVE  KeyHeld'
<1>1. CASE UNCHANGED vars
  BY <1>1 DEF vars, userVars, KeyHeld
<1>2. CASE KeyPress
  BY <1>2 DEF KeyPress, PressStarts, PressStops, StopsTake, PressIgnored, KeyEdge,
     KeyHeld
<1>3. CASE KeyRelease
  BY <1>3 DEF KeyRelease, ReleaseStops, ReleaseIgnored, KeyUpEndsTake, KeyEdge, KeyHeld
<1>4. ASSUME NEW w \in Workers, PressStep(w)
      PROVE  KeyHeld'
  BY <1>4 DEF PressStep, CheckAllowed, CheckRefused, TakeLock, Open, OpenFails,
     Confirm, Listen, userVars, KeyHeld
<1>5. ASSUME NEW w \in Workers, ReleaseStep(w)
      PROVE  KeyHeld'
  BY <1>5 DEF ReleaseStep, PauseCallbacks, CloseGate, ClosesInTurn, FlushQueued,
     FlushEmpty, FinishRelease, ResetToggle, userVars, KeyHeld
<1>6. CASE SpeechStarted \/ SplitBegins \/ SplitQueued \/ SplitDropped \/ PipelineStep
  BY <1>6 DEF SpeechStarted, SplitBegins, SplitQueued, SplitDropped, PipelineStep,
     JobBegins, JobAnnounces, JobInjects, JobFails, JobSettles, JobRecovers,
     Unchanged, userVars, KeyHeld
<1> QED
  BY <1>1, <1>2, <1>3, <1>4, <1>5, <1>6 DEF Next

LEMMA InitGate == Init => KeyHeld /\ GateInv
BY DEF Init, KeyHeld, GateInv, OnePress, Turns, Opening, Closing, Wanted, Owned, Ends,
   Running, PressSteps, ReleaseSteps

(* A take that starts in its turn starts alone, at a gate that is not open. *)
LEMMA StartsAlone ==
  ASSUME TypeOK, GateInv, PressStarts, InTurn'
  PROVE  gate # "open" /\ \A w \in Workers : worker[w] = "none"
<1>1. Running(ReleaseSteps) = {}
  BY DEF PressStarts, InTurn
<1>2. Ends = {}
  BY <1>1 DEF Ends, Running, ReleaseSteps
<1>3. ~pttActive
  BY DEF PressStarts, CanStart
<1>4. gate # "open" /\ Running(PressSteps) = {}
  BY <1>2, <1>3 DEF GateInv, Owned, Wanted
<1> QED
  BY <1>1, <1>4 DEF TypeOK, WorkerSteps, Running, PressSteps, ReleaseSteps

LEMMA KeysKeepGate ==
  ASSUME TypeOK, GateInv, InTurn', KeyPress \/ KeyRelease
  PROVE  GateInv'
<1> USE DEF GateInv, OnePress, Turns, Opening, Closing, Wanted, Owned, Ends, Running,
        PressSteps, ReleaseSteps
<1>1. CASE PressStarts
  <2>1. PICK w \in Workers : To(w, "check")
    BY <1>1 DEF PressStarts, Spawn
  <2>2. \A v \in Workers : worker'[v] = IF v = w THEN "check" ELSE "none"
    BY <1>1, <2>1, StartsAlone, OthersStay
  <2>3. gate' # "open" /\ pttActive'
    BY <1>1, StartsAlone DEF PressStarts
  <2> QED
    BY <2>2, <2>3
<1>2. ASSUME Spawn("pause"), gate' = gate
      PROVE  GateInv'
  <2>1. PICK w \in Workers : To(w, "pause") /\ worker[w] = "none"
    BY <1>2 DEF Spawn
  <2>2. \A v \in Workers : worker'[v] = IF v = w THEN "pause" ELSE worker[v]
    BY <2>1, OthersStay
  <2> QED
    BY <1>2, <2>1, <2>2
<1>3. CASE PressStops \/ ReleaseStops
  BY <1>2, <1>3 DEF PressStops, ReleaseStops
<1>4. CASE PressIgnored \/ ReleaseIgnored
  BY <1>4 DEF PressIgnored, ReleaseIgnored
<1> QED
  BY <1>1, <1>3, <1>4 DEF KeyPress, KeyRelease

LEMMA PressKeepsGate ==
  ASSUME TypeOK, GateInv, NEW w \in Workers, PressStep(w)
  PROVE  GateInv'
<1> USE DEF GateInv, OnePress, Turns, Opening, Closing, Wanted, Owned, Ends, Running,
        PressSteps, ReleaseSteps
<1>1. CASE CheckAllowed(w)
  <2>1. \A v \in Workers : worker'[v] = IF v = w THEN "lock" ELSE worker[v]
    BY <1>1, OthersStay DEF CheckAllowed
  <2> QED
    BY <1>1, <2>1 DEF CheckAllowed
<1>2. CASE CheckRefused(w)
  <2>1. \A v \in Workers : worker'[v] = IF v = w THEN "none" ELSE worker[v]
    BY <1>2, OthersStay DEF CheckRefused
  <2> QED
    BY <1>2, <2>1 DEF CheckRefused
<1>3. CASE TakeLock(w)
  <2>1. \A v \in Workers : worker'[v] = IF v = w THEN "open" ELSE worker[v]
    BY <1>3, OthersStay DEF TakeLock
  <2> QED
    BY <1>3, <2>1 DEF TakeLock
<1>4. CASE Open(w)
  <2>1. \A v \in Workers : worker'[v] = IF v = w THEN "confirm" ELSE worker[v]
    BY <1>4, OthersStay DEF Open
  <2> QED
    BY <1>4, <2>1 DEF Open
<1>5. CASE OpenFails(w)
  <2>1. \A v \in Workers : worker'[v] = IF v = w THEN "none" ELSE worker[v]
    BY <1>5, OthersStay DEF OpenFails
  <2> QED
    BY <1>5, <2>1 DEF OpenFails
<1>6. CASE Confirm(w)
  <2>1. \A v \in Workers : worker'[v] = IF v = w THEN "listen" ELSE worker[v]
    BY <1>6, OthersStay DEF Confirm
  <2> QED
    BY <1>6, <2>1 DEF Confirm
<1>7. CASE Listen(w)
  <2>1. \A v \in Workers : worker'[v] = IF v = w THEN "none" ELSE worker[v]
    BY <1>7, OthersStay DEF Listen
  <2> QED
    BY <1>7, <2>1 DEF Listen
<1> QED
  BY <1>1, <1>2, <1>3, <1>4, <1>5, <1>6, <1>7 DEF PressStep

(* A release that closes the gate in its turn meets no press. *)
LEMMA ClosesAlone ==
  ASSUME NEW w \in Workers, CloseGate(w), InTurn'
  PROVE  Running(PressSteps) = {}
BY DEF CloseGate, ClosesInTurn, PttLockFree, InTurn, Running, PressSteps

LEMMA ReleaseKeepsGate ==
  ASSUME TypeOK, GateInv, InTurn', NEW w \in Workers, ReleaseStep(w)
  PROVE  GateInv'
<1> USE DEF GateInv, OnePress, Turns, Opening, Closing, Wanted, Owned, Ends, Running,
        PressSteps, ReleaseSteps
<1>1. CASE PauseCallbacks(w)
  <2>1. \A v \in Workers : worker'[v] = IF v = w THEN "close" ELSE worker[v]
    BY <1>1, OthersStay DEF PauseCallbacks
  <2> QED
    BY <1>1, <2>1 DEF PauseCallbacks
<1>2. CASE CloseGate(w)
  <2>1. \A v \in Workers : worker'[v] = IF v = w THEN "flush" ELSE worker[v]
    BY <1>2, OthersStay DEF CloseGate
  <2>2. gate' = "closed" /\ \A v \in Workers : worker[v] \notin PressSteps
    BY <1>2, ClosesAlone DEF CloseGate
  <2> QED
    BY <2>1, <2>2
<1>3. CASE FlushQueued(w) \/ FlushEmpty(w)
  <2>1. \A v \in Workers : worker'[v] = IF v = w THEN "finish" ELSE worker[v]
    BY <1>3, OthersStay DEF FlushQueued, FlushEmpty
  <2> QED
    BY <1>3, <2>1 DEF FlushQueued, FlushEmpty
<1>4. CASE FinishRelease(w)
  <2>1. \A v \in Workers : worker'[v] = IF v = w THEN "reset" ELSE worker[v]
    BY <1>4, OthersStay DEF FinishRelease
  <2>2. gate' # "open" /\ \A v \in Workers : worker[v] \notin PressSteps
    BY <1>4 DEF FinishRelease
  <2> QED
    BY <2>1, <2>2, <1>4 DEF FinishRelease
<1>5. CASE ResetToggle(w)
  <2>1. \A v \in Workers : worker'[v] = IF v = w THEN "none" ELSE worker[v]
    BY <1>5, OthersStay DEF ResetToggle
  <2> QED
    BY <1>5, <2>1 DEF ResetToggle
<1> QED
  BY <1>1, <1>2, <1>3, <1>4, <1>5 DEF ReleaseStep

LEMMA StepKeepsGate ==
  ASSUME TypeOK, GateInv, InTurn', [Next]_vars
  PROVE  GateInv'
<1>1. CASE UNCHANGED <<gate, pttActive, worker>>
  BY <1>1 DEF GateInv, OnePress, Turns, Opening, Closing, Wanted, Owned, Ends, Running
<1>2. CASE SpeechStarted \/ SplitBegins \/ SplitQueued \/ SplitDropped \/ PipelineStep
  BY <1>1, <1>2 DEF SpeechStarted, SplitBegins, SplitQueued, SplitDropped,
     PipelineStep, JobBegins, JobAnnounces, JobInjects, JobFails, JobSettles,
     JobRecovers, Unchanged
<1>3. CASE UNCHANGED vars
  BY <1>1, <1>3 DEF vars
<1> QED
  BY <1>2, <1>3, KeysKeepGate, PressKeepsGate, ReleaseKeepsGate DEF Next

-----------------------------------------------------------------------------
(* Hold mode.                                                              *)

LEMMA InitHold == Init => HoldInv
BY DEF Init, HoldInv, Quiet, Pressing, Taking, Unheard, OneRelease, Releasing, Heard,
   Working, Resting, Running, PressSteps, ReleaseSteps

(* Ready means that no take and no job is under way. *)
LEMMA ReadyIsQuiet ==
  ASSUME TypeOK, HoldInv, state = "Ready"
  PROVE  Quiet
BY DEF TypeOK, HoldInv, Working, Quiet

LEMMA KeysKeepHold ==
  ASSUME hold, TypeOK, KeyHeld, GateInv, HoldInv, InTurn', KeyPress \/ KeyRelease
  PROVE  HoldInv'
<1> USE DEF HoldInv, Quiet, Pressing, Taking, Unheard, OneRelease, Releasing, Heard,
        Working, Resting, Running, PressSteps, ReleaseSteps
<1>1. CASE PressStarts
  <2>1. PICK w \in Workers : To(w, "check")
    BY <1>1 DEF PressStarts, Spawn
  <2>2. \A v \in Workers : worker'[v] = IF v = w THEN "check" ELSE "none"
    BY <1>1, <2>1, StartsAlone, OthersStay
  <2>3. state = "Ready" /\ Quiet
    BY <1>1, ReadyIsQuiet DEF PressStarts, CanStart
  <2>4. gate # "open"
    BY <1>1, StartsAlone
  <2> QED
    BY <1>1, <2>2, <2>3, <2>4 DEF PressStarts, KeyEdge, pipeVars
<1>2. CASE PressStops
  BY <1>2 DEF PressStops, StopsTake
<1>3. CASE PressIgnored
  <2>1. ~pttActive
    BY <1>3 DEF PressIgnored, KeyHeld
  <2> QED
    BY <1>3, <2>1 DEF PressIgnored, KeyEdge, pipeVars
<1>4. CASE ReleaseStops
  <2>1. pttActive
    BY <1>4 DEF ReleaseStops, KeyUpEndsTake
  <2>2. PICK w \in Workers : /\ To(w, "pause") /\ worker[w] = "none"
                             /\ spoke' = spoke \ {w} /\ queued' = queued \ {w}
    BY <1>4 DEF ReleaseStops, Spawn
  <2>3. \A v \in Workers : worker'[v] = IF v = w THEN "pause" ELSE worker[v]
    BY <2>2, OthersStay
  <2>4. \A v \in Workers : worker[v] \notin ReleaseSteps
    BY <2>1
  <2>5. Quiet /\ state \in {"Ready", "Listening"}
    BY <2>1
  <2> QED
    BY <1>4, <2>2, <2>3, <2>4, <2>5 DEF ReleaseStops, KeyEdge, pipeVars
<1>5. CASE ReleaseIgnored
  BY <1>5 DEF ReleaseIgnored, KeyEdge, pipeVars
<1> QED
  BY <1>1, <1>2, <1>3, <1>4, <1>5 DEF KeyPress, KeyRelease

LEMMA PressKeepsHold ==
  ASSUME hold, TypeOK, GateInv, HoldInv, NEW w \in Workers, PressStep(w)
  PROVE  HoldInv'
<1> USE DEF HoldInv, Quiet, Pressing, Taking, Unheard, OneRelease, Releasing, Heard,
        Working, Resting, Running, PressSteps, ReleaseSteps
<1>1. CASE CheckAllowed(w)
  <2>1. \A v \in Workers : worker'[v] = IF v = w THEN "lock" ELSE worker[v]
    BY <1>1, OthersStay DEF CheckAllowed
  <2> QED
    BY <1>1, <2>1 DEF CheckAllowed, userVars, pipeVars
<1>2. CASE CheckRefused(w)
  BY <1>2 DEF CheckRefused
<1>3. CASE TakeLock(w)
  <2>1. \A v \in Workers : worker'[v] = IF v = w THEN "open" ELSE worker[v]
    BY <1>3, OthersStay DEF TakeLock
  <2> QED
    BY <1>3, <2>1 DEF TakeLock, userVars, pipeVars
<1>4. CASE Open(w)
  <2>1. \A v \in Workers : worker'[v] = IF v = w THEN "confirm" ELSE worker[v]
    BY <1>4, OthersStay DEF Open
  <2> QED
    BY <1>4, <2>1 DEF Open, userVars, pipeVars
<1>5. CASE OpenFails(w)
  <2>1. \A v \in Workers : worker'[v] = IF v = w THEN "none" ELSE worker[v]
    BY <1>5, OthersStay DEF OpenFails
  <2>2. \A v \in Workers : worker[v] \in PressSteps => v = w
    BY <1>5 DEF OpenFails, GateInv, OnePress
  <2> QED
    BY <1>5, <2>1, <2>2 DEF OpenFails, userVars, pipeVars
<1>6. CASE Confirm(w)
  <2>1. \A v \in Workers : worker'[v] = IF v = w THEN "listen" ELSE worker[v]
    BY <1>6, OthersStay DEF Confirm
  <2>2. \A v \in Workers : worker[v] \in PressSteps => v = w
    BY <1>6 DEF Confirm, GateInv, OnePress
  <2> QED
    BY <1>6, <2>1, <2>2 DEF Confirm, userVars, pipeVars
<1>7. CASE Listen(w)
  <2>1. \A v \in Workers : worker'[v] = IF v = w THEN "none" ELSE worker[v]
    BY <1>7, OthersStay DEF Listen
  <2>2. \A v \in Workers : worker[v] \in PressSteps => v = w
    BY <1>7 DEF Listen, GateInv, OnePress
  <2>3. state' = "Listening" /\ toggle' = toggle /\ Quiet /\ gate = "open"
    BY <1>7, EdgesOfCapture DEF Listen
  <2>4. pttActive \/ \E v \in Workers : worker[v] \in {"pause", "close"}
    BY <1>7 DEF Listen, GateInv, Wanted, Ends
  <2>5. pttActive \/ \E v \in Workers : Unheard(v)'
    <3>1. CASE pttActive
      BY <3>1
    <3>2. CASE \E v \in Workers : worker[v] \in {"pause", "close"}
      <4>1. PICK v \in Workers : worker[v] \in {"pause", "close"}
        BY <3>2
      <4>2. worker'[v] \in {"pause", "close"}
        BY <1>7, <2>1, <4>1 DEF Listen
      <4> QED
        BY <4>2
    <3> QED
      BY <2>4, <3>1, <3>2
  <2> QED
    BY <1>7, <2>1, <2>2, <2>3, <2>5 DEF Listen, userVars, pipeVars
<1> QED
  BY <1>1, <1>2, <1>3, <1>4, <1>5, <1>6, <1>7 DEF PressStep

LEMMA ReleaseKeepsHold ==
  ASSUME hold, TypeOK, GateInv, HoldInv, InTurn', NEW w \in Workers, ReleaseStep(w)
  PROVE  HoldInv'
<1> USE DEF HoldInv, Quiet, Pressing, Taking, Unheard, OneRelease, Releasing, Heard,
        Working, Resting, Running, PressSteps, ReleaseSteps
<1>1. worker[w] \in ReleaseSteps /\ ~pttActive
  BY DEF ReleaseStep, PauseCallbacks, CloseGate, FlushQueued, FlushEmpty,
     FinishRelease, ResetToggle
<1>2. \A v \in Workers : v # w => worker[v] \notin ReleaseSteps
  BY <1>1
<1>3. worker[w] \in {"flush", "finish", "reset"} =>
        gate # "open" /\ \A v \in Workers : worker[v] \notin PressSteps
  BY DEF GateInv, Turns, Ends, Closing
<1>4. CASE PauseCallbacks(w)
  <2>1. \A v \in Workers : worker'[v] = IF v = w THEN "close" ELSE worker[v]
    BY <1>4, OthersStay DEF PauseCallbacks
  <2> QED
    BY <1>1, <1>2, <1>4, <2>1 DEF PauseCallbacks, userVars, pipeVars
<1>5. CASE CloseGate(w)
  <2>1. \A v \in Workers : worker'[v] = IF v = w THEN "flush" ELSE worker[v]
    BY <1>5, OthersStay DEF CloseGate
  <2>2. \A v \in Workers : worker[v] \notin PressSteps
    BY <1>5, ClosesAlone
  <2>3. Quiet /\ state \in {"Ready", "Listening"} /\ w \notin queued /\ w \notin spoke
    BY <1>5 DEF CloseGate
  <2>4. w \in spoke' => state = "Listening"
    BY <1>5, <2>2, <2>3 DEF CloseGate
  <2> QED
    BY <1>1, <1>2, <1>5, <2>1, <2>2, <2>3, <2>4 DEF CloseGate, ClosesInTurn, pipeVars
<1>6. CASE FlushQueued(w)
  <2>1. \A v \in Workers : worker'[v] = IF v = w THEN "finish" ELSE worker[v]
    BY <1>6, OthersStay DEF FlushQueued
  <2>2. gate # "open" /\ \A v \in Workers : worker[v] \notin PressSteps
    BY <1>3, <1>6 DEF FlushQueued
  <2>3. jobs' = 1 /\ job' = "none" /\ state' = "Listening" /\ w \in queued'
    BY <1>6 DEF FlushQueued
  <2> QED
    BY <1>1, <1>2, <1>6, <2>1, <2>2, <2>3 DEF FlushQueued, userVars
<1>7. CASE FlushEmpty(w)
  <2>1. \A v \in Workers : worker'[v] = IF v = w THEN "finish" ELSE worker[v]
    BY <1>7, OthersStay DEF FlushEmpty
  <2>2. gate # "open" /\ \A v \in Workers : worker[v] \notin PressSteps
    BY <1>3, <1>7 DEF FlushEmpty
  <2> QED
    BY <1>1, <1>2, <1>7, <2>1, <2>2 DEF FlushEmpty, userVars, pipeVars
<1>8. CASE FinishRelease(w)
  <2>1. \A v \in Workers : worker'[v] = IF v = w THEN "reset" ELSE worker[v]
    BY <1>8, OthersStay DEF FinishRelease
  <2>2. gate # "open" /\ \A v \in Workers : worker[v] \notin PressSteps
    BY <1>3, <1>8 DEF FinishRelease
  <2>3. pttActive' = FALSE
    BY <1>1, <1>8 DEF FinishRelease
  <2>4. CASE w \in queued
    <3>1. state' = state
      BY <1>8, <2>4 DEF FinishRelease
    <3> QED
      BY <1>1, <1>2, <1>8, <2>1, <2>2, <2>3, <2>4, <3>1 DEF FinishRelease, userVars, pipeVars
  <2>5. CASE w \notin queued
    <3>1. Quiet /\ state \in {"Ready", "Listening"}
      BY <1>8, <2>5 DEF FinishRelease
    <3>2. state' = "Ready"
      BY <1>1, <1>8, <2>5, <3>1, EdgesOfCapture DEF FinishRelease, RecoverAfterSegment
    <3> QED
      BY <1>1, <1>2, <1>8, <2>1, <2>2, <2>3, <3>1, <3>2 DEF FinishRelease, userVars, pipeVars
  <2> QED
    BY <2>4, <2>5
<1>9. CASE ResetToggle(w)
  <2>1. \A v \in Workers : worker'[v] = IF v = w THEN "none" ELSE worker[v]
    BY <1>9, OthersStay DEF ResetToggle
  <2>2. gate # "open" /\ \A v \in Workers : worker[v] \notin PressSteps
    BY <1>3, <1>9 DEF ResetToggle
  <2> QED
    BY <1>1, <1>2, <1>9, <2>1, <2>2 DEF ResetToggle, userVars, pipeVars
<1> QED
  BY <1>4, <1>5, <1>6, <1>7, <1>8, <1>9 DEF ReleaseStep

(* While a job is under way nothing is captured. *)
LEMMA JobsKeepHold ==
  ASSUME TypeOK, HoldInv, JobCounted, PipelineStep
  PROVE  HoldInv'
<1> USE DEF HoldInv, Quiet, Pressing, Taking, Unheard, OneRelease, Releasing, Heard,
        Working, Resting, Running, PressSteps, ReleaseSteps
<1>1. ~Quiet
  BY DEF PipelineStep, JobBegins, JobAnnounces, JobInjects, JobFails, JobSettles,
     JobRecovers, JobCounted
<1>2. /\ ~pttActive /\ gate # "open"
      /\ \A w \in Workers : worker[w] \notin PressSteps /\ ~Unheard(w)
  BY <1>1
<1>3. UNCHANGED <<pttActive, gate, worker, spoke, queued, splitting>>
  BY DEF PipelineStep, JobBegins, JobAnnounces, JobInjects, JobFails, JobSettles,
     JobRecovers, Unchanged, userVars
<1>4. CASE JobBegins
  BY <1>2, <1>3, <1>4 DEF JobBegins, Unchanged
<1>5. CASE JobAnnounces
  <2>1. state' = "Transcribing" /\ job' = "text" /\ jobs' = jobs
    BY <1>5, EdgesOfCapture DEF JobAnnounces, Announce, Unchanged
  <2> QED
    BY <1>2, <1>3, <1>5, <2>1
<1>6. CASE JobInjects
  <2>1. state' \in {state, "Injecting"} /\ job = "text" /\ job' = "inject" /\ jobs' = jobs
    BY <1>6, TransitionGoes DEF JobInjects, Unchanged
  <2> QED
    BY <1>2, <1>3, <2>1
<1>7. CASE JobFails
  <2>1. /\ state' \in {state, "Error", "NetworkUnavailable"}
        /\ job \in {"text", "inject"} /\ job' = "end" /\ jobs' = jobs
    BY <1>7, ControllerLeaves DEF JobFails, Unchanged
  <2> QED
    BY <1>2, <1>3, <2>1
<1>8. CASE JobSettles
  <2>1. jobs = 1
    BY <1>8 DEF JobSettles, JobCounted, TypeOK
  <2>2. jobs' = 0 /\ job' = "recover" /\ state' = state
    BY <1>8, <2>1 DEF JobSettles, Unchanged
  <2> QED
    BY <1>2, <1>3, <1>8, <2>2 DEF JobSettles
<1>9. CASE JobRecovers
  <2>1. state' = "Ready"
    BY <1>2, <1>9, EdgesOfCapture DEF JobRecovers, RecoverAfterSegment
  <2>2. jobs = 0 /\ jobs' = 0 /\ job' = "none"
    BY <1>9 DEF JobRecovers, Unchanged
  <2> QED
    BY <1>2, <1>3, <2>1, <2>2
<1> QED
  BY <1>4, <1>5, <1>6, <1>7, <1>8, <1>9 DEF PipelineStep

LEMMA SpeechKeepsHold ==
  ASSUME hold, TypeOK, GateInv, HoldInv,
         SpeechStarted \/ SplitBegins \/ SplitQueued \/ SplitDropped
  PROVE  HoldInv'
<1>1. CASE SpeechStarted
  <2>1. Quiet
    BY <1>1, ReadyIsQuiet DEF SpeechStarted
  <2>2. \A w \in Workers : worker[w] \notin {"check", "lock", "open"}
    BY <1>1 DEF SpeechStarted, GateInv, Opening
  <2>3. pttActive \/ \E w \in Workers : Unheard(w)
    BY <1>1 DEF SpeechStarted, GateInv, Owned, Ends, Running, Unheard
  <2>4. UNCHANGED <<pttActive, toggle, gate, worker, spoke, queued, splitting, jobs, job>>
        /\ state' = "Listening"
    BY <1>1 DEF SpeechStarted, Unchanged
  <2> QED
    BY <2>1, <2>2, <2>3, <2>4
    DEF HoldInv, Quiet, Pressing, Taking, Unheard, OneRelease, Releasing, Heard,
        Working, Resting, Running, PressSteps, ReleaseSteps
<1>2. ~SplitBegins /\ ~SplitQueued /\ ~SplitDropped
  BY DEF SplitBegins, SplitQueued, SplitDropped, HoldInv
<1> QED
  BY <1>1, <1>2

LEMMA StepKeepsHold ==
  ASSUME hold, PipelineInv, KeyHeld, GateInv, HoldInv, InTurn', [Next]_vars
  PROVE  HoldInv'
<1>1. CASE UNCHANGED vars
  BY <1>1 DEF vars, userVars, pipeVars, HoldInv, Quiet, Pressing, Taking, Unheard,
     OneRelease, Releasing, Heard, Working, Resting, Running
<1> QED
  BY <1>1, KeysKeepHold, PressKeepsHold, ReleaseKeepsHold, JobsKeepHold,
     SpeechKeepsHold DEF Next, PipelineInv

-----------------------------------------------------------------------------
(* The properties.                                                         *)

(* Whenever keys are pressed and let go, nothing leads out of UserInv. *)
THEOREM UserInvariant == Spec => []UserInv
<1>1. Init => UserInv
  BY InitPipeline, InitGate, InitHold DEF UserInv
<1>2. UserInv /\ [Next]_vars => UserInv'
  <2> SUFFICES ASSUME UserInv, [Next]_vars  PROVE UserInv'
    OBVIOUS
  <2>1. PipelineInv' /\ KeyHeld'
    BY StepKeepsPipeline, StepKeepsKeyHeld DEF UserInv
  <2>2. ASSUME InTurn'  PROVE GateInv'
    BY <2>2, TurnsAreHistory, StepKeepsGate DEF UserInv, PipelineInv
  <2>3. ASSUME hold', InTurn'  PROVE HoldInv'
    BY <2>3, TurnsAreHistory, StepKeepsHold DEF UserInv
  <2> QED
    BY <2>1, <2>2, <2>3 DEF UserInv
<1> QED
  BY <1>1, <1>2, PTL DEF Spec

(* In hold mode the microphone stays open after key-up only where a release *)
(* ran out of turn before ("PTT hold always ends capture on key-up").       *)
THEOREM KeyUpClosesGate == Spec => []KeyUpClosesInTurn
<1>1. UserInv => KeyUpClosesInTurn
  <2> SUFFICES ASSUME UserInv, InTurn, hold, ~keyDown, Settled  PROVE gate # "open"
    BY DEF KeyUpClosesInTurn, KeyUpCloses
  <2>1. ~pttActive
    BY DEF UserInv, KeyHeld
  <2>2. Ends = {}
    BY DEF Settled, Ends, Running, PressSteps, ReleaseSteps
  <2> QED
    BY <2>1, <2>2 DEF UserInv, GateInv, Owned
<1> QED
  BY <1>1, UserInvariant, PTL

(* In hold mode the user sees Listening at rest exactly while the           *)
(* microphone is open, while releases and presses have their turn.          *)
THEOREM HoldStateIsTrue == Spec => []HoldTellsCapture
<1>1. UserInv => HoldTellsCapture
  <2> SUFFICES ASSUME UserInv, hold, InTurn, Settled
               PROVE  state = "Listening" <=> gate = "open"
    BY DEF HoldTellsCapture, StateTellsCapture
  <2>1. \A w \in Workers : worker[w] = "none"
    BY DEF Settled, Running, UserInv, PipelineInv, TypeOK, WorkerSteps, PressSteps,
       ReleaseSteps
  <2>2. gate = "open" => state = "Listening"
    BY <2>1 DEF UserInv, HoldInv, Heard, Running, PressSteps
  <2>3. pttActive => gate = "open"
    BY <2>1 DEF UserInv, HoldInv, Taking, Running, PressSteps
  <2>4. ~pttActive => state = "Ready"
    BY <2>1 DEF UserInv, HoldInv, Resting, Unheard, Quiet, Settled
  <2> QED
    BY <2>2, <2>3, <2>4
<1> QED
  BY <1>1, UserInvariant, PTL

(* A microphone that is open at rest belongs to the push-to-talk the       *)
(* controller believes in, so that a stop can close it.                    *)
THEOREM OpenGateHasOwner == Spec => []OpenGateIsActive
<1>1. UserInv => OpenGateIsActive
  BY DEF UserInv, GateInv, Owned, Ends, OpenGateIsActive, Settled, Running,
     PressSteps, ReleaseSteps
<1> QED
  BY <1>1, UserInvariant, PTL

(* A press finds the microphone open only where a release ran out of turn   *)
(* before: edges while a take is opening or stopping do not suffice.        *)
THEOREM OneCaptureAtATime == Spec => []OneCaptureInTurn
<1>1. UserInv => OneCaptureInTurn
  BY DEF UserInv, GateInv, Opening, OneCaptureInTurn, OneCapture
<1> QED
  BY <1>1, UserInvariant, PTL

=============================================================================
