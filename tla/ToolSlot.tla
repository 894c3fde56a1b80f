------------------------------ MODULE ToolSlot ------------------------------
(***************************************************************************)
(* The slot the tools share: one flag of the controller says that some tool *)
(* transcribes (ToolsTranscriptionGuard of tools/shared.rs), and a second,  *)
(* static one that a heavy stage is running (tools/heavy_job.rs).  Who has  *)
(* the first runs its stages one after the other, each in a thread of its   *)
(* own that may panic.  Dictation keeps tools from starting, and is itself  *)
(* not kept from anything.                                                 *)
(***************************************************************************)
EXTENDS Naturals

CONSTANTS Tools,          \* analysis, subtitles, separation: they run stages
          MaxDictations,  \* bound: dictations
          MaxToolJobs,    \* bound: jobs of the tools
          MaxPanics       \* bound: stages that panic

ASSUME SlotAssumption ==
  MaxDictations \in Nat /\ MaxToolJobs \in Nat /\ MaxPanics \in Nat

VARIABLES
  dictating,    \* blocks_tools_transcription
  busy,         \* tools_transcription_busy
  stageActive,  \* STAGE_ACTIVE
  tool,         \* where each tool is
  dictations, toolJobs, panics

slotVars == <<dictating, busy, stageActive, tool, dictations, toolJobs, panics>>

SlotInit ==
  /\ dictating = FALSE /\ busy = FALSE /\ stageActive = FALSE
  /\ tool = [t \in Tools |-> "idle"]
  /\ dictations = 0 /\ toolJobs = 0 /\ panics = 0

StartDictation ==
  /\ ~dictating /\ dictating' = TRUE
  /\ dictations < MaxDictations /\ dictations' = dictations + 1
  /\ UNCHANGED <<busy, stageActive, tool, toolJobs, panics>>

EndDictation ==
  /\ dictating /\ dictating' = FALSE
  /\ UNCHANGED <<busy, stageActive, tool, dictations, toolJobs, panics>>

(* What wait_for_tools_slot polls and try_begin asks for. *)
SlotFree == ~dictating /\ ~busy

(* Variant for the checks: the flag of the other tools is not looked at. *)
TryBeginOverDictationOnly == ~dictating /\ busy' = TRUE

(* ToolsTranscriptionGuard::try_begin, under the lock of the controller. *)
TryBegin == SlotFree /\ busy' = TRUE

(* Its Drop. *)
DropGuard == busy' = FALSE

ToolBegins(t) ==
  /\ tool[t] = "idle" /\ tool' = [tool EXCEPT ![t] = "held"]
  /\ toolJobs < MaxToolJobs /\ toolJobs' = toolJobs + 1
  /\ TryBegin
  /\ UNCHANGED <<dictating, stageActive, dictations, panics>>

(* begin_stage: who is refused lets the slot go all the same. *)
BeginStage(t) ==
  /\ tool[t] = "held"
  /\ tool' = [tool EXCEPT ![t] = IF stageActive THEN "failed" ELSE "stage"]
  /\ stageActive' = ~stageActive
  /\ UNCHANGED <<dictating, busy, dictations, toolJobs, panics>>

EndStage(t) ==
  /\ tool[t] = "stage" /\ tool' = [tool EXCEPT ![t] = "held"]
  /\ stageActive' = FALSE
  /\ UNCHANGED <<dictating, busy, dictations, toolJobs, panics>>

(* The sender is dropped with the thread; end_stage is not reached. *)
StagePanics(t) ==
  /\ tool[t] = "stage" /\ tool' = [tool EXCEPT ![t] = "failed"]
  /\ panics < MaxPanics /\ panics' = panics + 1
  /\ UNCHANGED <<dictating, busy, stageActive, dictations, toolJobs>>

ToolEnds(t) ==
  /\ tool[t] \in {"held", "failed"} /\ tool' = [tool EXCEPT ![t] = "idle"]
  /\ DropGuard
  /\ UNCHANGED <<dictating, stageActive, dictations, toolJobs, panics>>

ToolStep(t) == BeginStage(t) \/ EndStage(t) \/ StagePanics(t) \/ ToolEnds(t)

SlotNext ==
  StartDictation \/ EndDictation \/ \E t \in Tools : ToolBegins(t) \/ ToolStep(t)

HoldsGuard(t) == tool[t] # "idle"

SlotTypeOK ==
  /\ dictating \in BOOLEAN /\ busy \in BOOLEAN /\ stageActive \in BOOLEAN
  /\ tool \in [Tools -> {"idle", "held", "stage", "failed"}]
  /\ dictations \in Nat /\ toolJobs \in Nat /\ panics \in Nat

(* Two stages never run at a time, and a stage is refused only when one     *)
(* before it panicked, although begin_stage frees the slot of whoever has   *)
(* it: the guard around every run_stage is what keeps them apart.          *)
StagesApart ==
  /\ \A s, t \in Tools : HoldsGuard(s) /\ HoldsGuard(t) => s = t
  /\ panics = 0 => (stageActive <=> \E t \in Tools : tool[t] = "stage")

=============================================================================
