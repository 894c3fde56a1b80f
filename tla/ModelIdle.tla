----------------------------- MODULE ModelIdle -----------------------------
(***************************************************************************)
(* The models in memory (app/model_idle.rs, app/context.rs): dictation      *)
(* transcribes and rewrites with them, a tool and the prewarm thread too,   *)
(* and they are taken out again by the watchdog, which looks at them every  *)
(* 30 seconds, by a change of the settings, a recovery and a button.  What   *)
(* they do is LlmEngine and SttEngine; here is who does it when.            *)
(*                                                                         *)
(* local says which models are local ("stt", "llm"); the others are calls    *)
(* that succeed or fail.  Idle models are to be unloaded.  There is no clock: *)
(* recent says whether the last activity is younger than the limit.         *)
(***************************************************************************)
EXTENDS SttEngine

CONSTANTS Job,        \* the worker of the pipeline
          Tool,       \* a tool, or the prewarm thread
          Watchdog,
          Task,       \* the task that unloads the transcriber for the watchdog
          Settings,   \* update_settings, recover_engine, force_unload_local_models
          Setups,     \* what may be local
          MaxJobs, MaxToolJobs, MaxRounds, MaxCommands  \* bounds

ASSUME IdleAssumption ==
  /\ Procs = {Job, Tool, Watchdog, Task, Settings}
  /\ Job \notin {Tool, Watchdog, Task, Settings} /\ Tool \notin {Watchdog, Task, Settings}
  /\ Setups \subseteq SUBSET {"stt", "llm"}
  /\ {MaxJobs, MaxToolJobs, MaxRounds, MaxCommands} \subseteq Nat

VARIABLES
  local,      \* needs_local_stt and needs_local_llm of the settings
  phase,      \* what each process is at
  pending,    \* pending_count() > 0
  recent,
  jobs, toolJobs, rounds, commands,
  disturbed,  \* history: a reload of the transcriber has run beside the job
  crossed     \* history: the last reload to begin did while another ran

reloads == <<disturbed, crossed>>
idleVars == <<local, phase, pending, recent, jobs, toolJobs, rounds, commands, reloads>>
vars == <<llmVars, sttVars, idleVars>>

Init ==
  /\ LlmInit /\ SttInit
  /\ local \in Setups
  /\ phase = [p \in Procs |-> "idle"]
  /\ pending = FALSE /\ recent = TRUE
  /\ jobs = 0 /\ toolJobs = 0 /\ rounds = 0 /\ commands = 0
  /\ disturbed = FALSE /\ crossed = FALSE

NeedsStt == "stt" \in local
NeedsLlm == "llm" \in local

In(p, ph) == phase[p] = ph
Goes(p, ph) == phase' = [phase EXCEPT ![p] = ph]
Into(p, ph) == Goes(p, ph) /\ UNCHANGED local
Rests(p) == LlmIdle(p) /\ SttIdle(p)

StartLlm(p, pc) ==
  LlmIdle(p) /\ LlmGoes(p, pc) /\ UNCHANGED <<cell, cellLock>> /\ KeepEngines
StartStt(p, pc) == stt' = [stt EXCEPT ![p].pc = pc, ![p].result = "none"]
                   /\ UNCHANGED <<token, sttCell, live, loaded, user>>

RemoteStt(p) == /\ \E r \in {"text", "error"} : stt' = [stt EXCEPT ![p].result = r]
                /\ UNCHANGED <<token, sttCell, live, loaded, user>>

(* Nothing keeps two reloads apart. *)
Reloading == {"rotate", "create", "replace", "unload"}
ReloadRuns == \E p \in Procs : stt[p].pc \in Reloading
StartReload(p, pc) ==
  /\ StartStt(p, pc)
  /\ disturbed' = (disturbed \/ pending) /\ crossed' = ReloadRuns

TimePasses ==
  /\ recent /\ recent' = FALSE
  /\ UNCHANGED <<llmVars, sttVars, local, phase, pending, jobs, toolJobs, rounds,
                 commands, reloads>>

-----------------------------------------------------------------------------
(* A job of the pipeline: transcribed, and rewritten in some text modes.    *)

JobBegins ==
  /\ In(Job, "idle") /\ Into(Job, "stt")
  /\ jobs < MaxJobs /\ jobs' = jobs + 1
  /\ pending' = TRUE /\ recent' = TRUE
  /\ disturbed' = ReloadRuns /\ UNCHANGED crossed
  /\ IF NeedsStt THEN StartStt(Job, "take") ELSE RemoteStt(Job)
  /\ UNCHANGED <<llmVars, toolJobs, rounds, commands>>

JobRewrites ==
  /\ In(Job, "stt") /\ SttIdle(Job) /\ Into(Job, "llm")
  /\ NeedsLlm /\ stt[Job].result = "text"
  /\ StartLlm(Job, "ensure")
  /\ UNCHANGED <<sttVars, pending, recent, jobs, toolJobs, rounds, commands, reloads>>

(* It is typed, or has failed; either is noted as an activity. *)
JobEnds ==
  /\ phase[Job] \in {"stt", "llm"} /\ Rests(Job) /\ Into(Job, "idle")
  /\ pending' = FALSE /\ recent' = TRUE
  /\ UNCHANGED <<llmVars, sttVars, jobs, toolJobs, rounds, commands, reloads>>

-----------------------------------------------------------------------------
(* A tool rewrites with its guard held; the prewarm thread loads both.      *)

ToolBegins ==
  /\ In(Tool, "idle") /\ NeedsLlm /\ Into(Tool, "tool")
  /\ toolJobs < MaxToolJobs /\ toolJobs' = toolJobs + 1
  /\ StartLlm(Tool, "ensure")
  /\ UNCHANGED <<sttVars, pending, recent, jobs, rounds, commands, reloads>>

PrewarmBegins ==
  /\ In(Tool, "idle") /\ NeedsStt /\ Into(Tool, "prewarm")
  /\ toolJobs < MaxToolJobs /\ toolJobs' = toolJobs + 1
  /\ StartStt(Tool, "take")
  /\ UNCHANGED <<llmVars, pending, recent, jobs, rounds, commands, reloads>>

PrewarmGoesOn ==
  /\ In(Tool, "prewarm") /\ SttIdle(Tool) /\ Into(Tool, "prewarmed")
  /\ IF NeedsLlm THEN StartLlm(Tool, "ensure") ELSE UNCHANGED llmVars
  /\ UNCHANGED <<sttVars, pending, recent, jobs, toolJobs, rounds, commands, reloads>>

ToolEnds ==
  /\ phase[Tool] \in {"tool", "prewarmed"} /\ Rests(Tool) /\ Into(Tool, "idle")
  /\ UNCHANGED <<llmVars, sttVars, pending, recent, jobs, toolJobs, rounds, commands,
                 reloads>>

-----------------------------------------------------------------------------
(* The watchdog: the language model, then the transcriber.  Whatever keeps   *)
(* it from unloading counts as an activity.                                 *)

KeepForWatch == UNCHANGED <<pending, jobs, toolJobs, commands, reloads>>

WatchLlm ==
  /\ In(Watchdog, "idle")
  /\ rounds < MaxRounds /\ rounds' = rounds + 1
  /\ NeedsLlm => CellFree /\ Unlocked(cell)
  /\ LET there == NeedsLlm /\ IsReady(cell)
     IN /\ Into(Watchdog, IF there /\ ~pending THEN "llmAge" ELSE "stt")
        /\ recent' = (recent \/ (there /\ pending))
  /\ UNCHANGED <<llmVars, sttVars>> /\ KeepForWatch

LlmAge ==
  /\ In(Watchdog, "llmAge") /\ Into(Watchdog, "stt")
  /\ IF recent THEN UNCHANGED llmVars ELSE StartLlm(Watchdog, "look")
  /\ UNCHANGED <<sttVars, recent, rounds>> /\ KeepForWatch

(* is_model_loaded waits for the mutex of the weights. *)
WatchStt ==
  /\ In(Watchdog, "stt") /\ LlmIdle(Watchdog) /\ user[sttCell] = Nobody
  /\ LET there == NeedsStt /\ loaded[sttCell]
         busy == pending \/ In(Tool, "tool")
     IN /\ Into(Watchdog, IF there /\ ~busy THEN "sttAge" ELSE "idle")
        /\ recent' = (recent \/ (there /\ busy))
  /\ UNCHANGED <<llmVars, sttVars, rounds>> /\ KeepForWatch

SttAge ==
  /\ In(Watchdog, "sttAge")
  /\ phase' = [phase EXCEPT ![Watchdog] = "idle",
                            ![Task] = IF recent THEN @ ELSE "spawned"]
  /\ UNCHANGED local
  /\ recent \/ In(Task, "idle")
  /\ UNCHANGED <<llmVars, sttVars, recent, rounds>> /\ KeepForWatch

(* unload_local_stt_for_idle, in a task: what has changed since is not seen  *)
(* but for the weights themselves.                                         *)
UnloadStt(p, from) ==
  /\ In(p, from) /\ Rests(p) /\ user[sttCell] = Nobody /\ Into(p, "done")
  /\ IF loaded[sttCell] THEN StartReload(p, "rotate") ELSE UNCHANGED <<sttVars, reloads>>
  /\ UNCHANGED <<llmVars, pending, recent, jobs, toolJobs, rounds, commands>>

Done(p) ==
  /\ In(p, "done") /\ Rests(p) /\ Into(p, "idle")
  /\ UNCHANGED <<llmVars, sttVars, pending, recent, jobs, toolJobs, rounds, commands,
                 reloads>>

-----------------------------------------------------------------------------
(* Commands.                                                               *)

KeepForCommand == UNCHANGED <<pending, recent, jobs, toolJobs, rounds>>
Takes == In(Settings, "idle") /\ commands < MaxCommands /\ commands' = commands + 1

(* apply_memory_policy: the transcriber is reloaded, or only the language   *)
(* model ...                                                               *)
UpdateStt ==
  /\ NeedsStt /\ Takes /\ Into(Settings, "update")
  /\ StartReload(Settings, "rotate")
  /\ UNCHANGED llmVars /\ KeepForCommand

UpdateLlm ==
  /\ NeedsLlm /\ Takes /\ Into(Settings, "done")
  /\ StartLlm(Settings, "sync")
  /\ UNCHANGED <<sttVars, reloads>> /\ KeepForCommand

(* ... or first the one and then the other; a language model that is not     *)
(* needed is taken out each time.                                          *)
UpdateGoesOn ==
  /\ In(Settings, "update") /\ SttIdle(Settings) /\ Into(Settings, "done")
  /\ IF NeedsLlm
     THEN StartLlm(Settings, "sync") \/ UNCHANGED llmVars
     ELSE StartLlm(Settings, "swap")
  /\ UNCHANGED <<sttVars, commands, reloads>> /\ KeepForCommand

(* recover_engine keeps the token. *)
Recover ==
  /\ NeedsStt /\ Takes /\ Into(Settings, "done")
  /\ StartReload(Settings, "create")
  /\ UNCHANGED llmVars /\ KeepForCommand

(* force_unload_local_models is refused while a job is pending. *)
ForceUnload ==
  /\ Takes /\ ~pending /\ Into(Settings, "force")
  /\ StartLlm(Settings, "look")
  /\ UNCHANGED <<sttVars, reloads>> /\ KeepForCommand

-----------------------------------------------------------------------------
Steps(p) ==
  \/ LlmStep(p) /\ UNCHANGED <<sttVars, idleVars>>
  \/ SttStep(p) /\ UNCHANGED <<llmVars, idleVars>>

Users ==
  \/ JobBegins \/ JobRewrites \/ JobEnds
  \/ ToolBegins \/ PrewarmBegins \/ PrewarmGoesOn \/ ToolEnds

Watch ==
  \/ WatchLlm \/ LlmAge \/ WatchStt \/ SttAge
  \/ UnloadStt(Task, "spawned") \/ Done(Task)

Commands ==
  \/ UpdateStt \/ UpdateLlm \/ UpdateGoesOn \/ Recover \/ ForceUnload
  \/ UnloadStt(Settings, "force") \/ Done(Settings)

Next ==
  \/ \E p \in Procs : Steps(p)
  \/ \E e \in Engines : ThreadStep(e) /\ UNCHANGED <<sttVars, idleVars>>
  \/ TimePasses \/ Users \/ Watch \/ Commands

Spec == Init /\ [][Next]_vars

FairSpec ==
  /\ Spec
  /\ \A p \in Procs : WF_vars(Steps(p))
  /\ \A e \in Engines : WF_vars(ThreadStep(e) /\ UNCHANGED <<sttVars, idleVars>>)

-----------------------------------------------------------------------------
(* Properties.                                                             *)

TypeOK ==
  /\ cell \in Engines \cup {NoEngine} /\ cellLock \in Procs \cup {Nobody}
  /\ ready \in [Engines -> BOOLEAN]
  /\ inner \in [Engines -> Procs \cup {Nobody}]
  /\ thread \in [Engines -> {"building", "serving", "deaf", "ended"}]
  /\ box \in [Engines -> Seq([kind : {"complete", "shutdown"}, from : Procs])]
  /\ llm \in [Procs -> [pc : LlmPcs, then : LlmPcs, eng : Engines \cup {NoEngine},
                        old : Engines \cup {NoEngine}, reply : Replies]]
  /\ token \in BOOLEAN /\ sttCell \in Instances
  /\ live \in [Instances -> BOOLEAN] /\ loaded \in [Instances -> BOOLEAN]
  /\ user \in [Instances -> Procs \cup {Nobody}]
  /\ stt \in [Procs -> [pc : SttPcs, inst : Instances \cup {NoInstance},
                        result : Results]]
  /\ {pending, recent, disturbed, crossed} \subseteq BOOLEAN

(* A job finds its weights gone only if a reload ran beside it, and is told  *)
(* that it was cancelled only then or after two reloads that met.           *)
FailsOnlyUnderReload ==
  pending => /\ stt[Job].result = "notLoaded" => disturbed
             /\ stt[Job].result = "cancelled" => disturbed \/ crossed

(* The speech model is unloaded "after idle": where nobody gives a command,  *)
(* the watchdog never takes the transcriber away from a job.                *)
IdleSparesJob == commands = 0 => stt[Job].result \notin {"cancelled", "notLoaded"}

(* A reload leaves a transcriber that can be used: rotate_transcriber_cancel *)
(* is to "issue a fresh token for the next transcriber instance".           *)
NextHasFreshToken == ~ReloadRuns => live[sttCell]

(* Whoever shuts an engine down comes back. *)
UnloadEnds ==
  \A p \in Procs : LlmAt(p, "join") ~> ~LlmAt(p, "join")

=============================================================================
