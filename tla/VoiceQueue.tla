----------------------------- MODULE VoiceQueue -----------------------------
(***************************************************************************)
(* The queue of voice files (tools/voice_watch/queue.rs): commands of the   *)
(* window, all on the main thread, and threads that found a new file put    *)
(* jobs in; a task that is started when there is work takes them out one by *)
(* one.  The queue is behind a mutex that an enqueuer keeps while it reads  *)
(* and writes the history (history.rs), a file that is loaded, changed and  *)
(* saved, by the task and by other commands without that mutex.             *)
(*                                                                         *)
(* A file is known by its content (the SHA-256 of voice_records.rs): its    *)
(* job, its history entry and its registry entry have the same name here.   *)
(* A save is one step: that it truncates the file first is not modelled.    *)
(***************************************************************************)
EXTENDS Naturals, Sequences, ToolSlot

CONSTANTS Files, NoFile,
          Unreadable,   \* files that cannot be ingested
          Ui,           \* the main thread
          Candidates,   \* threads of handle_candidate
          Nobody,       \* the mutex is free
          Tasks,        \* worker tasks that may exist at a time
          PathLists,    \* what the user drops on the window
          MaxCommands   \* bound: commands of the window

Procs == Candidates \cup {Ui}

ASSUME QueueAssumption ==
  /\ NoFile \notin Files /\ Unreadable \subseteq Files
  /\ Ui \notin Candidates /\ Nobody \notin Procs
  /\ Procs \cap Tasks = {}
  /\ PathLists \subseteq Seq(Files)
  /\ MaxCommands \in Nat

VARIABLES
  history,    \* voice-history.json: the status of each file, "none" if unlisted
  registry,   \* voice-watch-registry.json: the files that were ever ingested
  pending, active, lock, scheduled,  \* VoiceQueue
  proc,       \* the threads that put files in
  task,       \* the worker tasks
  snap,       \* the history as somebody has loaded it
  commands,
  overlap,    \* history: an update of the history was lost
  stranded    \* history: an enqueue failed after it had put a job in

queueVars == <<pending, active, lock, scheduled>>
diskVars == <<history, registry>>
notes == <<commands, overlap, stranded>>
vqVars == <<diskVars, queueVars, proc, task, snap, notes>>

TaskPcs == {"idle", "pop", "load", "save", "wait", "begin", "transcribe", "clear",
            "again", "end", "recheck", "reschedule"}
ProcPcs == {"idle", "lock", "next", "put", "schedule", "unlist", "unlisted", "index",
            "indexed", "known", "long", "refused", "apply"}
Statuses == {"none", "indexed", "pending", "processing", "done", "error"}
Histories == [Files -> Statuses]
NoSnap == [f \in Files |-> "none"]

(* What a thread that puts files in has in hand, and a task. *)
Doing(pc, paths, prior) ==
  [pc |-> pc, paths |-> paths, created |-> FALSE, prior |-> prior]
Idle == Doing("idle", <<>>, "none")

Working(pc, file, result) == [pc |-> pc, file |-> file, result |-> result]
IdleTask == Working("idle", NoFile, "none")

QueueInit ==
  /\ history = [f \in Files |-> "none"] /\ registry = {}
  /\ pending = <<>> /\ active = NoFile /\ lock = Nobody /\ scheduled = FALSE
  /\ proc = [p \in Procs |-> Idle]
  /\ task = [k \in Tasks |-> IdleTask]
  /\ snap = [p \in Procs \cup Tasks |-> NoSnap]
  /\ commands = 0 /\ overlap = FALSE /\ stranded = FALSE

Queued(f) == active = f \/ \E i \in DOMAIN pending : pending[i] = f

(* load_history, and save_history with the entry of f changed. *)
Load(p) == snap' = [snap EXCEPT ![p] = history]
Save(p, f, status) ==
  /\ history' = [snap[p] EXCEPT ![f] = status]
  /\ snap' = [snap EXCEPT ![p] = NoSnap]

-----------------------------------------------------------------------------
(* The worker task.                                                        *)

TaskAt(k, pc) == task[k].pc = pc
TaskGoes(k, pc) == task' = [task EXCEPT ![k].pc = pc]

(* schedule_worker: one task at a time. *)
Schedule ==
  \/ scheduled /\ UNCHANGED <<scheduled, task>>
  \/ /\ ~scheduled /\ scheduled' = TRUE
     /\ \E k \in Tasks : TaskAt(k, "idle") /\ TaskGoes(k, "pop")

KeepForTask == UNCHANGED <<registry, proc, commands>>

(* The head of the loop of run_worker. *)
Pop(k) ==
  /\ TaskAt(k, "pop") /\ lock = Nobody /\ pending # <<>>
  /\ pending' = Tail(pending) /\ active' = Head(pending)
  /\ task' = [task EXCEPT ![k] = Working("load", Head(pending), "processing")]
  /\ stranded' = FALSE
  /\ UNCHANGED <<history, lock, scheduled, snap, overlap, slotVars>> /\ KeepForTask

PopNothing(k) ==
  /\ TaskAt(k, "pop") /\ lock = Nobody /\ pending = <<>>
  /\ TaskGoes(k, "end")
  /\ UNCHANGED <<history, queueVars, snap, overlap, stranded, slotVars>>
  /\ KeepForTask

(* update_history_status: to processing at first, then to the result. *)
LoadStatus(k) ==
  /\ TaskAt(k, "load") /\ TaskGoes(k, "save")
  /\ Load(k)
  /\ UNCHANGED <<history, queueVars, overlap, stranded, slotVars>> /\ KeepForTask

(* Variant for the checks: an error is not written down. *)
SaveGoodStatus(k) ==
  /\ TaskAt(k, "save")
  /\ TaskGoes(k, IF task[k].result = "processing" THEN "wait" ELSE "clear")
  /\ IF task[k].result = "error" THEN history' = snap[k] /\ UNCHANGED snap
     ELSE Save(k, task[k].file, task[k].result)
  /\ overlap' = (overlap \/ history # snap[k])
  /\ UNCHANGED <<queueVars, stranded, slotVars>> /\ KeepForTask

SaveStatus(k) ==
  /\ TaskAt(k, "save")
  /\ TaskGoes(k, IF task[k].result = "processing" THEN "wait" ELSE "clear")
  /\ Save(k, task[k].file, task[k].result)
  /\ overlap' = (overlap \/ history # snap[k])
  /\ UNCHANGED <<queueVars, stranded, slotVars>> /\ KeepForTask

(* wait_for_tools_slot, before a job and after one that was turned away. *)
SlotSeenFree(k) ==
  /\ task[k].pc \in {"wait", "again"} /\ SlotFree
  /\ TaskGoes(k, IF TaskAt(k, "wait") THEN "begin" ELSE "pop")
  /\ UNCHANGED <<history, queueVars, snap, overlap, stranded, slotVars>>
  /\ KeepForTask

(* transcribe_voice_file takes the slot ... *)
BeginFile(k) ==
  /\ TaskAt(k, "begin") /\ TaskGoes(k, "transcribe")
  /\ TryBegin
  /\ UNCHANGED <<history, queueVars, snap, overlap, stranded, dictating, stageActive,
                 tool, dictations, toolJobs, panics>>
  /\ KeepForTask

(* ... and when it is refused the job goes back to the head of the queue.   *)
Requeue(k) ==
  /\ TaskAt(k, "begin") /\ ~SlotFree /\ lock = Nobody
  /\ pending' = <<task[k].file>> \o pending /\ active' = NoFile
  /\ task' = [task EXCEPT ![k] = Working("again", NoFile, "none")]
  /\ UNCHANGED <<history, lock, scheduled, snap, overlap, stranded, slotVars>>
  /\ KeepForTask

EndFile(k) ==
  /\ TaskAt(k, "transcribe")
  /\ DropGuard
  /\ \E r \in {"done", "error"} :
       task' = [task EXCEPT ![k] = Working("load", task[k].file, r)]
  /\ UNCHANGED <<history, queueVars, snap, overlap, stranded, dictating, stageActive,
                 tool, dictations, toolJobs, panics>>
  /\ KeepForTask

(* The registry has known the file since it was ingested. *)
ClearActive(k) ==
  /\ TaskAt(k, "clear") /\ lock = Nobody
  /\ active' = NoFile
  /\ task' = [task EXCEPT ![k] = Working("pop", NoFile, "none")]
  /\ UNCHANGED <<history, pending, lock, scheduled, snap, overlap, stranded, slotVars>>
  /\ KeepForTask

(* The rest of the task: the flag is lowered, and then it looks once more.  *)
Unschedule(k) ==
  /\ TaskAt(k, "end") /\ TaskGoes(k, "recheck")
  /\ scheduled' = FALSE
  /\ UNCHANGED <<history, pending, active, lock, snap, overlap, stranded, slotVars>>
  /\ KeepForTask

(* Variant for the checks: it does not. *)
EndUnchecked(k) ==
  /\ TaskAt(k, "recheck") /\ TaskGoes(k, "idle")
  /\ UNCHANGED <<history, queueVars, snap, overlap, stranded, slotVars>>
  /\ KeepForTask

Recheck(k) ==
  /\ TaskAt(k, "recheck") /\ lock = Nobody
  /\ TaskGoes(k, IF pending # <<>> THEN "reschedule" ELSE "idle")
  /\ UNCHANGED <<history, queueVars, snap, overlap, stranded, slotVars>>
  /\ KeepForTask

(* The successor is a task of its own; it takes over the name. *)
Reschedule(k) ==
  /\ TaskAt(k, "reschedule")
  /\ TaskGoes(k, IF scheduled THEN "idle" ELSE "pop")
  /\ scheduled' = TRUE
  /\ UNCHANGED <<history, pending, active, lock, snap, overlap, stranded, slotVars>>
  /\ KeepForTask

TaskStep(k) ==
  \/ Pop(k) \/ PopNothing(k) \/ LoadStatus(k) \/ SaveStatus(k) \/ SlotSeenFree(k)
  \/ BeginFile(k) \/ Requeue(k) \/ EndFile(k) \/ ClearActive(k) \/ Unschedule(k)
  \/ Recheck(k) \/ Reschedule(k)

-----------------------------------------------------------------------------
(* Putting files in.                                                       *)

At(p, pc) == proc[p].pc = pc
Goes(p, pc) == proc' = [proc EXCEPT ![p].pc = pc]
Done(p) == proc' = [proc EXCEPT ![p] = Idle]
Begin(p, pc, paths) == proc' = [proc EXCEPT ![p] = Doing(pc, paths, "none")]

KeepForProc == UNCHANGED <<commands, slotVars>>

TakeLock(p) ==
  /\ At(p, "lock") /\ Goes(p, "next")
  /\ lock = Nobody /\ lock' = p
  /\ UNCHANGED <<diskVars, pending, active, scheduled, task, snap, overlap, stranded>>
  /\ KeepForProc

(* prepare_import remembers the file, and a file that has a job is skipped. *)
SkipQueued(p) ==
  /\ At(p, "next") /\ proc[p].paths # <<>>
  /\ LET f == Head(proc[p].paths)
     IN f \notin Unreadable /\ Queued(f) /\ registry' = registry \cup {f}
  /\ proc' = [proc EXCEPT ![p].paths = Tail(proc[p].paths)]
  /\ UNCHANGED <<history, queueVars, task, snap, overlap, stranded>> /\ KeepForProc

(* Variant for the checks: only what waits is looked at. *)
ImportUnlessPending(p) ==
  /\ At(p, "next") /\ proc[p].paths # <<>>
  /\ LET f == Head(proc[p].paths)
     IN f \notin Unreadable /\ ~(\E i \in DOMAIN pending : pending[i] = f)
        /\ registry' = registry \cup {f}
  /\ Goes(p, "put")
  /\ Load(p)
  /\ UNCHANGED <<history, queueVars, task, overlap, stranded>> /\ KeepForProc

Import(p) ==
  /\ At(p, "next") /\ proc[p].paths # <<>>
  /\ LET f == Head(proc[p].paths)
     IN f \notin Unreadable /\ ~Queued(f) /\ registry' = registry \cup {f}
  /\ Goes(p, "put")
  /\ Load(p)
  /\ UNCHANGED <<history, queueVars, task, overlap, stranded>> /\ KeepForProc

PutJob(p) ==
  /\ At(p, "put")
  /\ LET f == Head(proc[p].paths)
     IN Save(p, f, "pending") /\ pending' = Append(pending, f)
  /\ overlap' = (overlap \/ history # snap[p])
  /\ proc' = [proc EXCEPT ![p] = [pc |-> "next", paths |-> Tail(proc[p].paths),
                                  created |-> TRUE, prior |-> "none"]]
  /\ UNCHANGED <<registry, active, lock, scheduled, task, stranded>> /\ KeepForProc

(* A path that cannot be ingested ends the command, whatever was put in.    *)
ImportFails(p) ==
  /\ At(p, "next") /\ proc[p].paths # <<>> /\ Head(proc[p].paths) \in Unreadable
  /\ lock' = Nobody /\ Done(p)
  /\ stranded' = (stranded \/ proc[p].created)
  /\ UNCHANGED <<diskVars, pending, active, scheduled, task, snap, overlap>> /\ KeepForProc

EndEnqueue(p) ==
  /\ At(p, "next") /\ proc[p].paths = <<>>
  /\ lock' = Nobody
  /\ IF proc[p].created THEN Goes(p, "schedule") ELSE Done(p)
  /\ UNCHANGED <<diskVars, pending, active, scheduled, task, snap, overlap, stranded>>
  /\ KeepForProc

ScheduleWorker(p) ==
  /\ At(p, "schedule") /\ Done(p)
  /\ Schedule
  /\ UNCHANGED <<diskVars, pending, active, lock, snap, overlap, stranded>> /\ KeepForProc

(* delete_history_entry. *)
LoadToUnlist(p) ==
  /\ At(p, "unlist") /\ Goes(p, "unlisted")
  /\ Load(p)
  /\ UNCHANGED <<diskVars, queueVars, task, overlap, stranded>> /\ KeepForProc

Unlist(p) ==
  /\ At(p, "unlisted") /\ Done(p)
  /\ Save(p, Head(proc[p].paths), "none")
  /\ overlap' = (overlap \/ history # snap[p])
  /\ UNCHANGED <<registry, queueVars, task, stranded>> /\ KeepForProc

(* register_index_paths: the status it saves is the one it saw at first. *)
LoadToIndex(p) ==
  /\ At(p, "index") /\ Goes(p, "indexed")
  /\ Load(p)
  /\ UNCHANGED <<diskVars, queueVars, task, overlap, stranded>> /\ KeepForProc

Index(p) ==
  /\ At(p, "indexed") /\ Done(p)
  /\ LET f == Head(proc[p].paths)
     IN /\ Save(p, f, IF proc[p].prior = "none" THEN "indexed" ELSE proc[p].prior)
        /\ overlap' = (overlap \/ history # snap[p] \/ history[f] # proc[p].prior)
  /\ UNCHANGED <<registry, queueVars, task, stranded>> /\ KeepForProc

ProcStep(p) ==
  \/ TakeLock(p) \/ SkipQueued(p) \/ Import(p) \/ PutJob(p) \/ ImportFails(p)
  \/ EndEnqueue(p) \/ ScheduleWorker(p) \/ LoadToUnlist(p) \/ Unlist(p)
  \/ LoadToIndex(p) \/ Index(p)

-----------------------------------------------------------------------------
(* The commands of the window.                                             *)

Command ==
  /\ At(Ui, "idle")
  /\ commands < MaxCommands /\ commands' = commands + 1
  /\ UNCHANGED <<task, overlap, stranded, slotVars>>

EnqueueVoiceFile ==
  /\ Command
  /\ \E paths \in PathLists : Begin(Ui, "lock", paths)
  /\ UNCHANGED <<diskVars, queueVars, snap>>

(* retry_history_entry. *)
Retry ==
  /\ Command
  /\ \E f \in Files : history[f] # "none" /\ Begin(Ui, "lock", <<f>>)
  /\ UNCHANGED <<diskVars, queueVars, snap>>

(* A file has one job at most, see OnceQueued. *)
Without(s, f) ==
  IF \E i \in DOMAIN s : s[i] = f
  THEN LET n == CHOOSE i \in DOMAIN s : s[i] = f
       IN [i \in 1 .. Len(s) - 1 |-> IF i < n THEN s[i] ELSE s[i + 1]]
  ELSE s

(* remove_from_index: a job that is being transcribed is left alone. *)
RemoveFromIndex ==
  /\ Command /\ lock = Nobody
  /\ \E f \in Files :
       /\ pending' = Without(pending, f)
       /\ Begin(Ui, "unlist", <<f>>)
  /\ UNCHANGED <<diskVars, active, lock, scheduled, snap>>

DeleteEntry ==
  /\ Command
  /\ \E f \in Files : Begin(Ui, "unlist", <<f>>)
  /\ UNCHANGED <<diskVars, queueVars, snap>>

ClearHistory ==
  /\ Command
  /\ history' = NoSnap
  /\ UNCHANGED <<registry, queueVars, proc, snap>>

RegisterIndexPath ==
  /\ Command
  /\ \E f \in Files \ Unreadable :
       /\ registry' = registry \cup {f}
       /\ proc' = [proc EXCEPT ![Ui] = Doing("index", <<f>>, history[f])]
  /\ UNCHANGED <<history, queueVars, snap>>

Window == EnqueueVoiceFile \/ Retry \/ RemoveFromIndex \/ DeleteEntry \/ ClearHistory
          \/ RegisterIndexPath

DiskTypeOK ==
  /\ history \in Histories /\ registry \in SUBSET Files
  /\ snap \in [Procs \cup Tasks -> Histories]

ProcStates == [pc : ProcPcs, paths : Seq(Files), created : BOOLEAN, prior : Statuses]
TaskStates == [pc : TaskPcs, file : Files \cup {NoFile}, result : Statuses]

ProcTypeOK == proc \in [Procs -> ProcStates]
TaskTypeOK == task \in [Tasks -> TaskStates]

QueueTypeOK ==
  /\ pending \in Seq(Files) /\ active \in Files \cup {NoFile}
  /\ lock \in Procs \cup {Nobody} /\ scheduled \in BOOLEAN
  /\ commands \in Nat /\ overlap \in BOOLEAN /\ stranded \in BOOLEAN

=============================================================================
