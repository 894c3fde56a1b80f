----------------------------- MODULE VoiceWatch -----------------------------
(***************************************************************************)
(* The watch of folders for new voice files (tools/voice_watch/service.rs   *)
(* and watcher.rs) on top of their queue.  Settings start, update and stop  *)
(* a thread through a channel; the thread hands every new file to a thread  *)
(* of its own, which looks whether the file is known and enqueues it.  Here *)
(* everything is put together, and the program may be killed and started    *)
(* again: what it keeps is the history and the registry.                   *)
(***************************************************************************)
EXTENDS VoiceQueue, FiniteSets

CONSTANTS LongFiles,   \* longer than max_duration_secs
          MaxEvents,   \* bound: files the watch reports
          MaxCrashes   \* bound: kills

ASSUME WatchAssumption ==
  /\ LongFiles \subseteq Files
  /\ MaxEvents \in Nat /\ MaxCrashes \in Nat

VARIABLES
  wanted,       \* the settings: watch, and not paused for a cloud provider
  running, tx,  \* VoiceWatcherHandle: tx once there has been a channel
  loop,         \* run_watcher_loop
  inbox,        \* its channel, as long as the loop lives
  events, crashes,
  unwatched,    \* history: the loop failed to start, or left an update unread
  interrupted   \* history: files with a job when the program was killed

watchVars == <<wanted, running, tx, loop, inbox, events, crashes, unwatched,
               interrupted>>
vars == <<slotVars, vqVars, watchVars>>

Init ==
  /\ SlotInit /\ QueueInit
  /\ wanted = FALSE /\ running = FALSE /\ tx = FALSE /\ loop = "none" /\ inbox = <<>>
  /\ events = 0 /\ crashes = 0
  /\ unwatched = FALSE /\ interrupted = {}

-----------------------------------------------------------------------------
(* Settings.                                                               *)

KeepHistories == UNCHANGED <<crashes, interrupted>>

(* update_settings or voice_watch_set_enabled, as far as the purge ...      *)
ApplySettings ==
  /\ Command /\ Goes(Ui, "apply")
  /\ wanted' \in BOOLEAN
  /\ Load(Ui)
  /\ UNCHANGED <<diskVars, queueVars, running, tx, loop, inbox, events, unwatched>>
  /\ KeepHistories

(* purge_expired saves what it has loaded, with nothing expired too.        *)
Purge ==
  /\ history' = snap[Ui] /\ snap' = [snap EXCEPT ![Ui] = NoSnap]
  /\ overlap' = (overlap \/ history # snap[Ui])

Alive == loop # "none"

Send(m) == inbox' = IF Alive THEN Append(inbox, m) ELSE inbox

StartLoop == inbox' = <<>> /\ loop' = "build" /\ unwatched' = FALSE

(* Variant for the checks: that nobody receives is not noticed.             *)
UpdateIfStarted ==
  /\ running' = TRUE /\ tx' = TRUE
  /\ IF tx THEN Send("update") /\ UNCHANGED <<loop, unwatched>> ELSE StartLoop

(* start_or_update: who has gone cannot be sent to, and is replaced.        *)
StartOrUpdate ==
  /\ running' = TRUE /\ tx' = TRUE
  /\ IF tx /\ Alive THEN Send("update") /\ UNCHANGED <<loop, unwatched>> ELSE StartLoop

StopWatch ==
  /\ running' = FALSE
  /\ Send("stop")
  /\ UNCHANGED <<tx, loop, unwatched>>

(* ... and from there. *)
ApplyToWatch ==
  /\ At(Ui, "apply") /\ Done(Ui)
  /\ Purge
  /\ IF wanted THEN StartOrUpdate ELSE StopWatch
  /\ UNCHANGED <<slotVars, registry, queueVars, task, commands, stranded, wanted,
                 events>>
  /\ KeepHistories

-----------------------------------------------------------------------------
(* The thread that watches.                                                *)

KeepForLoop ==
  /\ UNCHANGED <<slotVars, diskVars, queueVars, task, snap, notes, wanted, running, tx>>
  /\ KeepHistories

Build ==
  /\ loop = "build" /\ loop' = "watch"
  /\ UNCHANGED <<proc, inbox, events, unwatched>> /\ KeepForLoop

(* The flag it lowers then is one of its own, that nobody reads.            *)
BuildFails ==
  /\ loop = "build" /\ loop' = "none" /\ inbox' = <<>>
  /\ unwatched' = TRUE
  /\ UNCHANGED <<proc, events>> /\ KeepForLoop

TakeUpdate ==
  /\ loop = "watch" /\ inbox # <<>> /\ Head(inbox) = "update"
  /\ loop' = "build" /\ inbox' = Tail(inbox)
  /\ UNCHANGED <<proc, events, unwatched>> /\ KeepForLoop

(* What was sent behind the stop is lost with the channel.                  *)
TakeStop ==
  /\ loop = "watch" /\ inbox # <<>> /\ Head(inbox) = "stop"
  /\ loop' = "none" /\ inbox' = <<>>
  /\ unwatched' = (unwatched \/ Tail(inbox) # <<>>)
  /\ UNCHANGED <<proc, events>> /\ KeepForLoop

(* A file that is new and has settled goes to a thread of its own. *)
FileSeen ==
  /\ loop = "watch"
  /\ events < MaxEvents /\ events' = events + 1
  /\ \E c \in Candidates, f \in Files :
       /\ At(c, "idle")
       /\ Begin(c, "known", <<f>>)
  /\ UNCHANGED <<loop, inbox, unwatched>> /\ KeepForLoop

(* handle_candidate: the registry, the history, the length.  A file that    *)
(* has a history entry and is too long is in no registry.                  *)
Candidate(c) ==
  /\ At(c, "known")
  /\ LET f == Head(proc[c].paths)
     IN IF f \in registry \/ history[f] # "none" THEN Done(c)
        ELSE Goes(c, IF f \in LongFiles THEN "long" ELSE "lock")
  /\ UNCHANGED <<loop, inbox, events, unwatched>> /\ KeepForLoop

LoadToRefuse(c) ==
  /\ At(c, "long") /\ Goes(c, "refused")
  /\ Load(c)
  /\ UNCHANGED <<slotVars, diskVars, queueVars, task, notes, watchVars>>

TooLong(c) ==
  /\ At(c, "refused") /\ Done(c)
  /\ Save(c, Head(proc[c].paths), "error")
  /\ overlap' = (overlap \/ history # snap[c])
  /\ UNCHANGED <<slotVars, registry, queueVars, task, commands, stranded, watchVars>>

Watch ==
  \/ Build \/ BuildFails \/ TakeUpdate \/ TakeStop \/ FileSeen
  \/ \E c \in Candidates : Candidate(c) \/ LoadToRefuse(c) \/ TooLong(c)

-----------------------------------------------------------------------------
(* Killed, started again, and as far as start_voice_watch_runtime.          *)
Crash ==
  /\ crashes < MaxCrashes /\ crashes' = crashes + 1
  /\ interrupted' = interrupted \cup {f \in Files : history[f] \in {"pending", "processing"}}
  /\ pending' = <<>> /\ active' = NoFile /\ lock' = Nobody /\ scheduled' = FALSE
  /\ proc' = [p \in Procs |-> IF p = Ui THEN Doing("apply", <<>>, "none") ELSE Idle]
  /\ task' = [k \in Tasks |-> IdleTask]
  /\ snap' = [p \in Procs \cup Tasks |-> IF p = Ui THEN history ELSE NoSnap]
  /\ stranded' = FALSE
  /\ dictating' = FALSE /\ busy' = FALSE /\ stageActive' = FALSE
  /\ tool' = [t \in Tools |-> "idle"]
  /\ running' = FALSE /\ tx' = FALSE /\ loop' = "none" /\ inbox' = <<>> /\ unwatched' = FALSE
  /\ UNCHANGED <<diskVars, commands, overlap, wanted, events, dictations, toolJobs,
                 panics>>

Next ==
  \/ /\ Window \/ (\E p \in Procs : ProcStep(p)) \/ (\E k \in Tasks : TaskStep(k))
     /\ UNCHANGED watchVars
  \/ SlotNext /\ UNCHANGED <<vqVars, watchVars>>
  \/ ApplySettings \/ ApplyToWatch \/ Watch \/ Crash

Spec == Init /\ [][Next]_vars

-----------------------------------------------------------------------------
(* Properties.                                                             *)

InLoop == TaskPcs \ {"idle", "recheck", "reschedule"}
HasFile == {"load", "save", "wait", "begin", "transcribe", "clear"}

WatchTypeOK ==
  /\ wanted \in BOOLEAN /\ running \in BOOLEAN /\ tx \in BOOLEAN
  /\ loop \in {"none", "build", "watch"} /\ inbox \in Seq({"update", "stop"})
  /\ events \in Nat /\ crashes \in Nat
  /\ unwatched \in BOOLEAN /\ interrupted \in SUBSET Files

(* The type of every variable. *)
TypeOK ==
  SlotTypeOK /\ DiskTypeOK /\ ProcTypeOK /\ TaskTypeOK /\ QueueTypeOK /\ WatchTypeOK

(* One file, or one tool, is transcribed at a time, whoever of the window,  *)
(* the watch and the tools asks; one task serves the queue; what it works   *)
(* on is the active job.                                                   *)
OneAtATime ==
  /\ StagesApart
  /\ \A k \in Tasks : TaskAt(k, "transcribe") => \A t \in Tools : ~HoldsGuard(t)
  /\ \A k, l \in Tasks : task[k].pc \in InLoop /\ task[l].pc \in InLoop => k = l
  /\ \A k \in Tasks : task[k].pc \in HasFile => active = task[k].file

(* A file has one job, however often it is dropped, seen and retried while  *)
(* it waits or is worked on.                                               *)
OnceQueued ==
  /\ \A i, j \in DOMAIN pending : pending[i] = pending[j] => i = j
  /\ \A i \in DOMAIN pending : pending[i] # active

(* No job waits without a task that will come to it: one is in its loop, or *)
(* looks again before it ends, or whoever put the job in is about to start  *)
(* one.  Only jobs put in by an enqueue that failed half-way (stranded) have *)
(* nobody.                                                                 *)
SomeoneComes ==
  (\E k \in Tasks : ~TaskAt(k, "idle")) \/ (\E p \in Procs : proc[p].created)

NobodyForgotten == pending # <<>> => SomeoneComes \/ stranded

(* When nothing is left to do no file is listed as waiting or in work,      *)
(* unless the program was killed while it was, or an update of the history  *)
(* overtook another (overlap).                                             *)
AtRest ==
  /\ pending = <<>>
  /\ \A p \in Procs : At(p, "idle")
  /\ \A k \in Tasks : TaskAt(k, "idle")

NoStaleStatus ==
  AtRest /\ ~overlap =>
    \A f \in Files : history[f] \in {"pending", "processing"} => f \in interrupted

(* Once the channel is read, folders are watched if and only if the handle  *)
(* says so and the settings want it, however fast they were changed, but    *)
(* for the two cases noted: no watch could be made, or the loop read a stop *)
(* that an update had followed.                                            *)
WatchesWhenOn ==
  inbox = <<>> /\ At(Ui, "idle") =>
    /\ running = wanted
    /\ Alive => running
    /\ running => Alive \/ unwatched

=============================================================================
