-------------------------- MODULE VoiceWatch_proofs --------------------------
(***************************************************************************)
(* Theorems about VoiceWatch, for every number of files, tasks, candidate   *)
(* threads and tools, and without any of the bounds.                       *)
(***************************************************************************)
EXTENDS VoiceWatch, SequenceTheorems, TLAPS

-----------------------------------------------------------------------------
(* The inductive invariant, in parts.                                      *)

(* The flag of the slot says that somebody transcribes, and nobody shares.  *)
SlotInv ==
  /\ \A t \in Tools : HoldsGuard(t) => busy
  /\ \A k \in Tasks : TaskAt(k, "transcribe") => busy
  /\ \A k, l \in Tasks : TaskAt(k, "transcribe") /\ TaskAt(l, "transcribe") => k = l
  /\ \A k \in Tasks : TaskAt(k, "transcribe") => \A t \in Tools : ~HoldsGuard(t)
  /\ StagesApart

(* A task is in its loop if and only if the flag is up, and it is the only  *)
(* one; the job it works on is the active one.                             *)
TaskInv ==
  /\ \A k, l \in Tasks : task[k].pc \in InLoop /\ task[l].pc \in InLoop => k = l
  /\ scheduled => \E k \in Tasks : task[k].pc \in InLoop
  /\ \A k \in Tasks : task[k].pc \in InLoop => scheduled
  /\ \A k \in Tasks : task[k].pc \in HasFile => active = task[k].file /\ active \in Files

(* Who puts files in has the mutex, and the file it is about to put in has  *)
(* no job.                                                                 *)
LockInv ==
  /\ \A p \in Procs : proc[p].pc \in {"next", "put"} => lock = p
  /\ \A p \in Procs : At(p, "put") => /\ proc[p].paths # <<>>
                                      /\ ~Queued(Head(proc[p].paths))
  /\ \A p \in Procs : proc[p].created => proc[p].pc \in {"next", "put", "schedule"}

(* The last message in the channel is what the handle says, and a loop that *)
(* has nothing to read is wanted.                                          *)
WatchInv ==
  /\ ~At(Ui, "apply") => running = wanted
  /\ Alive /\ inbox = <<>> => running
  /\ Alive /\ inbox # <<>> => (running <=> inbox[Len(inbox)] = "update")
  /\ ~Alive => inbox = <<>> /\ (running => unwatched)

(* A file that is listed as waiting or in work has a job or is about to be  *)
(* unlisted.                                                               *)
Waits(f) == \E i \in DOMAIN pending : pending[i] = f
InWork(f) == \E k \in Tasks : task[k].pc \in HasFile \ {"clear"} /\ task[k].file = f
Unlisting(f) ==
  \E p \in Procs : proc[p].pc \in {"unlist", "unlisted"} /\ Head(proc[p].paths) = f

Expected(f) == f \in interrupted \/ Waits(f) \/ InWork(f) \/ Unlisting(f)

StatusInv ==
  /\ \A k \in Tasks : task[k].pc \in {"load", "save"} =>
       task[k].result \in {"processing", "done", "error"}
  /\ ~overlap =>
       \A f \in Files : history[f] \in {"pending", "processing"} => Expected(f)

VoiceInv ==
  TypeOK /\ SlotInv /\ TaskInv /\ LockInv /\ OnceQueued /\ NobodyForgotten /\ WatchInv
  /\ StatusInv

-----------------------------------------------------------------------------
(* Lemmas about the operators of the model.                                *)

(* A task that goes on, and one that gets a job, have their type.           *)
LEMMA TaskGoesType ==
  ASSUME TaskTypeOK, NEW k \in Tasks, NEW pc \in TaskPcs, TaskGoes(k, pc)
  PROVE  TaskTypeOK'
<1>1. [task[k] EXCEPT !.pc = pc] \in TaskStates
  BY DEF TaskTypeOK, TaskStates
<1> QED
  BY <1>1 DEF TaskTypeOK, TaskGoes

LEMMA WorkingType ==
  ASSUME NEW pc \in TaskPcs, NEW file \in Files \cup {NoFile}, NEW result \in Statuses
  PROVE  Working(pc, file, result) \in TaskStates
BY DEF Working, TaskStates

(* So have a thread that goes on, one that begins and one that is done.     *)
LEMMA GoesType ==
  ASSUME ProcTypeOK, NEW p \in Procs, NEW pc \in ProcPcs, Goes(p, pc)
  PROVE  ProcTypeOK'
<1>1. [proc[p] EXCEPT !.pc = pc] \in ProcStates
  BY DEF ProcTypeOK, ProcStates
<1> QED
  BY <1>1 DEF ProcTypeOK, Goes

LEMMA DoingType ==
  ASSUME NEW pc \in ProcPcs, NEW paths \in Seq(Files), NEW prior \in Statuses
  PROVE  Doing(pc, paths, prior) \in ProcStates
BY DEF Doing, ProcStates

LEMMA BeginType ==
  ASSUME ProcTypeOK, NEW p \in Procs, NEW pc \in ProcPcs, NEW paths \in Seq(Files),
         Begin(p, pc, paths)
  PROVE  ProcTypeOK'
<1>1. Doing(pc, paths, "none") \in ProcStates
  BY DoingType DEF Statuses
<1> QED
  BY <1>1 DEF ProcTypeOK, Begin

LEMMA DoneType ==
  ASSUME ProcTypeOK, NEW p \in Procs, Done(p)
  PROVE  ProcTypeOK'
<1>1. <<>> \in Seq(Files) /\ "idle" \in ProcPcs /\ "none" \in Statuses
  BY DEF ProcPcs, Statuses
<1>2. Idle \in ProcStates
  BY <1>1, DoingType DEF Idle
<1> QED
  BY <1>2 DEF ProcTypeOK, Done

(* The history that is loaded and the one that is saved have their type.    *)
LEMMA LoadType ==
  ASSUME DiskTypeOK, NEW p \in Procs \cup Tasks, Load(p), UNCHANGED <<history, registry>>
  PROVE  DiskTypeOK'
BY DEF DiskTypeOK, Load

LEMMA NoSnapType == NoSnap \in Histories
BY DEF NoSnap, Histories, Statuses

LEMMA SaveType ==
  ASSUME DiskTypeOK, NEW p \in Procs \cup Tasks, NEW f, NEW status \in Statuses,
         Save(p, f, status), registry' \in SUBSET Files
  PROVE  DiskTypeOK'
<1>1. snap[p] \in Histories
  BY DEF DiskTypeOK
<1>2. [snap[p] EXCEPT ![f] = status] \in Histories
  BY <1>1 DEF Histories
<1> QED
  BY <1>2, NoSnapType DEF DiskTypeOK, Save

(* A single file is a list of files.                                        *)
LEMMA OneFile == \A f \in Files : <<f>> \in Seq(Files)
OBVIOUS

(* Without a file the queue is a list of files; what stood at two places    *)
(* still does, and only that file is gone.                                  *)
LEMMA WithoutOne ==
  ASSUME NEW s \in Seq(Files), NEW f
  PROVE  /\ Without(s, f) \in Seq(Files)
         /\ \A i \in DOMAIN Without(s, f) : \E j \in DOMAIN s :
              /\ Without(s, f)[i] = s[j]
              /\ \A l \in DOMAIN Without(s, f) : i # l => \E m \in DOMAIN s :
                   m # j /\ Without(s, f)[l] = s[m]
         /\ \A j \in DOMAIN s : s[j] # f =>
              \E i \in DOMAIN Without(s, f) : Without(s, f)[i] = s[j]
<1>1. CASE ~\E i \in DOMAIN s : s[i] = f
  BY <1>1 DEF Without
<1>2. CASE \E i \in DOMAIN s : s[i] = f
  <2> DEFINE n == CHOOSE i \in DOMAIN s : s[i] = f
             w == [i \in 1 .. Len(s) - 1 |-> IF i < n THEN s[i] ELSE s[i + 1]]
  <2>1. n \in 1 .. Len(s) /\ s[n] = f
    BY <1>2
  <2>2. Without(s, f) = w
    BY <1>2 DEF Without
  <2> HIDE DEF n
  <2>3. Len(s) - 1 \in Nat /\ \A i \in 1 .. Len(s) - 1 : w[i] \in Files
    BY <2>1
  <2>4. w \in Seq(Files)
    BY <2>3
  <2>5. DOMAIN w = 1 .. Len(s) - 1 /\ DOMAIN s = 1 .. Len(s)
    OBVIOUS
  <2>6. ASSUME NEW i \in DOMAIN w
        PROVE  \E j \in DOMAIN s :
                 /\ w[i] = s[j]
                 /\ \A l \in DOMAIN w : i # l =>
                      \E m \in DOMAIN s : m # j /\ w[l] = s[m]
    <3> DEFINE at(l) == IF l < n THEN l ELSE l + 1
    <3>1. \A l \in DOMAIN w : at(l) \in DOMAIN s /\ w[l] = s[at(l)]
      BY <2>1
    <3>2. \A l \in DOMAIN w : i # l => at(l) # at(i)
      BY <2>1, <2>5
    <3> HIDE DEF at, w
    <3> QED
      BY <3>1, <3>2
  <2>7. ASSUME NEW j \in DOMAIN s, s[j] # f
        PROVE  \E i \in DOMAIN w : w[i] = s[j]
    <3>1. CASE j < n
      <4>1. j \in DOMAIN w /\ w[j] = s[j]
        BY <2>1, <3>1
      <4> QED  BY <4>1
    <3>2. CASE j > n
      <4>1. j - 1 \in DOMAIN w /\ w[j - 1] = s[j]
        BY <2>1, <3>2
      <4> QED  BY <4>1
    <3> QED
      BY <2>1, <2>7, <3>1, <3>2
  <2> HIDE DEF w
  <2> QED
    BY <2>2, <2>4, <2>6, <2>7
<1> QED
  BY <1>1, <1>2

(* A task that goes on keeps its job.                                       *)
LEMMA TaskGoesOn ==
  ASSUME TaskTypeOK, NEW k \in Tasks, NEW pc, TaskGoes(k, pc)
  PROVE  \A l \in Tasks : /\ task'[l].file = task[l].file /\ task'[l].result = task[l].result
                          /\ task'[l].pc = IF l = k THEN pc ELSE task[l].pc
BY DEF TaskTypeOK, TaskStates, TaskGoes

-----------------------------------------------------------------------------
(* Every step keeps the types, part by part.                               *)

(* The slot: flags and counters.                                            *)
LEMMA SlotTypes ==
  ASSUME SlotTypeOK, [Next]_vars
  PROVE  SlotTypeOK'
<1> USE DEF slotVars, vqVars, watchVars, diskVars, queueVars, notes, KeepForProc,
      KeepForTask, KeepForLoop, KeepHistories, Command
<1>1. ASSUME StartDictation, UNCHANGED <<vqVars, watchVars>>  PROVE  SlotTypeOK'
  BY <1>1 DEF SlotTypeOK, StartDictation
<1>2. ASSUME EndDictation, UNCHANGED <<vqVars, watchVars>>  PROVE  SlotTypeOK'
  BY <1>2 DEF EndDictation, SlotTypeOK
<1>3. ASSUME NEW t \in Tools, ToolBegins(t), UNCHANGED <<vqVars, watchVars>>
       PROVE  SlotTypeOK'
  BY <1>3 DEF SlotFree, SlotTypeOK, ToolBegins, TryBegin
<1>4. ASSUME NEW t \in Tools, BeginStage(t), UNCHANGED <<vqVars, watchVars>>
       PROVE  SlotTypeOK'
  BY <1>4 DEF BeginStage, SlotTypeOK
<1>5. ASSUME NEW t \in Tools, EndStage(t), UNCHANGED <<vqVars, watchVars>>
       PROVE  SlotTypeOK'
  BY <1>5 DEF EndStage, SlotTypeOK
<1>6. ASSUME NEW t \in Tools, StagePanics(t), UNCHANGED <<vqVars, watchVars>>
       PROVE  SlotTypeOK'
  BY <1>6 DEF SlotTypeOK, StagePanics
<1>7. ASSUME NEW t \in Tools, ToolEnds(t), UNCHANGED <<vqVars, watchVars>>
       PROVE  SlotTypeOK'
  BY <1>7 DEF DropGuard, SlotTypeOK, ToolEnds
<1>8. ASSUME EnqueueVoiceFile \/ Retry \/ RemoveFromIndex \/ DeleteEntry \/
             ClearHistory \/ RegisterIndexPath,
             UNCHANGED watchVars
       PROVE  SlotTypeOK'
  BY <1>8
    DEF ClearHistory, DeleteEntry, EnqueueVoiceFile, RegisterIndexPath, RemoveFromIndex,
        Retry, SlotTypeOK
<1>9. ASSUME NEW p \in Procs,
             TakeLock(p) \/ SkipQueued(p) \/ Import(p) \/ PutJob(p) \/ ImportFails(p) \/
             EndEnqueue(p) \/ ScheduleWorker(p) \/ LoadToUnlist(p) \/ Unlist(p) \/
             LoadToIndex(p) \/ Index(p),
             UNCHANGED watchVars
       PROVE  SlotTypeOK'
  BY <1>9
    DEF EndEnqueue, Import, ImportFails, Index, LoadToIndex, LoadToUnlist, PutJob,
        ScheduleWorker, SkipQueued, SlotTypeOK, TakeLock, Unlist
<1>10. ASSUME NEW k \in Tasks,
             Pop(k) \/ PopNothing(k) \/ LoadStatus(k) \/ SaveStatus(k) \/
             SlotSeenFree(k) \/ Requeue(k) \/ ClearActive(k) \/ Unschedule(k) \/
             Recheck(k) \/ Reschedule(k),
             UNCHANGED watchVars
       PROVE  SlotTypeOK'
  BY <1>10
    DEF ClearActive, LoadStatus, Pop, PopNothing, Recheck, Requeue, Reschedule,
        SaveStatus, SlotSeenFree, SlotTypeOK, Unschedule
<1>11. ASSUME NEW k \in Tasks, BeginFile(k), UNCHANGED watchVars  PROVE  SlotTypeOK'
  BY <1>11 DEF BeginFile, SlotFree, SlotTypeOK, TaskAt, TryBegin
<1>12. ASSUME NEW k \in Tasks, EndFile(k), UNCHANGED watchVars  PROVE  SlotTypeOK'
  BY <1>12 DEF DropGuard, EndFile, SlotTypeOK, TaskAt, Working
<1>13. ASSUME ApplySettings \/ ApplyToWatch \/ Build \/ BuildFails \/ TakeUpdate \/
             TakeStop \/ FileSeen
       PROVE  SlotTypeOK'
  BY <1>13
    DEF ApplySettings, ApplyToWatch, Build, BuildFails, FileSeen, SlotTypeOK, TakeStop,
        TakeUpdate
<1>14. ASSUME Crash  PROVE  SlotTypeOK'
  BY <1>14 DEF Crash, Doing, Idle, IdleTask, NoSnap, Procs, SlotTypeOK, Working
<1>15. ASSUME NEW c \in Candidates, Candidate(c) \/ LoadToRefuse(c) \/ TooLong(c)
       PROVE  SlotTypeOK'
  BY <1>15 DEF Candidate, LoadToRefuse, SlotTypeOK, TooLong
<1>16. CASE UNCHANGED vars
  BY <1>16 DEF SlotTypeOK, vars
<1> QED
  BY <1>1, <1>2, <1>3, <1>4, <1>5, <1>6, <1>7, <1>8, <1>9, <1>10, <1>11, <1>12, <1>13,
     <1>14, <1>15, <1>16
    DEF Next, Window, ProcStep, TaskStep, SlotNext, ToolStep, Watch

(* The tasks: what is popped is a file.                                     *)
LEMMA TaskTypes ==
  ASSUME TaskTypeOK, QueueTypeOK, [Next]_vars
  PROVE  TaskTypeOK'
<1> USE DEF slotVars, vqVars, watchVars, diskVars, queueVars, notes, KeepForProc,
      KeepForTask, KeepForLoop, KeepHistories, Command
<1>1. ASSUME StartDictation \/ EndDictation, UNCHANGED <<vqVars, watchVars>>
       PROVE  TaskTypeOK'
  BY <1>1 DEF EndDictation, StartDictation, TaskTypeOK
<1>2. ASSUME NEW t \in Tools,
             ToolBegins(t) \/ BeginStage(t) \/ EndStage(t) \/ StagePanics(t) \/
             ToolEnds(t),
             UNCHANGED <<vqVars, watchVars>>
       PROVE  TaskTypeOK'
  BY <1>2 DEF BeginStage, EndStage, StagePanics, TaskTypeOK, ToolBegins, ToolEnds
<1>3. ASSUME EnqueueVoiceFile \/ Retry \/ RemoveFromIndex \/ DeleteEntry \/
             ClearHistory \/ RegisterIndexPath,
             UNCHANGED watchVars
       PROVE  TaskTypeOK'
  BY <1>3
    DEF ClearHistory, DeleteEntry, EnqueueVoiceFile, RegisterIndexPath, RemoveFromIndex,
        Retry, TaskTypeOK
<1>4. ASSUME NEW p \in Procs,
             TakeLock(p) \/ SkipQueued(p) \/ Import(p) \/ PutJob(p) \/ ImportFails(p) \/
             EndEnqueue(p) \/ LoadToUnlist(p) \/ Unlist(p) \/ LoadToIndex(p) \/
             Index(p),
             UNCHANGED watchVars
       PROVE  TaskTypeOK'
  BY <1>4
    DEF EndEnqueue, Import, ImportFails, Index, LoadToIndex, LoadToUnlist, PutJob,
        SkipQueued, TakeLock, TaskTypeOK, Unlist
<1>5. ASSUME NEW p \in Procs, ScheduleWorker(p), UNCHANGED watchVars  PROVE  TaskTypeOK'
  BY <1>5, TaskGoesType DEF Schedule, ScheduleWorker, TaskPcs, TaskTypeOK
<1>6. ASSUME NEW k \in Tasks, Pop(k), UNCHANGED watchVars  PROVE  TaskTypeOK'
  BY <1>6, WorkingType DEF Pop, QueueTypeOK, Statuses, TaskPcs, TaskTypeOK
<1>7. ASSUME NEW k \in Tasks, PopNothing(k), UNCHANGED watchVars  PROVE  TaskTypeOK'
  BY <1>7, TaskGoesType DEF PopNothing, TaskPcs
<1>8. ASSUME NEW k \in Tasks, LoadStatus(k), UNCHANGED watchVars  PROVE  TaskTypeOK'
  BY <1>8, TaskGoesType DEF LoadStatus, TaskPcs
<1>9. ASSUME NEW k \in Tasks, SaveStatus(k), UNCHANGED watchVars  PROVE  TaskTypeOK'
  BY <1>9, TaskGoesType DEF SaveStatus, TaskPcs
<1>10. ASSUME NEW k \in Tasks, SlotSeenFree(k), UNCHANGED watchVars  PROVE  TaskTypeOK'
  BY <1>10, TaskGoesType DEF SlotSeenFree, TaskPcs
<1>11. ASSUME NEW k \in Tasks, BeginFile(k), UNCHANGED watchVars  PROVE  TaskTypeOK'
  BY <1>11, TaskGoesType DEF BeginFile, TaskPcs
<1>12. ASSUME NEW k \in Tasks, Requeue(k), UNCHANGED watchVars  PROVE  TaskTypeOK'
  BY <1>12, WorkingType DEF Requeue, Statuses, TaskPcs, TaskTypeOK
<1>13. ASSUME NEW k \in Tasks, EndFile(k), UNCHANGED watchVars  PROVE  TaskTypeOK'
  BY <1>13, WorkingType DEF EndFile, Statuses, TaskPcs, TaskStates, TaskTypeOK
<1>14. ASSUME NEW k \in Tasks, ClearActive(k), UNCHANGED watchVars  PROVE  TaskTypeOK'
  BY <1>14, WorkingType DEF ClearActive, Statuses, TaskPcs, TaskTypeOK
<1>15. ASSUME NEW k \in Tasks, Unschedule(k), UNCHANGED watchVars  PROVE  TaskTypeOK'
  BY <1>15, TaskGoesType DEF TaskPcs, Unschedule
<1>16. ASSUME NEW k \in Tasks, Recheck(k), UNCHANGED watchVars  PROVE  TaskTypeOK'
  BY <1>16, TaskGoesType DEF Recheck, TaskPcs
<1>17. ASSUME NEW k \in Tasks, Reschedule(k), UNCHANGED watchVars  PROVE  TaskTypeOK'
  BY <1>17, TaskGoesType DEF Reschedule, TaskPcs
<1>18. ASSUME ApplySettings \/ ApplyToWatch \/ Build \/ BuildFails \/ TakeUpdate \/
             TakeStop \/ FileSeen
       PROVE  TaskTypeOK'
  BY <1>18
    DEF ApplySettings, ApplyToWatch, Build, BuildFails, FileSeen, TakeStop, TakeUpdate,
        TaskTypeOK
<1>19. ASSUME Crash  PROVE  TaskTypeOK'
  BY <1>19, WorkingType DEF Crash, IdleTask, Statuses, TaskPcs, TaskTypeOK
<1>20. ASSUME NEW c \in Candidates, Candidate(c) \/ LoadToRefuse(c) \/ TooLong(c)
       PROVE  TaskTypeOK'
  BY <1>20 DEF Candidate, LoadToRefuse, TaskTypeOK, TooLong
<1>21. CASE UNCHANGED vars
  BY <1>21 DEF TaskTypeOK, vars
<1> QED
  BY <1>1, <1>2, <1>3, <1>4, <1>5, <1>6, <1>7, <1>8, <1>9, <1>10, <1>11, <1>12, <1>13,
     <1>14, <1>15, <1>16, <1>17, <1>18, <1>19, <1>20, <1>21
    DEF Next, Window, ProcStep, TaskStep, SlotNext, ToolStep, Watch

(* The threads: a list of files gets shorter.                               *)
LEMMA ProcTypes ==
  ASSUME ProcTypeOK, DiskTypeOK, LockInv, [Next]_vars
  PROVE  ProcTypeOK'
<1> USE DEF slotVars, vqVars, watchVars, diskVars, queueVars, notes, KeepForProc,
      KeepForTask, KeepForLoop, KeepHistories, Command
<1>1. ASSUME StartDictation \/ EndDictation, UNCHANGED <<vqVars, watchVars>>
       PROVE  ProcTypeOK'
  BY <1>1 DEF EndDictation, ProcTypeOK, StartDictation
<1>2. ASSUME NEW t \in Tools,
             ToolBegins(t) \/ BeginStage(t) \/ EndStage(t) \/ StagePanics(t) \/
             ToolEnds(t),
             UNCHANGED <<vqVars, watchVars>>
       PROVE  ProcTypeOK'
  BY <1>2 DEF BeginStage, EndStage, ProcTypeOK, StagePanics, ToolBegins, ToolEnds
<1>3. ASSUME ClearHistory, UNCHANGED watchVars  PROVE  ProcTypeOK'
  BY <1>3 DEF ClearHistory, ProcTypeOK
<1>4. ASSUME EnqueueVoiceFile, UNCHANGED watchVars  PROVE  ProcTypeOK'
  BY <1>4, BeginType, QueueAssumption DEF EnqueueVoiceFile, ProcPcs, Procs
<1>5. ASSUME Retry, UNCHANGED watchVars  PROVE  ProcTypeOK'
  BY <1>5, BeginType, OneFile DEF ProcPcs, Procs, Retry
<1>6. ASSUME RemoveFromIndex, UNCHANGED watchVars  PROVE  ProcTypeOK'
  BY <1>6, BeginType, OneFile DEF ProcPcs, Procs, RemoveFromIndex
<1>7. ASSUME DeleteEntry, UNCHANGED watchVars  PROVE  ProcTypeOK'
  BY <1>7, BeginType, OneFile DEF DeleteEntry, ProcPcs, Procs
<1>8. ASSUME RegisterIndexPath, UNCHANGED watchVars  PROVE  ProcTypeOK'
  <2>1. "index" \in ProcPcs /\ \A f \in Files : history[f] \in Statuses
    BY DEF ProcPcs, DiskTypeOK, Histories
  <2>2. PICK f \in Files : proc' = [proc EXCEPT ![Ui] = Doing("index", <<f>>, history[f])]
    BY <1>8 DEF RegisterIndexPath
  <2> QED
    BY <2>1, <2>2, DoingType, OneFile DEF ProcTypeOK
<1>9. ASSUME NEW p \in Procs, TakeLock(p), UNCHANGED watchVars  PROVE  ProcTypeOK'
  BY <1>9, GoesType DEF ProcPcs, TakeLock
<1>10. ASSUME NEW p \in Procs, SkipQueued(p), UNCHANGED watchVars  PROVE  ProcTypeOK'
  <2>1. proc[p].paths \in Seq(Files) /\ proc[p].paths # <<>>
    BY <1>10 DEF SkipQueued, ProcTypeOK, ProcStates
  <2>2. Tail(proc[p].paths) \in Seq(Files)
    BY <2>1
  <2>3. [proc[p] EXCEPT !.paths = Tail(proc[p].paths)] \in ProcStates
    BY <2>2 DEF ProcTypeOK, ProcStates
  <2> QED
    BY <1>10, <2>3 DEF SkipQueued, ProcTypeOK
<1>11. ASSUME NEW p \in Procs, Import(p), UNCHANGED watchVars  PROVE  ProcTypeOK'
  BY <1>11, GoesType DEF Import, ProcPcs
<1>12. ASSUME NEW p \in Procs, PutJob(p), UNCHANGED watchVars  PROVE  ProcTypeOK'
  <2>1. Tail(proc[p].paths) \in Seq(Files)
    BY <1>12 DEF PutJob, At, LockInv, ProcTypeOK, ProcStates
  <2>2. [pc |-> "next", paths |-> Tail(proc[p].paths), created |-> TRUE, prior |-> "none"]
          \in ProcStates
    BY <2>1 DEF ProcStates, ProcPcs, Statuses
  <2> QED
    BY <1>12, <2>2 DEF PutJob, ProcTypeOK
<1>13. ASSUME NEW p \in Procs, ImportFails(p), UNCHANGED watchVars  PROVE  ProcTypeOK'
  BY <1>13, DoneType DEF ImportFails
<1>14. ASSUME NEW p \in Procs, EndEnqueue(p), UNCHANGED watchVars  PROVE  ProcTypeOK'
  BY <1>14, GoesType, DoneType DEF EndEnqueue, ProcPcs
<1>15. ASSUME NEW p \in Procs, ScheduleWorker(p), UNCHANGED watchVars  PROVE  ProcTypeOK'
  BY <1>15, DoneType DEF ScheduleWorker
<1>16. ASSUME NEW p \in Procs, LoadToUnlist(p), UNCHANGED watchVars  PROVE  ProcTypeOK'
  BY <1>16, GoesType DEF LoadToUnlist, ProcPcs
<1>17. ASSUME NEW p \in Procs, Unlist(p), UNCHANGED watchVars  PROVE  ProcTypeOK'
  BY <1>17, DoneType DEF Unlist
<1>18. ASSUME NEW p \in Procs, LoadToIndex(p), UNCHANGED watchVars  PROVE  ProcTypeOK'
  BY <1>18, GoesType DEF LoadToIndex, ProcPcs
<1>19. ASSUME NEW p \in Procs, Index(p), UNCHANGED watchVars  PROVE  ProcTypeOK'
  BY <1>19, DoneType DEF Index
<1>20. ASSUME NEW k \in Tasks,
             Pop(k) \/ PopNothing(k) \/ LoadStatus(k) \/ SaveStatus(k) \/
             SlotSeenFree(k) \/ BeginFile(k) \/ Requeue(k) \/ EndFile(k) \/
             ClearActive(k) \/ Unschedule(k) \/ Recheck(k) \/ Reschedule(k),
             UNCHANGED watchVars
       PROVE  ProcTypeOK'
  BY <1>20
    DEF BeginFile, ClearActive, EndFile, LoadStatus, Pop, PopNothing, ProcTypeOK, Recheck,
        Requeue, Reschedule, SaveStatus, SlotSeenFree, Unschedule
<1>21. ASSUME Build \/ BuildFails \/ TakeUpdate \/ TakeStop  PROVE  ProcTypeOK'
  BY <1>21 DEF Build, BuildFails, ProcTypeOK, TakeStop, TakeUpdate
<1>22. ASSUME ApplySettings  PROVE  ProcTypeOK'
  BY <1>22, GoesType DEF ApplySettings, ProcPcs, Procs
<1>23. ASSUME ApplyToWatch  PROVE  ProcTypeOK'
  BY <1>23, DoneType DEF ApplyToWatch, Procs
<1>24. ASSUME FileSeen  PROVE  ProcTypeOK'
  BY <1>24, BeginType, OneFile DEF FileSeen, ProcPcs, Procs
<1>25. ASSUME Crash  PROVE  ProcTypeOK'
  <2>1. <<>> \in Seq(Files) /\ "apply" \in ProcPcs /\ "idle" \in ProcPcs
        /\ "none" \in Statuses
    BY DEF ProcPcs, Statuses
  <2>2. Doing("apply", <<>>, "none") \in ProcStates /\ Idle \in ProcStates
    BY <2>1, DoingType DEF Idle
  <2> QED
    BY <1>25, <2>2 DEF Crash, ProcTypeOK
<1>26. ASSUME NEW c \in Candidates, Candidate(c)  PROVE  ProcTypeOK'
  BY <1>26, GoesType, DoneType DEF Candidate, ProcPcs, Procs
<1>27. ASSUME NEW c \in Candidates, LoadToRefuse(c)  PROVE  ProcTypeOK'
  BY <1>27, GoesType DEF LoadToRefuse, ProcPcs, Procs
<1>28. ASSUME NEW c \in Candidates, TooLong(c)  PROVE  ProcTypeOK'
  BY <1>28, DoneType DEF Procs, TooLong
<1>29. CASE UNCHANGED vars
  BY <1>29 DEF ProcTypeOK, vars
<1> QED
  BY <1>1, <1>2, <1>3, <1>4, <1>5, <1>6, <1>7, <1>8, <1>9, <1>10, <1>11, <1>12, <1>13,
     <1>14, <1>15, <1>16, <1>17, <1>18, <1>19, <1>20, <1>21, <1>22, <1>23, <1>24, <1>25,
     <1>26, <1>27, <1>28, <1>29
    DEF Next, Window, ProcStep, TaskStep, SlotNext, ToolStep, Watch

(* The history, as it is on disk and as it was loaded, and the registry.    *)
LEMMA DiskTypes ==
  ASSUME DiskTypeOK, ProcTypeOK, TaskTypeOK, [Next]_vars
  PROVE  DiskTypeOK'
<1> USE DEF slotVars, vqVars, watchVars, diskVars, queueVars, notes, KeepForProc,
      KeepForTask, KeepForLoop, KeepHistories, Command
<1>1. ASSUME StartDictation \/ EndDictation, UNCHANGED <<vqVars, watchVars>>
       PROVE  DiskTypeOK'
  BY <1>1 DEF DiskTypeOK, EndDictation, StartDictation
<1>2. ASSUME NEW t \in Tools,
             ToolBegins(t) \/ BeginStage(t) \/ EndStage(t) \/ StagePanics(t) \/
             ToolEnds(t),
             UNCHANGED <<vqVars, watchVars>>
       PROVE  DiskTypeOK'
  BY <1>2 DEF BeginStage, DiskTypeOK, EndStage, StagePanics, ToolBegins, ToolEnds
<1>3. ASSUME EnqueueVoiceFile \/ Retry \/ RemoveFromIndex \/ DeleteEntry,
             UNCHANGED watchVars
       PROVE  DiskTypeOK'
  BY <1>3 DEF DeleteEntry, DiskTypeOK, EnqueueVoiceFile, RemoveFromIndex, Retry
<1>4. ASSUME ClearHistory, UNCHANGED watchVars  PROVE  DiskTypeOK'
  BY <1>4, NoSnapType DEF ClearHistory, DiskTypeOK
<1>5. ASSUME RegisterIndexPath, UNCHANGED watchVars  PROVE  DiskTypeOK'
  BY <1>5 DEF DiskTypeOK, RegisterIndexPath
<1>6. ASSUME NEW p \in Procs,
             TakeLock(p) \/ ImportFails(p) \/ EndEnqueue(p) \/ ScheduleWorker(p),
             UNCHANGED watchVars
       PROVE  DiskTypeOK'
  BY <1>6 DEF DiskTypeOK, EndEnqueue, ImportFails, ScheduleWorker, TakeLock
<1>7. ASSUME NEW p \in Procs, SkipQueued(p), UNCHANGED watchVars  PROVE  DiskTypeOK'
  BY <1>7 DEF DiskTypeOK, ProcStates, ProcTypeOK, SkipQueued
<1>8. ASSUME NEW p \in Procs, Import(p), UNCHANGED watchVars  PROVE  DiskTypeOK'
  BY <1>8 DEF DiskTypeOK, Import, Load, ProcStates, ProcTypeOK
<1>9. ASSUME NEW p \in Procs, PutJob(p), UNCHANGED watchVars  PROVE  DiskTypeOK'
  BY <1>9, SaveType DEF DiskTypeOK, Procs, PutJob, Statuses
<1>10. ASSUME NEW p \in Procs, LoadToUnlist(p), UNCHANGED watchVars  PROVE  DiskTypeOK'
  BY <1>10, LoadType DEF LoadToUnlist, Procs
<1>11. ASSUME NEW p \in Procs, Unlist(p), UNCHANGED watchVars  PROVE  DiskTypeOK'
  BY <1>11, SaveType DEF DiskTypeOK, Procs, Statuses, Unlist
<1>12. ASSUME NEW p \in Procs, LoadToIndex(p), UNCHANGED watchVars  PROVE  DiskTypeOK'
  BY <1>12, LoadType DEF LoadToIndex, Procs
<1>13. ASSUME NEW p \in Procs, Index(p), UNCHANGED watchVars  PROVE  DiskTypeOK'
  BY <1>13, SaveType DEF DiskTypeOK, Index, ProcStates, ProcTypeOK, Statuses
<1>14. ASSUME NEW k \in Tasks,
             Pop(k) \/ PopNothing(k) \/ SlotSeenFree(k) \/ BeginFile(k) \/ Requeue(k) \/
             EndFile(k) \/ ClearActive(k) \/ Unschedule(k) \/ Recheck(k) \/
             Reschedule(k),
             UNCHANGED watchVars
       PROVE  DiskTypeOK'
  BY <1>14
    DEF BeginFile, ClearActive, DiskTypeOK, EndFile, Pop, PopNothing, Recheck, Requeue,
        Reschedule, SlotSeenFree, Unschedule
<1>15. ASSUME NEW k \in Tasks, LoadStatus(k), UNCHANGED watchVars  PROVE  DiskTypeOK'
  BY <1>15, LoadType DEF LoadStatus, Procs
<1>16. ASSUME NEW k \in Tasks, SaveStatus(k), UNCHANGED watchVars  PROVE  DiskTypeOK'
  BY <1>16, SaveType DEF DiskTypeOK, SaveStatus, TaskStates, TaskTypeOK
<1>17. ASSUME Build \/ BuildFails \/ TakeUpdate \/ TakeStop \/ FileSeen
       PROVE  DiskTypeOK'
  BY <1>17 DEF Build, BuildFails, DiskTypeOK, FileSeen, TakeStop, TakeUpdate
<1>18. ASSUME ApplySettings  PROVE  DiskTypeOK'
  BY <1>18, LoadType DEF ApplySettings, Procs
<1>19. ASSUME ApplyToWatch  PROVE  DiskTypeOK'
  BY <1>19, NoSnapType DEF ApplyToWatch, DiskTypeOK, Procs, Purge
<1>20. ASSUME Crash  PROVE  DiskTypeOK'
  BY <1>20, NoSnapType DEF Crash, DiskTypeOK, Procs
<1>21. ASSUME NEW c \in Candidates, Candidate(c)  PROVE  DiskTypeOK'
  BY <1>21 DEF Candidate, DiskTypeOK
<1>22. ASSUME NEW c \in Candidates, LoadToRefuse(c)  PROVE  DiskTypeOK'
  BY <1>22, LoadType DEF LoadToRefuse, Procs
<1>23. ASSUME NEW c \in Candidates, TooLong(c)  PROVE  DiskTypeOK'
  BY <1>23, SaveType DEF DiskTypeOK, Procs, Statuses, TooLong
<1>24. CASE UNCHANGED vars
  BY <1>24 DEF DiskTypeOK, vars
<1> QED
  BY <1>1, <1>2, <1>3, <1>4, <1>5, <1>6, <1>7, <1>8, <1>9, <1>10, <1>11, <1>12, <1>13,
     <1>14, <1>15, <1>16, <1>17, <1>18, <1>19, <1>20, <1>21, <1>22, <1>23, <1>24
    DEF Next, Window, ProcStep, TaskStep, SlotNext, ToolStep, Watch

(* The queue: what is put in or put back is a file.                         *)
LEMMA QueueTypes ==
  ASSUME QueueTypeOK, ProcTypeOK, TaskTypeOK, LockInv, TaskInv, [Next]_vars
  PROVE  QueueTypeOK'
<1> USE DEF slotVars, vqVars, watchVars, diskVars, queueVars, notes, KeepForProc,
      KeepForTask, KeepForLoop, KeepHistories, Command
<1>1. ASSUME StartDictation \/ EndDictation, UNCHANGED <<vqVars, watchVars>>
       PROVE  QueueTypeOK'
  BY <1>1 DEF EndDictation, QueueTypeOK, StartDictation
<1>2. ASSUME NEW t \in Tools,
             ToolBegins(t) \/ BeginStage(t) \/ EndStage(t) \/ StagePanics(t) \/
             ToolEnds(t),
             UNCHANGED <<vqVars, watchVars>>
       PROVE  QueueTypeOK'
  BY <1>2 DEF BeginStage, EndStage, QueueTypeOK, StagePanics, ToolBegins, ToolEnds
<1>3. ASSUME EnqueueVoiceFile, UNCHANGED watchVars  PROVE  QueueTypeOK'
  BY <1>3 DEF At, EnqueueVoiceFile, QueueTypeOK
<1>4. ASSUME Retry, UNCHANGED watchVars  PROVE  QueueTypeOK'
  BY <1>4 DEF At, QueueTypeOK, Retry
<1>5. ASSUME RemoveFromIndex, UNCHANGED watchVars  PROVE  QueueTypeOK'
  <2>1. PICK f \in Files : pending' = Without(pending, f)
    BY <1>5 DEF RemoveFromIndex
  <2> QED
    BY <1>5, <2>1, WithoutOne DEF RemoveFromIndex, QueueTypeOK
<1>6. ASSUME DeleteEntry, UNCHANGED watchVars  PROVE  QueueTypeOK'
  BY <1>6 DEF At, DeleteEntry, QueueTypeOK
<1>7. ASSUME ClearHistory, UNCHANGED watchVars  PROVE  QueueTypeOK'
  BY <1>7 DEF At, ClearHistory, NoSnap, QueueTypeOK
<1>8. ASSUME RegisterIndexPath, UNCHANGED watchVars  PROVE  QueueTypeOK'
  BY <1>8 DEF At, Doing, QueueTypeOK, RegisterIndexPath
<1>9. ASSUME NEW p \in Procs,
             SkipQueued(p) \/ Import(p) \/ LoadToUnlist(p) \/ LoadToIndex(p),
             UNCHANGED watchVars
       PROVE  QueueTypeOK'
  BY <1>9 DEF Import, LoadToIndex, LoadToUnlist, QueueTypeOK, SkipQueued
<1>10. ASSUME NEW p \in Procs, TakeLock(p), UNCHANGED watchVars  PROVE  QueueTypeOK'
  BY <1>10 DEF At, QueueTypeOK, TakeLock
<1>11. ASSUME NEW p \in Procs, PutJob(p), UNCHANGED watchVars  PROVE  QueueTypeOK'
  <2>1. Head(proc[p].paths) \in Files
    BY <1>11 DEF PutJob, At, LockInv, ProcTypeOK, ProcStates
  <2>2. Append(pending, Head(proc[p].paths)) \in Seq(Files)
    BY <2>1 DEF QueueTypeOK
  <2> QED
    BY <1>11, <2>2 DEF PutJob, QueueTypeOK
<1>12. ASSUME NEW p \in Procs, ImportFails(p), UNCHANGED watchVars  PROVE  QueueTypeOK'
  BY <1>12 DEF At, ImportFails, QueueTypeOK
<1>13. ASSUME NEW p \in Procs, EndEnqueue(p), UNCHANGED watchVars  PROVE  QueueTypeOK'
  BY <1>13 DEF At, EndEnqueue, QueueTypeOK
<1>14. ASSUME NEW p \in Procs, ScheduleWorker(p), UNCHANGED watchVars  PROVE  QueueTypeOK'
  BY <1>14 DEF At, QueueTypeOK, Schedule, ScheduleWorker, TaskAt
<1>15. ASSUME NEW p \in Procs, Unlist(p), UNCHANGED watchVars  PROVE  QueueTypeOK'
  BY <1>15 DEF At, QueueTypeOK, Unlist
<1>16. ASSUME NEW p \in Procs, Index(p), UNCHANGED watchVars  PROVE  QueueTypeOK'
  BY <1>16 DEF At, Index, QueueTypeOK
<1>17. ASSUME NEW k \in Tasks,
             PopNothing(k) \/ LoadStatus(k) \/ SlotSeenFree(k) \/ BeginFile(k) \/
             EndFile(k) \/ Recheck(k),
             UNCHANGED watchVars
       PROVE  QueueTypeOK'
  BY <1>17
    DEF BeginFile, EndFile, LoadStatus, PopNothing, QueueTypeOK, Recheck, SlotSeenFree
<1>18. ASSUME NEW k \in Tasks, Pop(k), UNCHANGED watchVars  PROVE  QueueTypeOK'
  <2>1. Head(pending) \in Files /\ Tail(pending) \in Seq(Files)
    BY <1>18 DEF Pop, QueueTypeOK
  <2> QED
    BY <1>18, <2>1 DEF Pop, QueueTypeOK
<1>19. ASSUME NEW k \in Tasks, SaveStatus(k), UNCHANGED watchVars  PROVE  QueueTypeOK'
  BY <1>19 DEF QueueTypeOK, SaveStatus, TaskAt
<1>20. ASSUME NEW k \in Tasks, Requeue(k), UNCHANGED watchVars  PROVE  QueueTypeOK'
  <2>1. task[k].file \in Files
    BY <1>20 DEF Requeue, TaskAt, TaskInv, HasFile
  <2>2. <<task[k].file>> \o pending \in Seq(Files)
    BY <2>1 DEF QueueTypeOK
  <2> QED
    BY <1>20, <2>2 DEF Requeue, QueueTypeOK
<1>21. ASSUME NEW k \in Tasks, ClearActive(k), UNCHANGED watchVars  PROVE  QueueTypeOK'
  BY <1>21 DEF ClearActive, QueueTypeOK, TaskAt, Working
<1>22. ASSUME NEW k \in Tasks, Unschedule(k), UNCHANGED watchVars  PROVE  QueueTypeOK'
  BY <1>22 DEF QueueTypeOK, TaskAt, Unschedule
<1>23. ASSUME NEW k \in Tasks, Reschedule(k), UNCHANGED watchVars  PROVE  QueueTypeOK'
  BY <1>23 DEF QueueTypeOK, Reschedule, TaskAt
<1>24. ASSUME Build \/ BuildFails \/ TakeUpdate \/ TakeStop \/ FileSeen
       PROVE  QueueTypeOK'
  BY <1>24 DEF Build, BuildFails, FileSeen, QueueTypeOK, TakeStop, TakeUpdate
<1>25. ASSUME ApplySettings  PROVE  QueueTypeOK'
  BY <1>25 DEF ApplySettings, At, QueueTypeOK
<1>26. ASSUME ApplyToWatch  PROVE  QueueTypeOK'
  BY <1>26 DEF ApplyToWatch, At, NoSnap, Purge, QueueTypeOK
<1>27. ASSUME Crash  PROVE  QueueTypeOK'
  <2>1. <<>> \in Seq(Files)
    OBVIOUS
  <2> QED
    BY <1>27, <2>1 DEF Crash, QueueTypeOK
<1>28. ASSUME NEW c \in Candidates, Candidate(c) \/ LoadToRefuse(c)  PROVE  QueueTypeOK'
  BY <1>28 DEF Candidate, LoadToRefuse, QueueTypeOK
<1>29. ASSUME NEW c \in Candidates, TooLong(c)  PROVE  QueueTypeOK'
  BY <1>29 DEF At, QueueTypeOK, TooLong
<1>30. CASE UNCHANGED vars
  BY <1>30 DEF QueueTypeOK, vars
<1> QED
  BY <1>1, <1>2, <1>3, <1>4, <1>5, <1>6, <1>7, <1>8, <1>9, <1>10, <1>11, <1>12, <1>13,
     <1>14, <1>15, <1>16, <1>17, <1>18, <1>19, <1>20, <1>21, <1>22, <1>23, <1>24, <1>25,
     <1>26, <1>27, <1>28, <1>29, <1>30
    DEF Next, Window, ProcStep, TaskStep, SlotNext, ToolStep, Watch

(* The watch: its channel holds updates and stops.                          *)
LEMMA WatchTypes ==
  ASSUME WatchTypeOK, [Next]_vars
  PROVE  WatchTypeOK'
<1> USE DEF slotVars, vqVars, watchVars, diskVars, queueVars, notes, KeepForProc,
      KeepForTask, KeepForLoop, KeepHistories, Command
<1>1. ASSUME StartDictation \/ EndDictation, UNCHANGED <<vqVars, watchVars>>
       PROVE  WatchTypeOK'
  BY <1>1 DEF EndDictation, StartDictation, WatchTypeOK
<1>2. ASSUME NEW t \in Tools,
             ToolBegins(t) \/ BeginStage(t) \/ EndStage(t) \/ StagePanics(t) \/
             ToolEnds(t),
             UNCHANGED <<vqVars, watchVars>>
       PROVE  WatchTypeOK'
  BY <1>2 DEF BeginStage, EndStage, StagePanics, ToolBegins, ToolEnds, WatchTypeOK
<1>3. ASSUME EnqueueVoiceFile \/ Retry \/ RemoveFromIndex \/ DeleteEntry \/
             ClearHistory \/ RegisterIndexPath,
             UNCHANGED watchVars
       PROVE  WatchTypeOK'
  BY <1>3
    DEF ClearHistory, DeleteEntry, EnqueueVoiceFile, RegisterIndexPath, RemoveFromIndex,
        Retry, WatchTypeOK
<1>4. ASSUME NEW p \in Procs,
             TakeLock(p) \/ SkipQueued(p) \/ Import(p) \/ PutJob(p) \/ ImportFails(p) \/
             EndEnqueue(p) \/ ScheduleWorker(p) \/ LoadToUnlist(p) \/ Unlist(p) \/
             LoadToIndex(p) \/ Index(p),
             UNCHANGED watchVars
       PROVE  WatchTypeOK'
  BY <1>4
    DEF EndEnqueue, Import, ImportFails, Index, LoadToIndex, LoadToUnlist, PutJob,
        ScheduleWorker, SkipQueued, TakeLock, Unlist, WatchTypeOK
<1>5. ASSUME NEW k \in Tasks,
             Pop(k) \/ PopNothing(k) \/ LoadStatus(k) \/ SaveStatus(k) \/
             SlotSeenFree(k) \/ BeginFile(k) \/ Requeue(k) \/ EndFile(k) \/
             ClearActive(k) \/ Unschedule(k) \/ Recheck(k) \/ Reschedule(k),
             UNCHANGED watchVars
       PROVE  WatchTypeOK'
  BY <1>5
    DEF BeginFile, ClearActive, EndFile, LoadStatus, Pop, PopNothing, Recheck, Requeue,
        Reschedule, SaveStatus, SlotSeenFree, Unschedule, WatchTypeOK
<1>6. ASSUME ApplySettings  PROVE  WatchTypeOK'
  BY <1>6 DEF ApplySettings, At, WatchTypeOK
<1>7. ASSUME ApplyToWatch  PROVE  WatchTypeOK'
  <2>1. <<>> \in Seq({"update", "stop"}) /\ Append(inbox, "update") \in Seq({"update", "stop"})
        /\ Append(inbox, "stop") \in Seq({"update", "stop"})
    BY DEF WatchTypeOK
  <2> QED
    BY <1>7, <2>1 DEF ApplyToWatch, StartOrUpdate, StopWatch, StartLoop, Send, WatchTypeOK
<1>8. ASSUME Build  PROVE  WatchTypeOK'
  BY <1>8 DEF Build, WatchTypeOK
<1>9. ASSUME BuildFails  PROVE  WatchTypeOK'
  BY <1>9 DEF BuildFails, WatchTypeOK
<1>10. ASSUME TakeUpdate  PROVE  WatchTypeOK'
  BY <1>10 DEF TakeUpdate, WatchTypeOK
<1>11. ASSUME TakeStop  PROVE  WatchTypeOK'
  BY <1>11 DEF TakeStop, WatchTypeOK
<1>12. ASSUME FileSeen  PROVE  WatchTypeOK'
  BY <1>12 DEF At, FileSeen, WatchTypeOK
<1>13. ASSUME Crash  PROVE  WatchTypeOK'
  <2>1. <<>> \in Seq({"update", "stop"})
    OBVIOUS
  <2>2. interrupted' \subseteq Files
    BY <1>13 DEF Crash, WatchTypeOK
  <2>3. wanted' \in BOOLEAN /\ events' \in Nat /\ crashes' \in Nat
    BY <1>13 DEF Crash, WatchTypeOK
  <2>4. running' = FALSE /\ tx' = FALSE /\ loop' = "none" /\ inbox' = <<>> /\ unwatched' = FALSE
    BY <1>13 DEF Crash
  <2> QED
    BY <2>1, <2>2, <2>3, <2>4 DEF WatchTypeOK
<1>14. ASSUME NEW c \in Candidates, Candidate(c) \/ LoadToRefuse(c) \/ TooLong(c)
       PROVE  WatchTypeOK'
  BY <1>14 DEF Candidate, LoadToRefuse, TooLong, WatchTypeOK
<1>15. CASE UNCHANGED vars
  BY <1>15 DEF WatchTypeOK, vars
<1> QED
  BY <1>1, <1>2, <1>3, <1>4, <1>5, <1>6, <1>7, <1>8, <1>9, <1>10, <1>11, <1>12, <1>13,
     <1>14, <1>15
    DEF Next, Window, ProcStep, TaskStep, SlotNext, ToolStep, Watch

(* The types together.                                                      *)
LEMMA TypeStep ==
  ASSUME TypeOK, TaskInv, LockInv, [Next]_vars
  PROVE  TypeOK'
BY SlotTypes, TaskTypes, ProcTypes, DiskTypes, QueueTypes, WatchTypes DEF TypeOK

-----------------------------------------------------------------------------
(* Every step keeps the rest of the invariant.                             *)

(* Who begins finds the flag down, so nobody has the slot; who ends lowers a*)
(* flag that is its own.                                                    *)
LEMMA SlotStep ==
  ASSUME TypeOK, SlotInv, [Next]_vars
  PROVE  SlotInv'
<1> USE DEF slotVars, vqVars, watchVars, diskVars, queueVars, notes, KeepForProc,
      KeepForTask, KeepForLoop, KeepHistories, Command
<1>1. ASSUME StartDictation \/ EndDictation, UNCHANGED <<vqVars, watchVars>>
       PROVE  SlotInv'
  BY <1>1
    DEF EndDictation, HoldsGuard, SlotInv, SlotTypeOK, StagesApart, StartDictation,
        TaskAt, TaskStates, TaskTypeOK, TypeOK
<1>2. ASSUME NEW t \in Tools, ToolBegins(t), UNCHANGED <<vqVars, watchVars>>
       PROVE  SlotInv'
  BY <1>2
    DEF HoldsGuard, SlotFree, SlotInv, SlotTypeOK, StagesApart, TaskAt, TaskStates,
        TaskTypeOK, ToolBegins, TryBegin, TypeOK
<1>3. ASSUME NEW t \in Tools, BeginStage(t), UNCHANGED <<vqVars, watchVars>>
       PROVE  SlotInv'
  BY <1>3
    DEF BeginStage, HoldsGuard, SlotInv, SlotTypeOK, StagesApart, TaskAt, TaskStates,
        TaskTypeOK, TypeOK
<1>4. ASSUME NEW t \in Tools, EndStage(t), UNCHANGED <<vqVars, watchVars>>
       PROVE  SlotInv'
  BY <1>4
    DEF EndStage, HoldsGuard, SlotInv, SlotTypeOK, StagesApart, TaskAt, TaskStates,
        TaskTypeOK, TypeOK
<1>5. ASSUME NEW t \in Tools, StagePanics(t), UNCHANGED <<vqVars, watchVars>>
       PROVE  SlotInv'
  BY <1>5
    DEF HoldsGuard, SlotInv, SlotTypeOK, StagePanics, StagesApart, TaskAt, TaskStates,
        TaskTypeOK, TypeOK
<1>6. ASSUME NEW t \in Tools, ToolEnds(t), UNCHANGED <<vqVars, watchVars>>
       PROVE  SlotInv'
  BY <1>6
    DEF DropGuard, HoldsGuard, SlotInv, SlotTypeOK, StagesApart, TaskAt, TaskStates,
        TaskTypeOK, ToolEnds, TypeOK
<1>7. ASSUME EnqueueVoiceFile \/ Retry \/ RemoveFromIndex \/ DeleteEntry \/
             ClearHistory \/ RegisterIndexPath,
             UNCHANGED watchVars
       PROVE  SlotInv'
  BY <1>7
    DEF ClearHistory, DeleteEntry, EnqueueVoiceFile, HoldsGuard, RegisterIndexPath,
        RemoveFromIndex, Retry, SlotInv, SlotTypeOK, StagesApart, TaskAt, TaskStates,
        TaskTypeOK, TypeOK
<1>8. ASSUME NEW p \in Procs,
             TakeLock(p) \/ SkipQueued(p) \/ Import(p) \/ PutJob(p) \/ ImportFails(p) \/
             EndEnqueue(p) \/ LoadToUnlist(p) \/ Unlist(p) \/ LoadToIndex(p) \/
             Index(p),
             UNCHANGED watchVars
       PROVE  SlotInv'
  BY <1>8
    DEF EndEnqueue, HoldsGuard, Import, ImportFails, Index, LoadToIndex, LoadToUnlist,
        PutJob, SkipQueued, SlotInv, SlotTypeOK, StagesApart, TakeLock, TaskAt,
        TaskStates, TaskTypeOK, TypeOK, Unlist
<1>9. ASSUME NEW p \in Procs, ScheduleWorker(p), UNCHANGED watchVars  PROVE  SlotInv'
  BY <1>9
    DEF At, HoldsGuard, Schedule, ScheduleWorker, SlotInv, SlotTypeOK, StagesApart,
        TaskAt, TaskGoes, TaskStates, TaskTypeOK, TypeOK
<1>10. ASSUME NEW k \in Tasks, Pop(k), UNCHANGED watchVars  PROVE  SlotInv'
  BY <1>10
    DEF HoldsGuard, Pop, SlotInv, SlotTypeOK, StagesApart, TaskAt, TaskStates, TaskTypeOK,
        TypeOK, Working
<1>11. ASSUME NEW k \in Tasks, PopNothing(k), UNCHANGED watchVars  PROVE  SlotInv'
  BY <1>11
    DEF HoldsGuard, PopNothing, SlotInv, SlotTypeOK, StagesApart, TaskAt, TaskGoes,
        TaskStates, TaskTypeOK, TypeOK
<1>12. ASSUME NEW k \in Tasks, LoadStatus(k), UNCHANGED watchVars  PROVE  SlotInv'
  BY <1>12
    DEF HoldsGuard, LoadStatus, SlotInv, SlotTypeOK, StagesApart, TaskAt, TaskGoes,
        TaskStates, TaskTypeOK, TypeOK
<1>13. ASSUME NEW k \in Tasks, SaveStatus(k), UNCHANGED watchVars  PROVE  SlotInv'
  BY <1>13
    DEF HoldsGuard, SaveStatus, SlotInv, SlotTypeOK, StagesApart, TaskAt, TaskGoes,
        TaskStates, TaskTypeOK, TypeOK
<1>14. ASSUME NEW k \in Tasks, SlotSeenFree(k), UNCHANGED watchVars  PROVE  SlotInv'
  BY <1>14
    DEF HoldsGuard, SlotFree, SlotInv, SlotSeenFree, SlotTypeOK, StagesApart, TaskAt,
        TaskGoes, TaskStates, TaskTypeOK, TypeOK
<1>15. ASSUME NEW k \in Tasks, BeginFile(k), UNCHANGED watchVars  PROVE  SlotInv'
  BY <1>15
    DEF BeginFile, HoldsGuard, SlotFree, SlotInv, SlotTypeOK, StagesApart, TaskAt,
        TaskGoes, TaskStates, TaskTypeOK, TryBegin, TypeOK
<1>16. ASSUME NEW k \in Tasks, Requeue(k), UNCHANGED watchVars  PROVE  SlotInv'
  BY <1>16
    DEF HoldsGuard, Requeue, SlotFree, SlotInv, SlotTypeOK, StagesApart, TaskAt,
        TaskStates, TaskTypeOK, TypeOK, Working
<1>17. ASSUME NEW k \in Tasks, EndFile(k), UNCHANGED watchVars  PROVE  SlotInv'
  BY <1>17
    DEF DropGuard, EndFile, HoldsGuard, SlotInv, SlotTypeOK, StagesApart, TaskAt,
        TaskStates, TaskTypeOK, TypeOK, Working
<1>18. ASSUME NEW k \in Tasks, ClearActive(k), UNCHANGED watchVars  PROVE  SlotInv'
  BY <1>18
    DEF ClearActive, HoldsGuard, SlotInv, SlotTypeOK, StagesApart, TaskAt, TaskStates,
        TaskTypeOK, TypeOK, Working
<1>19. ASSUME NEW k \in Tasks, Unschedule(k), UNCHANGED watchVars  PROVE  SlotInv'
  BY <1>19
    DEF HoldsGuard, SlotInv, SlotTypeOK, StagesApart, TaskAt, TaskGoes, TaskStates,
        TaskTypeOK, TypeOK, Unschedule
<1>20. ASSUME NEW k \in Tasks, Recheck(k), UNCHANGED watchVars  PROVE  SlotInv'
  BY <1>20
    DEF HoldsGuard, Recheck, SlotInv, SlotTypeOK, StagesApart, TaskAt, TaskGoes,
        TaskStates, TaskTypeOK, TypeOK
<1>21. ASSUME NEW k \in Tasks, Reschedule(k), UNCHANGED watchVars  PROVE  SlotInv'
  BY <1>21
    DEF HoldsGuard, Reschedule, SlotInv, SlotTypeOK, StagesApart, TaskAt, TaskGoes,
        TaskStates, TaskTypeOK, TypeOK
<1>22. ASSUME ApplySettings \/ ApplyToWatch \/ Build \/ BuildFails \/ TakeUpdate \/
             TakeStop \/ FileSeen
       PROVE  SlotInv'
  BY <1>22
    DEF ApplySettings, ApplyToWatch, Build, BuildFails, FileSeen, HoldsGuard, SlotInv,
        SlotTypeOK, StagesApart, TakeStop, TakeUpdate, TaskAt, TaskStates, TaskTypeOK,
        TypeOK
<1>23. ASSUME Crash  PROVE  SlotInv'
  BY <1>23
    DEF Crash, Doing, HoldsGuard, Idle, IdleTask, NoSnap, Procs, SlotInv, SlotTypeOK,
        StagesApart, TaskAt, TaskStates, TaskTypeOK, TypeOK, Working
<1>24. ASSUME NEW c \in Candidates, Candidate(c) \/ LoadToRefuse(c) \/ TooLong(c)
       PROVE  SlotInv'
  BY <1>24
    DEF Candidate, HoldsGuard, LoadToRefuse, SlotInv, SlotTypeOK, StagesApart, TaskAt,
        TaskStates, TaskTypeOK, TooLong, TypeOK
<1>25. CASE UNCHANGED vars
  BY <1>25
    DEF HoldsGuard, SlotInv, SlotTypeOK, StagesApart, TaskAt, TaskStates, TaskTypeOK,
        TypeOK, vars
<1> QED
  BY <1>1, <1>2, <1>3, <1>4, <1>5, <1>6, <1>7, <1>8, <1>9, <1>10, <1>11, <1>12, <1>13,
     <1>14, <1>15, <1>16, <1>17, <1>18, <1>19, <1>20, <1>21, <1>22, <1>23, <1>24, <1>25
    DEF Next, Window, ProcStep, TaskStep, SlotNext, ToolStep, Watch

(* A task enters its loop only where the flag was down, and lowers it when it*)
(* leaves.                                                                  *)
LEMMA LoopStep ==
  ASSUME TypeOK, TaskInv, [Next]_vars
  PROVE  TaskInv'
<1> USE DEF slotVars, vqVars, watchVars, diskVars, queueVars, notes, KeepForProc,
      KeepForTask, KeepForLoop, KeepHistories, Command
<1>1. ASSUME StartDictation \/ EndDictation, UNCHANGED <<vqVars, watchVars>>
       PROVE  TaskInv'
  BY <1>1
    DEF EndDictation, HasFile, InLoop, StartDictation, TaskAt, TaskInv, TaskPcs,
        TaskStates, TaskTypeOK, TypeOK
<1>2. ASSUME NEW t \in Tools,
             ToolBegins(t) \/ BeginStage(t) \/ EndStage(t) \/ StagePanics(t) \/
             ToolEnds(t),
             UNCHANGED <<vqVars, watchVars>>
       PROVE  TaskInv'
  BY <1>2
    DEF BeginStage, EndStage, HasFile, InLoop, StagePanics, TaskAt, TaskInv, TaskPcs,
        TaskStates, TaskTypeOK, ToolBegins, ToolEnds, TypeOK
<1>3. ASSUME EnqueueVoiceFile \/ Retry \/ RemoveFromIndex \/ DeleteEntry \/
             ClearHistory \/ RegisterIndexPath,
             UNCHANGED watchVars
       PROVE  TaskInv'
  BY <1>3
    DEF ClearHistory, DeleteEntry, EnqueueVoiceFile, HasFile, InLoop, RegisterIndexPath,
        RemoveFromIndex, Retry, TaskAt, TaskInv, TaskPcs, TaskStates, TaskTypeOK, TypeOK
<1>4. ASSUME NEW p \in Procs,
             TakeLock(p) \/ SkipQueued(p) \/ Import(p) \/ PutJob(p) \/ ImportFails(p) \/
             EndEnqueue(p) \/ LoadToUnlist(p) \/ Unlist(p) \/ LoadToIndex(p) \/
             Index(p),
             UNCHANGED watchVars
       PROVE  TaskInv'
  BY <1>4
    DEF EndEnqueue, HasFile, Import, ImportFails, InLoop, Index, LoadToIndex,
        LoadToUnlist, PutJob, SkipQueued, TakeLock, TaskAt, TaskInv, TaskPcs, TaskStates,
        TaskTypeOK, TypeOK, Unlist
<1>5. ASSUME NEW p \in Procs, ScheduleWorker(p), UNCHANGED watchVars  PROVE  TaskInv'
  BY <1>5
    DEF At, HasFile, InLoop, Schedule, ScheduleWorker, TaskAt, TaskGoes, TaskInv, TaskPcs,
        TaskStates, TaskTypeOK, TypeOK
<1>6. ASSUME NEW k \in Tasks, Pop(k), UNCHANGED watchVars  PROVE  TaskInv'
  <2>1. Head(pending) \in Files
    BY <1>6 DEF Pop, TypeOK, QueueTypeOK
  <2>2. task' = [task EXCEPT ![k] = Working("load", Head(pending), "processing")]
        /\ active' = Head(pending) /\ task[k].pc = "pop" /\ scheduled' = scheduled
    BY <1>6 DEF Pop, TaskAt
  <2> QED
    BY <1>6, <2>1, <2>2
      DEF TypeOK, TaskTypeOK, TaskStates, Working, TaskInv, InLoop, HasFile, TaskPcs
<1>7. ASSUME NEW k \in Tasks, PopNothing(k), UNCHANGED watchVars  PROVE  TaskInv'
  BY <1>7
    DEF HasFile, InLoop, PopNothing, TaskAt, TaskGoes, TaskInv, TaskPcs, TaskStates,
        TaskTypeOK, TypeOK
<1>8. ASSUME NEW k \in Tasks, LoadStatus(k), UNCHANGED watchVars  PROVE  TaskInv'
  BY <1>8
    DEF HasFile, InLoop, LoadStatus, TaskAt, TaskGoes, TaskInv, TaskPcs, TaskStates,
        TaskTypeOK, TypeOK
<1>9. ASSUME NEW k \in Tasks, SaveStatus(k), UNCHANGED watchVars  PROVE  TaskInv'
  BY <1>9
    DEF HasFile, InLoop, SaveStatus, TaskAt, TaskGoes, TaskInv, TaskPcs, TaskStates,
        TaskTypeOK, TypeOK
<1>10. ASSUME NEW k \in Tasks, SlotSeenFree(k), UNCHANGED watchVars  PROVE  TaskInv'
  BY <1>10
    DEF HasFile, InLoop, SlotFree, SlotSeenFree, TaskAt, TaskGoes, TaskInv, TaskPcs,
        TaskStates, TaskTypeOK, TypeOK
<1>11. ASSUME NEW k \in Tasks, BeginFile(k), UNCHANGED watchVars  PROVE  TaskInv'
  BY <1>11
    DEF BeginFile, HasFile, InLoop, TaskAt, TaskGoes, TaskInv, TaskPcs, TaskStates,
        TaskTypeOK, TypeOK
<1>12. ASSUME NEW k \in Tasks, Requeue(k), UNCHANGED watchVars  PROVE  TaskInv'
  BY <1>12
    DEF HasFile, InLoop, Requeue, SlotFree, TaskAt, TaskInv, TaskPcs, TaskStates,
        TaskTypeOK, TypeOK, Working
<1>13. ASSUME NEW k \in Tasks, EndFile(k), UNCHANGED watchVars  PROVE  TaskInv'
  BY <1>13
    DEF EndFile, HasFile, InLoop, TaskAt, TaskInv, TaskPcs, TaskStates, TaskTypeOK,
        TypeOK, Working
<1>14. ASSUME NEW k \in Tasks, ClearActive(k), UNCHANGED watchVars  PROVE  TaskInv'
  BY <1>14
    DEF ClearActive, HasFile, InLoop, TaskAt, TaskInv, TaskPcs, TaskStates, TaskTypeOK,
        TypeOK, Working
<1>15. ASSUME NEW k \in Tasks, Unschedule(k), UNCHANGED watchVars  PROVE  TaskInv'
  BY <1>15
    DEF HasFile, InLoop, TaskAt, TaskGoes, TaskInv, TaskPcs, TaskStates, TaskTypeOK,
        TypeOK, Unschedule
<1>16. ASSUME NEW k \in Tasks, Recheck(k), UNCHANGED watchVars  PROVE  TaskInv'
  BY <1>16
    DEF HasFile, InLoop, Recheck, TaskAt, TaskGoes, TaskInv, TaskPcs, TaskStates,
        TaskTypeOK, TypeOK
<1>17. ASSUME NEW k \in Tasks, Reschedule(k), UNCHANGED watchVars  PROVE  TaskInv'
  BY <1>17
    DEF HasFile, InLoop, Reschedule, TaskAt, TaskGoes, TaskInv, TaskPcs, TaskStates,
        TaskTypeOK, TypeOK
<1>18. ASSUME ApplySettings \/ ApplyToWatch \/ Build \/ BuildFails \/ TakeUpdate \/
             TakeStop \/ FileSeen
       PROVE  TaskInv'
  BY <1>18
    DEF ApplySettings, ApplyToWatch, Build, BuildFails, FileSeen, HasFile, InLoop,
        TakeStop, TakeUpdate, TaskAt, TaskInv, TaskPcs, TaskStates, TaskTypeOK, TypeOK
<1>19. ASSUME Crash  PROVE  TaskInv'
  BY <1>19
    DEF Crash, Doing, HasFile, Idle, IdleTask, InLoop, NoSnap, Procs, TaskAt, TaskInv,
        TaskPcs, TaskStates, TaskTypeOK, TypeOK, Working
<1>20. ASSUME NEW c \in Candidates, Candidate(c) \/ LoadToRefuse(c) \/ TooLong(c)
       PROVE  TaskInv'
  BY <1>20
    DEF Candidate, HasFile, InLoop, LoadToRefuse, TaskAt, TaskInv, TaskPcs, TaskStates,
        TaskTypeOK, TooLong, TypeOK
<1>21. CASE UNCHANGED vars
  BY <1>21
    DEF HasFile, InLoop, TaskAt, TaskInv, TaskPcs, TaskStates, TaskTypeOK, TypeOK, vars
<1> QED
  BY <1>1, <1>2, <1>3, <1>4, <1>5, <1>6, <1>7, <1>8, <1>9, <1>10, <1>11, <1>12, <1>13,
     <1>14, <1>15, <1>16, <1>17, <1>18, <1>19, <1>20, <1>21
    DEF Next, Window, ProcStep, TaskStep, SlotNext, ToolStep, Watch

(* Every change of the queue needs the mutex to be free, but for the one of *)
(* its owner; so what the owner found without a job still has none.         *)
LEMMA LockStep ==
  ASSUME TypeOK, LockInv, TaskInv, [Next]_vars
  PROVE  LockInv'
<1> USE DEF slotVars, vqVars, watchVars, diskVars, queueVars, notes, KeepForProc,
      KeepForTask, KeepForLoop, KeepHistories, Command
<1>1. ASSUME StartDictation \/ EndDictation, UNCHANGED <<vqVars, watchVars>>
       PROVE  LockInv'
  BY <1>1
    DEF At, EndDictation, LockInv, ProcStates, ProcTypeOK, Procs, Queued, StartDictation,
        TypeOK
<1>2. ASSUME NEW t \in Tools,
             ToolBegins(t) \/ BeginStage(t) \/ EndStage(t) \/ StagePanics(t) \/
             ToolEnds(t),
             UNCHANGED <<vqVars, watchVars>>
       PROVE  LockInv'
  BY <1>2
    DEF At, BeginStage, EndStage, LockInv, ProcStates, ProcTypeOK, Procs, Queued,
        StagePanics, ToolBegins, ToolEnds, TypeOK
<1>3. ASSUME ClearHistory, UNCHANGED watchVars  PROVE  LockInv'
  BY <1>3 DEF At, ClearHistory, LockInv, ProcStates, ProcTypeOK, Procs, Queued, TypeOK
<1>4. ASSUME EnqueueVoiceFile, UNCHANGED watchVars  PROVE  LockInv'
  BY <1>4, QueueAssumption
    DEF At, Begin, Doing, EnqueueVoiceFile, LockInv, ProcStates, ProcTypeOK, Procs,
        Queued, TypeOK
<1>5. ASSUME Retry, UNCHANGED watchVars  PROVE  LockInv'
  BY <1>5, QueueAssumption
    DEF At, Begin, Doing, LockInv, ProcStates, ProcTypeOK, Procs, Queued, Retry, TypeOK
<1>6. ASSUME RemoveFromIndex, UNCHANGED watchVars  PROVE  LockInv'
  BY <1>6, QueueAssumption
    DEF At, Begin, Doing, LockInv, ProcStates, ProcTypeOK, Procs, Queued, RemoveFromIndex,
        TypeOK, Without
<1>7. ASSUME DeleteEntry, UNCHANGED watchVars  PROVE  LockInv'
  BY <1>7, QueueAssumption
    DEF At, Begin, DeleteEntry, Doing, LockInv, ProcStates, ProcTypeOK, Procs, Queued,
        TypeOK
<1>8. ASSUME RegisterIndexPath, UNCHANGED watchVars  PROVE  LockInv'
  BY <1>8, QueueAssumption
    DEF At, Doing, LockInv, ProcStates, ProcTypeOK, Procs, Queued, RegisterIndexPath,
        TypeOK
<1>9. ASSUME NEW p \in Procs, TakeLock(p), UNCHANGED watchVars  PROVE  LockInv'
  BY <1>9, QueueAssumption
    DEF At, Goes, LockInv, ProcStates, ProcTypeOK, Procs, Queued, TakeLock, TypeOK
<1>10. ASSUME NEW p \in Procs, SkipQueued(p), UNCHANGED watchVars  PROVE  LockInv'
  BY <1>10, QueueAssumption
    DEF At, LockInv, ProcStates, ProcTypeOK, Procs, Queued, SkipQueued, TypeOK
<1>11. ASSUME NEW p \in Procs, Import(p), UNCHANGED watchVars  PROVE  LockInv'
  BY <1>11, QueueAssumption
    DEF At, Goes, Import, LockInv, ProcStates, ProcTypeOK, Procs, Queued, TypeOK
<1>12. ASSUME NEW p \in Procs, PutJob(p), UNCHANGED watchVars  PROVE  LockInv'
  BY <1>12, QueueAssumption
    DEF At, LockInv, ProcStates, ProcTypeOK, Procs, PutJob, Queued, TypeOK
<1>13. ASSUME NEW p \in Procs, ImportFails(p), UNCHANGED watchVars  PROVE  LockInv'
  BY <1>13, QueueAssumption
    DEF At, Doing, Done, Idle, ImportFails, LockInv, ProcStates, ProcTypeOK, Procs,
        Queued, TypeOK
<1>14. ASSUME NEW p \in Procs, EndEnqueue(p), UNCHANGED watchVars  PROVE  LockInv'
  BY <1>14, QueueAssumption
    DEF At, Doing, Done, EndEnqueue, Goes, Idle, LockInv, ProcStates, ProcTypeOK, Procs,
        Queued, TypeOK
<1>15. ASSUME NEW p \in Procs, ScheduleWorker(p), UNCHANGED watchVars  PROVE  LockInv'
  BY <1>15, QueueAssumption
    DEF At, Doing, Done, Idle, LockInv, ProcStates, ProcTypeOK, Procs, Queued,
        ScheduleWorker, TypeOK
<1>16. ASSUME NEW p \in Procs, LoadToUnlist(p), UNCHANGED watchVars  PROVE  LockInv'
  BY <1>16, QueueAssumption
    DEF At, Goes, LoadToUnlist, LockInv, ProcStates, ProcTypeOK, Procs, Queued, TypeOK
<1>17. ASSUME NEW p \in Procs, Unlist(p), UNCHANGED watchVars  PROVE  LockInv'
  BY <1>17, QueueAssumption
    DEF At, Doing, Done, Idle, LockInv, ProcStates, ProcTypeOK, Procs, Queued, TypeOK,
        Unlist
<1>18. ASSUME NEW p \in Procs, LoadToIndex(p), UNCHANGED watchVars  PROVE  LockInv'
  BY <1>18, QueueAssumption
    DEF At, Goes, LoadToIndex, LockInv, ProcStates, ProcTypeOK, Procs, Queued, TypeOK
<1>19. ASSUME NEW p \in Procs, Index(p), UNCHANGED watchVars  PROVE  LockInv'
  BY <1>19, QueueAssumption
    DEF At, Doing, Done, Idle, Index, LockInv, ProcStates, ProcTypeOK, Procs, Queued,
        TypeOK
<1>20. ASSUME NEW k \in Tasks,
             PopNothing(k) \/ LoadStatus(k) \/ SaveStatus(k) \/ SlotSeenFree(k) \/
             BeginFile(k) \/ EndFile(k) \/ Unschedule(k) \/ Recheck(k) \/
             Reschedule(k),
             UNCHANGED watchVars
       PROVE  LockInv'
  BY <1>20
    DEF At, BeginFile, EndFile, LoadStatus, LockInv, PopNothing, ProcStates, ProcTypeOK,
        Procs, Queued, Recheck, Reschedule, SaveStatus, SlotSeenFree, TypeOK, Unschedule
<1>21. ASSUME NEW k \in Tasks, Pop(k), UNCHANGED watchVars  PROVE  LockInv'
  BY <1>21, QueueAssumption
    DEF At, LockInv, Pop, ProcStates, ProcTypeOK, Procs, Queued, TaskAt, TypeOK, Working
<1>22. ASSUME NEW k \in Tasks, Requeue(k), UNCHANGED watchVars  PROVE  LockInv'
  BY <1>22, QueueAssumption
    DEF At, LockInv, ProcStates, ProcTypeOK, Procs, Queued, Requeue, SlotFree, TaskAt,
        TypeOK, Working
<1>23. ASSUME NEW k \in Tasks, ClearActive(k), UNCHANGED watchVars  PROVE  LockInv'
  BY <1>23, QueueAssumption
    DEF At, ClearActive, LockInv, ProcStates, ProcTypeOK, Procs, Queued, TaskAt, TypeOK,
        Working
<1>24. ASSUME Build \/ BuildFails \/ TakeUpdate \/ TakeStop  PROVE  LockInv'
  BY <1>24
    DEF At, Build, BuildFails, LockInv, ProcStates, ProcTypeOK, Procs, Queued, TakeStop,
        TakeUpdate, TypeOK
<1>25. ASSUME ApplySettings  PROVE  LockInv'
  BY <1>25, QueueAssumption
    DEF ApplySettings, At, Goes, LockInv, ProcStates, ProcTypeOK, Procs, Queued, TypeOK
<1>26. ASSUME ApplyToWatch  PROVE  LockInv'
  BY <1>26, QueueAssumption
    DEF ApplyToWatch, At, Doing, Done, Idle, LockInv, ProcStates, ProcTypeOK, Procs,
        Queued, TypeOK
<1>27. ASSUME FileSeen  PROVE  LockInv'
  BY <1>27, QueueAssumption
    DEF At, Begin, Doing, FileSeen, LockInv, ProcStates, ProcTypeOK, Procs, Queued,
        TypeOK
<1>28. ASSUME Crash  PROVE  LockInv'
  BY <1>28, QueueAssumption
    DEF At, Crash, Doing, Idle, IdleTask, LockInv, NoSnap, ProcStates, ProcTypeOK, Procs,
        Queued, TypeOK, Working
<1>29. ASSUME NEW c \in Candidates, Candidate(c)  PROVE  LockInv'
  <2>1. c \in Procs /\ At(c, "known")
    BY <1>29 DEF Candidate, Procs
  <2>2. CASE Done(c)
    BY <1>29, <2>1, <2>2
      DEF Candidate, Done, Idle, Doing, LockInv, At, Queued, TypeOK, ProcTypeOK,
          ProcStates
  <2>3. CASE Goes(c, "long") \/ Goes(c, "lock")
    BY <1>29, <2>1, <2>3
      DEF Candidate, Goes, LockInv, At, Queued, TypeOK, ProcTypeOK, ProcStates
  <2> QED
    BY <1>29, <2>2, <2>3 DEF Candidate
<1>30. ASSUME NEW c \in Candidates, LoadToRefuse(c)  PROVE  LockInv'
  BY <1>30, QueueAssumption
    DEF At, Goes, LoadToRefuse, LockInv, ProcStates, ProcTypeOK, Procs, Queued, TypeOK
<1>31. ASSUME NEW c \in Candidates, TooLong(c)  PROVE  LockInv'
  BY <1>31, QueueAssumption
    DEF At, Doing, Done, Idle, LockInv, ProcStates, ProcTypeOK, Procs, Queued, TooLong,
        TypeOK
<1>32. CASE UNCHANGED vars
  BY <1>32 DEF At, LockInv, ProcStates, ProcTypeOK, Procs, Queued, TypeOK, vars
<1> QED
  BY <1>1, <1>2, <1>3, <1>4, <1>5, <1>6, <1>7, <1>8, <1>9, <1>10, <1>11, <1>12, <1>13,
     <1>14, <1>15, <1>16, <1>17, <1>18, <1>19, <1>20, <1>21, <1>22, <1>23, <1>24, <1>25,
     <1>26, <1>27, <1>28, <1>29, <1>30, <1>31, <1>32
    DEF Next, Window, ProcStep, TaskStep, SlotNext, ToolStep, Watch

(* What is put in has no job, what is put back was the active one, and what is*)
(* popped becomes it.                                                       *)
LEMMA OnceStep ==
  ASSUME TypeOK, TaskInv, LockInv, OnceQueued, [Next]_vars
  PROVE  OnceQueued'
<1> USE DEF slotVars, vqVars, watchVars, diskVars, queueVars, notes, KeepForProc,
      KeepForTask, KeepForLoop, KeepHistories, Command
<1>1. ASSUME StartDictation \/ EndDictation, UNCHANGED <<vqVars, watchVars>>
       PROVE  OnceQueued'
  BY <1>1
    DEF At, EndDictation, HasFile, LockInv, OnceQueued, QueueTypeOK, Queued,
        StartDictation, TaskAt, TaskInv, TypeOK
<1>2. ASSUME NEW t \in Tools,
             ToolBegins(t) \/ BeginStage(t) \/ EndStage(t) \/ StagePanics(t) \/
             ToolEnds(t),
             UNCHANGED <<vqVars, watchVars>>
       PROVE  OnceQueued'
  BY <1>2
    DEF At, BeginStage, EndStage, HasFile, LockInv, OnceQueued, QueueTypeOK, Queued,
        StagePanics, TaskAt, TaskInv, ToolBegins, ToolEnds, TypeOK
<1>3. ASSUME EnqueueVoiceFile \/ Retry \/ DeleteEntry \/ ClearHistory \/
             RegisterIndexPath,
             UNCHANGED watchVars
       PROVE  OnceQueued'
  BY <1>3
    DEF At, ClearHistory, DeleteEntry, EnqueueVoiceFile, HasFile, LockInv, OnceQueued,
        QueueTypeOK, Queued, RegisterIndexPath, Retry, TaskAt, TaskInv, TypeOK
<1>4. ASSUME RemoveFromIndex, UNCHANGED watchVars  PROVE  OnceQueued'
  BY <1>4, QueueAssumption
    DEF At, HasFile, LockInv, OnceQueued, QueueTypeOK, Queued, RemoveFromIndex, TaskAt,
        TaskInv, TypeOK, Without
<1>5. ASSUME NEW p \in Procs,
             TakeLock(p) \/ SkipQueued(p) \/ Import(p) \/ ImportFails(p) \/
             EndEnqueue(p) \/ ScheduleWorker(p) \/ LoadToUnlist(p) \/ Unlist(p) \/
             LoadToIndex(p) \/ Index(p),
             UNCHANGED watchVars
       PROVE  OnceQueued'
  BY <1>5
    DEF At, EndEnqueue, HasFile, Import, ImportFails, Index, LoadToIndex, LoadToUnlist,
        LockInv, OnceQueued, QueueTypeOK, Queued, ScheduleWorker, SkipQueued, TakeLock,
        TaskAt, TaskInv, TypeOK, Unlist
<1>6. ASSUME NEW p \in Procs, PutJob(p), UNCHANGED watchVars  PROVE  OnceQueued'
  BY <1>6, QueueAssumption
    DEF At, HasFile, LockInv, OnceQueued, PutJob, QueueTypeOK, Queued, TaskAt, TaskInv,
        TypeOK
<1>7. ASSUME NEW k \in Tasks,
             PopNothing(k) \/ LoadStatus(k) \/ SaveStatus(k) \/ SlotSeenFree(k) \/
             BeginFile(k) \/ EndFile(k) \/ Unschedule(k) \/ Recheck(k) \/
             Reschedule(k),
             UNCHANGED watchVars
       PROVE  OnceQueued'
  BY <1>7
    DEF At, BeginFile, EndFile, HasFile, LoadStatus, LockInv, OnceQueued, PopNothing,
        QueueTypeOK, Queued, Recheck, Reschedule, SaveStatus, SlotSeenFree, TaskAt,
        TaskInv, TypeOK, Unschedule
<1>8. ASSUME NEW k \in Tasks, Pop(k), UNCHANGED watchVars  PROVE  OnceQueued'
  BY <1>8, QueueAssumption
    DEF At, HasFile, LockInv, OnceQueued, Pop, QueueTypeOK, Queued, TaskAt, TaskInv,
        TypeOK, Working
<1>9. ASSUME NEW k \in Tasks, Requeue(k), UNCHANGED watchVars  PROVE  OnceQueued'
  BY <1>9, QueueAssumption
    DEF At, HasFile, LockInv, OnceQueued, QueueTypeOK, Queued, Requeue, SlotFree, TaskAt,
        TaskInv, TypeOK, Working
<1>10. ASSUME NEW k \in Tasks, ClearActive(k), UNCHANGED watchVars  PROVE  OnceQueued'
  BY <1>10, QueueAssumption
    DEF At, ClearActive, HasFile, LockInv, OnceQueued, QueueTypeOK, Queued, TaskAt,
        TaskInv, TypeOK, Working
<1>11. ASSUME ApplySettings \/ ApplyToWatch \/ Build \/ BuildFails \/ TakeUpdate \/
             TakeStop \/ FileSeen
       PROVE  OnceQueued'
  BY <1>11
    DEF ApplySettings, ApplyToWatch, At, Build, BuildFails, FileSeen, HasFile, LockInv,
        OnceQueued, QueueTypeOK, Queued, TakeStop, TakeUpdate, TaskAt, TaskInv, TypeOK
<1>12. ASSUME Crash  PROVE  OnceQueued'
  BY <1>12, QueueAssumption
    DEF At, Crash, Doing, HasFile, Idle, IdleTask, LockInv, NoSnap, OnceQueued, Procs,
        QueueTypeOK, Queued, TaskAt, TaskInv, TypeOK, Working
<1>13. ASSUME NEW c \in Candidates, Candidate(c) \/ LoadToRefuse(c) \/ TooLong(c)
       PROVE  OnceQueued'
  BY <1>13
    DEF At, Candidate, HasFile, LoadToRefuse, LockInv, OnceQueued, QueueTypeOK, Queued,
        TaskAt, TaskInv, TooLong, TypeOK
<1>14. CASE UNCHANGED vars
  BY <1>14
    DEF At, HasFile, LockInv, OnceQueued, QueueTypeOK, Queued, TaskAt, TaskInv, TypeOK,
        vars
<1> QED
  BY <1>1, <1>2, <1>3, <1>4, <1>5, <1>6, <1>7, <1>8, <1>9, <1>10, <1>11, <1>12, <1>13,
     <1>14
    DEF Next, Window, ProcStep, TaskStep, SlotNext, ToolStep, Watch

(* A task ends only with an empty queue or when another is in its loop; a   *)
(* thread that put a job in starts one or leaves the jobs stranded.         *)
LEMMA ForgottenStep ==
  ASSUME TypeOK, TaskInv, LockInv, NobodyForgotten, [Next]_vars
  PROVE  NobodyForgotten'
<1> USE DEF slotVars, vqVars, watchVars, diskVars, queueVars, notes, KeepForProc,
      KeepForTask, KeepForLoop, KeepHistories, Command
<1>1. ASSUME StartDictation \/ EndDictation, UNCHANGED <<vqVars, watchVars>>
       PROVE  NobodyForgotten'
  BY <1>1
    DEF At, EndDictation, InLoop, LockInv, NobodyForgotten, ProcStates, ProcTypeOK, Procs,
        SomeoneComes, StartDictation, TaskAt, TaskInv, TaskStates, TaskTypeOK, TypeOK
<1>2. ASSUME NEW t \in Tools,
             ToolBegins(t) \/ BeginStage(t) \/ EndStage(t) \/ StagePanics(t) \/
             ToolEnds(t),
             UNCHANGED <<vqVars, watchVars>>
       PROVE  NobodyForgotten'
  BY <1>2
    DEF At, BeginStage, EndStage, InLoop, LockInv, NobodyForgotten, ProcStates,
        ProcTypeOK, Procs, SomeoneComes, StagePanics, TaskAt, TaskInv, TaskStates,
        TaskTypeOK, ToolBegins, ToolEnds, TypeOK
<1>3. ASSUME ClearHistory, UNCHANGED watchVars  PROVE  NobodyForgotten'
  BY <1>3
    DEF At, ClearHistory, InLoop, LockInv, NobodyForgotten, ProcStates, ProcTypeOK, Procs,
        SomeoneComes, TaskAt, TaskInv, TaskStates, TaskTypeOK, TypeOK
<1>4. ASSUME EnqueueVoiceFile, UNCHANGED watchVars  PROVE  NobodyForgotten'
  BY <1>4, QueueAssumption
    DEF At, Begin, Doing, EnqueueVoiceFile, InLoop, LockInv, NobodyForgotten, ProcStates,
        ProcTypeOK, Procs, SomeoneComes, TaskAt, TaskInv, TaskStates, TaskTypeOK, TypeOK
<1>5. ASSUME Retry, UNCHANGED watchVars  PROVE  NobodyForgotten'
  BY <1>5, QueueAssumption
    DEF At, Begin, Doing, InLoop, LockInv, NobodyForgotten, ProcStates, ProcTypeOK, Procs,
        Retry, SomeoneComes, TaskAt, TaskInv, TaskStates, TaskTypeOK, TypeOK
<1>6. ASSUME RemoveFromIndex, UNCHANGED watchVars  PROVE  NobodyForgotten'
  BY <1>6, QueueAssumption
    DEF At, Begin, Doing, InLoop, LockInv, NobodyForgotten, ProcStates, ProcTypeOK, Procs,
        RemoveFromIndex, SomeoneComes, TaskAt, TaskInv, TaskStates, TaskTypeOK, TypeOK,
        Without
<1>7. ASSUME DeleteEntry, UNCHANGED watchVars  PROVE  NobodyForgotten'
  BY <1>7, QueueAssumption
    DEF At, Begin, DeleteEntry, Doing, InLoop, LockInv, NobodyForgotten, ProcStates,
        ProcTypeOK, Procs, SomeoneComes, TaskAt, TaskInv, TaskStates, TaskTypeOK, TypeOK
<1>8. ASSUME RegisterIndexPath, UNCHANGED watchVars  PROVE  NobodyForgotten'
  BY <1>8, QueueAssumption
    DEF At, Doing, InLoop, LockInv, NobodyForgotten, ProcStates, ProcTypeOK, Procs,
        RegisterIndexPath, SomeoneComes, TaskAt, TaskInv, TaskStates, TaskTypeOK, TypeOK
<1>9. ASSUME NEW p \in Procs, TakeLock(p), UNCHANGED watchVars  PROVE  NobodyForgotten'
  BY <1>9, QueueAssumption
    DEF At, Goes, InLoop, LockInv, NobodyForgotten, ProcStates, ProcTypeOK, Procs,
        SomeoneComes, TakeLock, TaskAt, TaskInv, TaskStates, TaskTypeOK, TypeOK
<1>10. ASSUME NEW p \in Procs, SkipQueued(p), UNCHANGED watchVars  PROVE  NobodyForgotten'
  BY <1>10, QueueAssumption
    DEF At, InLoop, LockInv, NobodyForgotten, ProcStates, ProcTypeOK, Procs, Queued,
        SkipQueued, SomeoneComes, TaskAt, TaskInv, TaskStates, TaskTypeOK, TypeOK
<1>11. ASSUME NEW p \in Procs, Import(p), UNCHANGED watchVars  PROVE  NobodyForgotten'
  BY <1>11, QueueAssumption
    DEF At, Goes, Import, InLoop, LockInv, NobodyForgotten, ProcStates, ProcTypeOK, Procs,
        Queued, SomeoneComes, TaskAt, TaskInv, TaskStates, TaskTypeOK, TypeOK
<1>12. ASSUME NEW p \in Procs, PutJob(p), UNCHANGED watchVars  PROVE  NobodyForgotten'
  BY <1>12, QueueAssumption
    DEF At, InLoop, LockInv, NobodyForgotten, ProcStates, ProcTypeOK, Procs, PutJob,
        SomeoneComes, TaskAt, TaskInv, TaskStates, TaskTypeOK, TypeOK
<1>13. ASSUME NEW p \in Procs, ImportFails(p), UNCHANGED watchVars
       PROVE  NobodyForgotten'
  BY <1>13, QueueAssumption
    DEF At, Doing, Done, Idle, ImportFails, InLoop, LockInv, NobodyForgotten, ProcStates,
        ProcTypeOK, Procs, SomeoneComes, TaskAt, TaskInv, TaskStates, TaskTypeOK, TypeOK
<1>14. ASSUME NEW p \in Procs, EndEnqueue(p), UNCHANGED watchVars  PROVE  NobodyForgotten'
  BY <1>14, QueueAssumption
    DEF At, Doing, Done, EndEnqueue, Goes, Idle, InLoop, LockInv, NobodyForgotten,
        ProcStates, ProcTypeOK, Procs, SomeoneComes, TaskAt, TaskInv, TaskStates,
        TaskTypeOK, TypeOK
<1>15. ASSUME NEW p \in Procs, ScheduleWorker(p), UNCHANGED watchVars
       PROVE  NobodyForgotten'
  BY <1>15, QueueAssumption
    DEF At, Doing, Done, Idle, InLoop, LockInv, NobodyForgotten, ProcStates, ProcTypeOK,
        Procs, Schedule, ScheduleWorker, SomeoneComes, TaskAt, TaskGoes, TaskInv,
        TaskStates, TaskTypeOK, TypeOK
<1>16. ASSUME NEW p \in Procs, LoadToUnlist(p), UNCHANGED watchVars
       PROVE  NobodyForgotten'
  BY <1>16, QueueAssumption
    DEF At, Goes, InLoop, LoadToUnlist, LockInv, NobodyForgotten, ProcStates, ProcTypeOK,
        Procs, SomeoneComes, TaskAt, TaskInv, TaskStates, TaskTypeOK, TypeOK
<1>17. ASSUME NEW p \in Procs, Unlist(p), UNCHANGED watchVars  PROVE  NobodyForgotten'
  BY <1>17, QueueAssumption
    DEF At, Doing, Done, Idle, InLoop, LockInv, NobodyForgotten, ProcStates, ProcTypeOK,
        Procs, SomeoneComes, TaskAt, TaskInv, TaskStates, TaskTypeOK, TypeOK, Unlist
<1>18. ASSUME NEW p \in Procs, LoadToIndex(p), UNCHANGED watchVars
       PROVE  NobodyForgotten'
  BY <1>18, QueueAssumption
    DEF At, Goes, InLoop, LoadToIndex, LockInv, NobodyForgotten, ProcStates, ProcTypeOK,
        Procs, SomeoneComes, TaskAt, TaskInv, TaskStates, TaskTypeOK, TypeOK
<1>19. ASSUME NEW p \in Procs, Index(p), UNCHANGED watchVars  PROVE  NobodyForgotten'
  BY <1>19, QueueAssumption
    DEF At, Doing, Done, Idle, InLoop, Index, LockInv, NobodyForgotten, ProcStates,
        ProcTypeOK, Procs, SomeoneComes, TaskAt, TaskInv, TaskStates, TaskTypeOK, TypeOK
<1>20. ASSUME NEW k \in Tasks, Pop(k), UNCHANGED watchVars  PROVE  NobodyForgotten'
  BY <1>20, QueueAssumption
    DEF At, InLoop, LockInv, NobodyForgotten, Pop, ProcStates, ProcTypeOK, Procs,
        SomeoneComes, TaskAt, TaskInv, TaskStates, TaskTypeOK, TypeOK, Working
<1>21. ASSUME NEW k \in Tasks, PopNothing(k), UNCHANGED watchVars  PROVE  NobodyForgotten'
  BY <1>21, QueueAssumption
    DEF At, InLoop, LockInv, NobodyForgotten, PopNothing, ProcStates, ProcTypeOK, Procs,
        SomeoneComes, TaskAt, TaskGoes, TaskInv, TaskStates, TaskTypeOK, TypeOK
<1>22. ASSUME NEW k \in Tasks, LoadStatus(k), UNCHANGED watchVars  PROVE  NobodyForgotten'
  BY <1>22, QueueAssumption
    DEF At, InLoop, LoadStatus, LockInv, NobodyForgotten, ProcStates, ProcTypeOK, Procs,
        SomeoneComes, TaskAt, TaskGoes, TaskInv, TaskStates, TaskTypeOK, TypeOK
<1>23. ASSUME NEW k \in Tasks, SaveStatus(k), UNCHANGED watchVars  PROVE  NobodyForgotten'
  BY <1>23, QueueAssumption
    DEF At, InLoop, LockInv, NobodyForgotten, ProcStates, ProcTypeOK, Procs, SaveStatus,
        SomeoneComes, TaskAt, TaskGoes, TaskInv, TaskStates, TaskTypeOK, TypeOK
<1>24. ASSUME NEW k \in Tasks, SlotSeenFree(k), UNCHANGED watchVars
       PROVE  NobodyForgotten'
  BY <1>24, QueueAssumption
    DEF At, InLoop, LockInv, NobodyForgotten, ProcStates, ProcTypeOK, Procs, SlotFree,
        SlotSeenFree, SomeoneComes, TaskAt, TaskGoes, TaskInv, TaskStates, TaskTypeOK,
        TypeOK
<1>25. ASSUME NEW k \in Tasks, BeginFile(k), UNCHANGED watchVars  PROVE  NobodyForgotten'
  BY <1>25, QueueAssumption
    DEF At, BeginFile, InLoop, LockInv, NobodyForgotten, ProcStates, ProcTypeOK, Procs,
        SomeoneComes, TaskAt, TaskGoes, TaskInv, TaskStates, TaskTypeOK, TypeOK
<1>26. ASSUME NEW k \in Tasks, Requeue(k), UNCHANGED watchVars  PROVE  NobodyForgotten'
  BY <1>26, QueueAssumption
    DEF At, InLoop, LockInv, NobodyForgotten, ProcStates, ProcTypeOK, Procs, Requeue,
        SlotFree, SomeoneComes, TaskAt, TaskInv, TaskStates, TaskTypeOK, TypeOK, Working
<1>27. ASSUME NEW k \in Tasks, EndFile(k), UNCHANGED watchVars  PROVE  NobodyForgotten'
  BY <1>27, QueueAssumption
    DEF At, EndFile, InLoop, LockInv, NobodyForgotten, ProcStates, ProcTypeOK, Procs,
        SomeoneComes, TaskAt, TaskInv, TaskStates, TaskTypeOK, TypeOK, Working
<1>28. ASSUME NEW k \in Tasks, ClearActive(k), UNCHANGED watchVars
       PROVE  NobodyForgotten'
  BY <1>28, QueueAssumption
    DEF At, ClearActive, InLoop, LockInv, NobodyForgotten, ProcStates, ProcTypeOK, Procs,
        SomeoneComes, TaskAt, TaskInv, TaskStates, TaskTypeOK, TypeOK, Working
<1>29. ASSUME NEW k \in Tasks, Unschedule(k), UNCHANGED watchVars  PROVE  NobodyForgotten'
  BY <1>29, QueueAssumption
    DEF At, InLoop, LockInv, NobodyForgotten, ProcStates, ProcTypeOK, Procs, SomeoneComes,
        TaskAt, TaskGoes, TaskInv, TaskStates, TaskTypeOK, TypeOK, Unschedule
<1>30. ASSUME NEW k \in Tasks, Recheck(k), UNCHANGED watchVars  PROVE  NobodyForgotten'
  BY <1>30, QueueAssumption
    DEF At, InLoop, LockInv, NobodyForgotten, ProcStates, ProcTypeOK, Procs, Recheck,
        SomeoneComes, TaskAt, TaskGoes, TaskInv, TaskStates, TaskTypeOK, TypeOK
<1>31. ASSUME NEW k \in Tasks, Reschedule(k), UNCHANGED watchVars  PROVE  NobodyForgotten'
  BY <1>31, QueueAssumption
    DEF At, InLoop, LockInv, NobodyForgotten, ProcStates, ProcTypeOK, Procs, Reschedule,
        SomeoneComes, TaskAt, TaskGoes, TaskInv, TaskStates, TaskTypeOK, TypeOK
<1>32. ASSUME Build \/ BuildFails \/ TakeUpdate \/ TakeStop  PROVE  NobodyForgotten'
  BY <1>32
    DEF At, Build, BuildFails, InLoop, LockInv, NobodyForgotten, ProcStates, ProcTypeOK,
        Procs, SomeoneComes, TakeStop, TakeUpdate, TaskAt, TaskInv, TaskStates,
        TaskTypeOK, TypeOK
<1>33. ASSUME ApplySettings  PROVE  NobodyForgotten'
  BY <1>33, QueueAssumption
    DEF ApplySettings, At, Goes, InLoop, LockInv, NobodyForgotten, ProcStates, ProcTypeOK,
        Procs, SomeoneComes, TaskAt, TaskInv, TaskStates, TaskTypeOK, TypeOK
<1>34. ASSUME ApplyToWatch  PROVE  NobodyForgotten'
  BY <1>34, QueueAssumption
    DEF ApplyToWatch, At, Doing, Done, Idle, InLoop, LockInv, NobodyForgotten, ProcStates,
        ProcTypeOK, Procs, SomeoneComes, TaskAt, TaskInv, TaskStates, TaskTypeOK, TypeOK
<1>35. ASSUME FileSeen  PROVE  NobodyForgotten'
  BY <1>35, QueueAssumption
    DEF At, Begin, Doing, FileSeen, InLoop, LockInv, NobodyForgotten, ProcStates,
        ProcTypeOK, Procs, SomeoneComes, TaskAt, TaskInv, TaskStates, TaskTypeOK, TypeOK
<1>36. ASSUME Crash  PROVE  NobodyForgotten'
  BY <1>36, QueueAssumption
    DEF At, Crash, Doing, Idle, IdleTask, InLoop, LockInv, NoSnap, NobodyForgotten,
        ProcStates, ProcTypeOK, Procs, SomeoneComes, TaskAt, TaskInv, TaskStates,
        TaskTypeOK, TypeOK, Working
<1>37. ASSUME NEW c \in Candidates, Candidate(c)  PROVE  NobodyForgotten'
  BY <1>37, QueueAssumption
    DEF At, Candidate, Doing, Done, Goes, Idle, InLoop, LockInv, NobodyForgotten,
        ProcStates, ProcTypeOK, Procs, SomeoneComes, TaskAt, TaskInv, TaskStates,
        TaskTypeOK, TypeOK
<1>38. ASSUME NEW c \in Candidates, LoadToRefuse(c)  PROVE  NobodyForgotten'
  BY <1>38, QueueAssumption
    DEF At, Goes, InLoop, LoadToRefuse, LockInv, NobodyForgotten, ProcStates, ProcTypeOK,
        Procs, SomeoneComes, TaskAt, TaskInv, TaskStates, TaskTypeOK, TypeOK
<1>39. ASSUME NEW c \in Candidates, TooLong(c)  PROVE  NobodyForgotten'
  BY <1>39, QueueAssumption
    DEF At, Doing, Done, Idle, InLoop, LockInv, NobodyForgotten, ProcStates, ProcTypeOK,
        Procs, SomeoneComes, TaskAt, TaskInv, TaskStates, TaskTypeOK, TooLong, TypeOK
<1>40. CASE UNCHANGED vars
  BY <1>40
    DEF At, InLoop, LockInv, NobodyForgotten, ProcStates, ProcTypeOK, Procs, SomeoneComes,
        TaskAt, TaskInv, TaskStates, TaskTypeOK, TypeOK, vars
<1> QED
  BY <1>1, <1>2, <1>3, <1>4, <1>5, <1>6, <1>7, <1>8, <1>9, <1>10, <1>11, <1>12, <1>13,
     <1>14, <1>15, <1>16, <1>17, <1>18, <1>19, <1>20, <1>21, <1>22, <1>23, <1>24, <1>25,
     <1>26, <1>27, <1>28, <1>29, <1>30, <1>31, <1>32, <1>33, <1>34, <1>35, <1>36, <1>37,
     <1>38, <1>39, <1>40
    DEF Next, Window, ProcStep, TaskStep, SlotNext, ToolStep, Watch

(* What the window sends last is what the handle says, and the loop reads in*)
(* order.                                                                   *)
LEMMA WatchStep ==
  ASSUME TypeOK, WatchInv, [Next]_vars
  PROVE  WatchInv'
<1> USE DEF slotVars, vqVars, watchVars, diskVars, queueVars, notes, KeepForProc,
      KeepForTask, KeepForLoop, KeepHistories, Command
<1>1. ASSUME StartDictation \/ EndDictation, UNCHANGED <<vqVars, watchVars>>
       PROVE  WatchInv'
  BY <1>1
    DEF Alive, At, EndDictation, ProcStates, ProcTypeOK, Procs, StartDictation, TypeOK,
        WatchInv, WatchTypeOK
<1>2. ASSUME NEW t \in Tools,
             ToolBegins(t) \/ BeginStage(t) \/ EndStage(t) \/ StagePanics(t) \/
             ToolEnds(t),
             UNCHANGED <<vqVars, watchVars>>
       PROVE  WatchInv'
  BY <1>2
    DEF Alive, At, BeginStage, EndStage, ProcStates, ProcTypeOK, Procs, StagePanics,
        ToolBegins, ToolEnds, TypeOK, WatchInv, WatchTypeOK
<1>3. ASSUME ClearHistory, UNCHANGED watchVars  PROVE  WatchInv'
  BY <1>3
    DEF Alive, At, ClearHistory, ProcStates, ProcTypeOK, Procs, TypeOK, WatchInv,
        WatchTypeOK
<1>4. ASSUME EnqueueVoiceFile, UNCHANGED watchVars  PROVE  WatchInv'
  BY <1>4, QueueAssumption
    DEF Alive, At, Begin, Doing, EnqueueVoiceFile, ProcStates, ProcTypeOK, Procs, TypeOK,
        WatchInv, WatchTypeOK
<1>5. ASSUME Retry, UNCHANGED watchVars  PROVE  WatchInv'
  BY <1>5, QueueAssumption
    DEF Alive, At, Begin, Doing, ProcStates, ProcTypeOK, Procs, Retry, TypeOK, WatchInv,
        WatchTypeOK
<1>6. ASSUME RemoveFromIndex, UNCHANGED watchVars  PROVE  WatchInv'
  BY <1>6, QueueAssumption
    DEF Alive, At, Begin, Doing, ProcStates, ProcTypeOK, Procs, RemoveFromIndex, TypeOK,
        WatchInv, WatchTypeOK, Without
<1>7. ASSUME DeleteEntry, UNCHANGED watchVars  PROVE  WatchInv'
  BY <1>7, QueueAssumption
    DEF Alive, At, Begin, DeleteEntry, Doing, ProcStates, ProcTypeOK, Procs, TypeOK,
        WatchInv, WatchTypeOK
<1>8. ASSUME RegisterIndexPath, UNCHANGED watchVars  PROVE  WatchInv'
  BY <1>8, QueueAssumption
    DEF Alive, At, Doing, ProcStates, ProcTypeOK, Procs, RegisterIndexPath, TypeOK,
        WatchInv, WatchTypeOK
<1>9. ASSUME NEW p \in Procs, TakeLock(p), UNCHANGED watchVars  PROVE  WatchInv'
  BY <1>9, QueueAssumption
    DEF Alive, At, Goes, ProcStates, ProcTypeOK, Procs, TakeLock, TypeOK, WatchInv,
        WatchTypeOK
<1>10. ASSUME NEW p \in Procs, SkipQueued(p), UNCHANGED watchVars  PROVE  WatchInv'
  BY <1>10, QueueAssumption
    DEF Alive, At, ProcStates, ProcTypeOK, Procs, Queued, SkipQueued, TypeOK, WatchInv,
        WatchTypeOK
<1>11. ASSUME NEW p \in Procs, Import(p), UNCHANGED watchVars  PROVE  WatchInv'
  BY <1>11, QueueAssumption
    DEF Alive, At, Goes, Import, ProcStates, ProcTypeOK, Procs, Queued, TypeOK, WatchInv,
        WatchTypeOK
<1>12. ASSUME NEW p \in Procs, PutJob(p), UNCHANGED watchVars  PROVE  WatchInv'
  BY <1>12, QueueAssumption
    DEF Alive, At, ProcStates, ProcTypeOK, Procs, PutJob, TypeOK, WatchInv, WatchTypeOK
<1>13. ASSUME NEW p \in Procs, ImportFails(p), UNCHANGED watchVars  PROVE  WatchInv'
  BY <1>13, QueueAssumption
    DEF Alive, At, Doing, Done, Idle, ImportFails, ProcStates, ProcTypeOK, Procs, TypeOK,
        WatchInv, WatchTypeOK
<1>14. ASSUME NEW p \in Procs, EndEnqueue(p), UNCHANGED watchVars  PROVE  WatchInv'
  BY <1>14, QueueAssumption
    DEF Alive, At, Doing, Done, EndEnqueue, Goes, Idle, ProcStates, ProcTypeOK, Procs,
        TypeOK, WatchInv, WatchTypeOK
<1>15. ASSUME NEW p \in Procs, ScheduleWorker(p), UNCHANGED watchVars  PROVE  WatchInv'
  BY <1>15, QueueAssumption
    DEF Alive, At, Doing, Done, Idle, ProcStates, ProcTypeOK, Procs, ScheduleWorker,
        TypeOK, WatchInv, WatchTypeOK
<1>16. ASSUME NEW p \in Procs, LoadToUnlist(p), UNCHANGED watchVars  PROVE  WatchInv'
  BY <1>16, QueueAssumption
    DEF Alive, At, Goes, LoadToUnlist, ProcStates, ProcTypeOK, Procs, TypeOK, WatchInv,
        WatchTypeOK
<1>17. ASSUME NEW p \in Procs, Unlist(p), UNCHANGED watchVars  PROVE  WatchInv'
  BY <1>17, QueueAssumption
    DEF Alive, At, Doing, Done, Idle, ProcStates, ProcTypeOK, Procs, TypeOK, Unlist,
        WatchInv, WatchTypeOK
<1>18. ASSUME NEW p \in Procs, LoadToIndex(p), UNCHANGED watchVars  PROVE  WatchInv'
  BY <1>18, QueueAssumption
    DEF Alive, At, Goes, LoadToIndex, ProcStates, ProcTypeOK, Procs, TypeOK, WatchInv,
        WatchTypeOK
<1>19. ASSUME NEW p \in Procs, Index(p), UNCHANGED watchVars  PROVE  WatchInv'
  BY <1>19, QueueAssumption
    DEF Alive, At, Doing, Done, Idle, Index, ProcStates, ProcTypeOK, Procs, TypeOK,
        WatchInv, WatchTypeOK
<1>20. ASSUME NEW k \in Tasks,
             Pop(k) \/ PopNothing(k) \/ LoadStatus(k) \/ SaveStatus(k) \/
             SlotSeenFree(k) \/ BeginFile(k) \/ Requeue(k) \/ EndFile(k) \/
             ClearActive(k) \/ Unschedule(k) \/ Recheck(k) \/ Reschedule(k),
             UNCHANGED watchVars
       PROVE  WatchInv'
  BY <1>20
    DEF Alive, At, BeginFile, ClearActive, EndFile, LoadStatus, Pop, PopNothing,
        ProcStates, ProcTypeOK, Procs, Recheck, Requeue, Reschedule, SaveStatus,
        SlotSeenFree, TypeOK, Unschedule, WatchInv, WatchTypeOK
<1>21. ASSUME ApplySettings  PROVE  WatchInv'
  BY <1>21, QueueAssumption
    DEF Alive, ApplySettings, At, Goes, ProcStates, ProcTypeOK, Procs, TypeOK, WatchInv,
        WatchTypeOK
<1>22. ASSUME ApplyToWatch  PROVE  WatchInv'
  <2> DEFINE app(m) == Append(inbox, m)
  <2>1. \A m \in {"update", "stop"} : app(m) # <<>> /\ app(m)[Len(app(m))] = m
    BY DEF TypeOK, WatchTypeOK
  <2> HIDE DEF app
  <2>2. wanted' = wanted /\ wanted \in BOOLEAN
    BY <1>22 DEF ApplyToWatch, TypeOK, WatchTypeOK
  <2>3. CASE wanted
    <3>1. StartOrUpdate
      BY <1>22, <2>3 DEF ApplyToWatch
    <3>2. running' = TRUE /\ Alive'
          /\ (inbox' = <<>> \/ inbox' = app("update"))
      BY <3>1 DEF StartOrUpdate, StartLoop, Send, Alive, app
    <3> QED
      BY <2>1, <2>2, <2>3, <3>2 DEF WatchInv
  <2>4. CASE ~wanted
    <3>1. StopWatch
      BY <1>22, <2>4 DEF ApplyToWatch
    <3>2. running' = FALSE /\ Alive' = Alive
          /\ inbox' = (IF Alive THEN app("stop") ELSE inbox)
      BY <3>1 DEF StopWatch, Send, Alive, app
    <3> QED
      BY <2>1, <2>2, <2>4, <3>2 DEF WatchInv
  <2> QED
    BY <2>2, <2>3, <2>4
<1>23. ASSUME Build  PROVE  WatchInv'
  BY <1>23, QueueAssumption
    DEF Alive, At, Build, ProcStates, ProcTypeOK, Procs, TypeOK, WatchInv, WatchTypeOK
<1>24. ASSUME BuildFails  PROVE  WatchInv'
  BY <1>24, QueueAssumption
    DEF Alive, At, BuildFails, ProcStates, ProcTypeOK, Procs, TypeOK, WatchInv,
        WatchTypeOK
<1>25. ASSUME TakeUpdate  PROVE  WatchInv'
  <2>1. Len(inbox) \in Nat \ {0} /\ inbox[1] = "update" /\ Alive
    BY <1>25 DEF TakeUpdate, TypeOK, WatchTypeOK, Alive
  <2>2. inbox' = Tail(inbox) /\ Alive'
    BY <1>25 DEF TakeUpdate, Alive
  <2>3. running' = running /\ unwatched' = unwatched /\ wanted' = wanted /\ proc' = proc
        /\ inbox \in Seq({"update", "stop"})
    BY <1>25 DEF TakeUpdate, TypeOK, WatchTypeOK
  <2>4. CASE Len(inbox) = 1
    <3>1. inbox' = <<>> /\ running
      BY <2>1, <2>2, <2>4 DEF TypeOK, WatchTypeOK, WatchInv
    <3> QED
      BY <2>2, <2>3, <3>1 DEF WatchInv, At
  <2>5. CASE Len(inbox) # 1
    <3>0. inbox # <<>>
      BY <1>25 DEF TakeUpdate
    <3>a. Len(Tail(inbox)) = Len(inbox) - 1
          /\ \A i \in 1 .. Len(Tail(inbox)) : Tail(inbox)[i] = inbox[i + 1]
      BY <2>3, <3>0, HeadTailProperties
    <3>b. Len(Tail(inbox)) \in 1 .. Len(Tail(inbox)) /\ Len(Tail(inbox)) + 1 = Len(inbox)
      BY <2>1, <2>5, <3>a
    <3>1. Len(inbox') = Len(inbox) - 1 /\ inbox'[Len(inbox')] = inbox[Len(inbox)]
      BY <2>2, <3>a, <3>b
    <3>2. running <=> inbox[Len(inbox)] = "update"
      BY <2>1 DEF WatchInv
    <3>3. inbox' # <<>>
      BY <2>1, <2>5, <3>1
    <3> QED
      BY <2>2, <2>3, <3>1, <3>2, <3>3 DEF WatchInv, At
  <2> QED
    BY <2>4, <2>5, <2>1
<1>26. ASSUME TakeStop  PROVE  WatchInv'
  <2>1. Len(inbox) \in Nat \ {0} /\ inbox[1] = "stop"
    BY <1>26 DEF TakeStop, TypeOK, WatchTypeOK
  <2>2. CASE Len(inbox) = 1
    BY <1>26, <2>1, <2>2 DEF TakeStop, WatchInv, At, Alive
  <2>3. CASE Len(inbox) # 1
    <3>1. Len(Tail(inbox)) # 0
      BY <2>1, <2>3, HeadTailProperties, EmptySeq DEF TypeOK, WatchTypeOK
    <3>2. Tail(inbox) # <<>>
      BY <3>1
    <3> QED
      BY <1>26, <3>2 DEF TakeStop, WatchInv, At, Alive
  <2> QED
    BY <2>2, <2>3
<1>27. ASSUME FileSeen  PROVE  WatchInv'
  BY <1>27, QueueAssumption
    DEF Alive, At, Begin, Doing, FileSeen, ProcStates, ProcTypeOK, Procs, TypeOK,
        WatchInv, WatchTypeOK
<1>28. ASSUME Crash  PROVE  WatchInv'
  BY <1>28, QueueAssumption
    DEF Alive, At, Crash, Doing, Idle, IdleTask, NoSnap, ProcStates, ProcTypeOK, Procs,
        TypeOK, WatchInv, WatchTypeOK, Working
<1>29. ASSUME NEW c \in Candidates, Candidate(c)  PROVE  WatchInv'
  BY <1>29, QueueAssumption
    DEF Alive, At, Candidate, Doing, Done, Goes, Idle, ProcStates, ProcTypeOK, Procs,
        TypeOK, WatchInv, WatchTypeOK
<1>30. ASSUME NEW c \in Candidates, LoadToRefuse(c)  PROVE  WatchInv'
  BY <1>30, QueueAssumption
    DEF Alive, At, Goes, LoadToRefuse, ProcStates, ProcTypeOK, Procs, TypeOK, WatchInv,
        WatchTypeOK
<1>31. ASSUME NEW c \in Candidates, TooLong(c)  PROVE  WatchInv'
  BY <1>31, QueueAssumption
    DEF Alive, At, Doing, Done, Idle, ProcStates, ProcTypeOK, Procs, TooLong, TypeOK,
        WatchInv, WatchTypeOK
<1>32. CASE UNCHANGED vars
  BY <1>32
    DEF Alive, At, ProcStates, ProcTypeOK, Procs, TypeOK, WatchInv, WatchTypeOK, vars
<1> QED
  BY <1>1, <1>2, <1>3, <1>4, <1>5, <1>6, <1>7, <1>8, <1>9, <1>10, <1>11, <1>12, <1>13,
     <1>14, <1>15, <1>16, <1>17, <1>18, <1>19, <1>20, <1>21, <1>22, <1>23, <1>24, <1>25,
     <1>26, <1>27, <1>28, <1>29, <1>30, <1>31, <1>32
    DEF Next, Window, ProcStep, TaskStep, SlotNext, ToolStep, Watch

(* Unless updates overlap a save changes the status of one file: to pending *)
(* when its job is put in, to processing when it is taken out, and to a result*)
(* before the job is gone.                                                  *)
LEMMA StatusStep ==
  ASSUME TypeOK, TaskInv, LockInv, StatusInv, [Next]_vars
  PROVE  StatusInv'
<1> USE DEF slotVars, vqVars, watchVars, diskVars, queueVars, notes, KeepForProc,
      KeepForTask, KeepForLoop, KeepHistories, Command
<1>1. ASSUME StartDictation \/ EndDictation, UNCHANGED <<vqVars, watchVars>>
       PROVE  StatusInv'
  BY <1>1
    DEF At, DiskTypeOK, EndDictation, Expected, HasFile, Histories, InWork, ProcPcs,
        ProcStates, ProcTypeOK, Procs, StartDictation, StatusInv, TaskAt, TaskPcs,
        TaskStates, TaskTypeOK, TypeOK, Unlisting, Waits
<1>2. ASSUME NEW t \in Tools,
             ToolBegins(t) \/ BeginStage(t) \/ EndStage(t) \/ StagePanics(t) \/
             ToolEnds(t),
             UNCHANGED <<vqVars, watchVars>>
       PROVE  StatusInv'
  BY <1>2
    DEF At, BeginStage, DiskTypeOK, EndStage, Expected, HasFile, Histories, InWork,
        ProcPcs, ProcStates, ProcTypeOK, Procs, StagePanics, StatusInv, TaskAt, TaskPcs,
        TaskStates, TaskTypeOK, ToolBegins, ToolEnds, TypeOK, Unlisting, Waits
<1>3. ASSUME EnqueueVoiceFile, UNCHANGED watchVars  PROVE  StatusInv'
  BY <1>3, QueueAssumption
    DEF At, Begin, DiskTypeOK, Doing, EnqueueVoiceFile, Expected, HasFile, Histories,
        InWork, ProcPcs, ProcStates, ProcTypeOK, Procs, StatusInv, TaskAt, TaskPcs,
        TaskStates, TaskTypeOK, TypeOK, Unlisting, Waits
<1>4. ASSUME Retry, UNCHANGED watchVars  PROVE  StatusInv'
  BY <1>4, QueueAssumption
    DEF At, Begin, DiskTypeOK, Doing, Expected, HasFile, Histories, InWork, ProcPcs,
        ProcStates, ProcTypeOK, Procs, Retry, StatusInv, TaskAt, TaskPcs, TaskStates,
        TaskTypeOK, TypeOK, Unlisting, Waits
<1>5. ASSUME RemoveFromIndex, UNCHANGED watchVars  PROVE  StatusInv'
  <2>1. PICK g \in Files : pending' = Without(pending, g) /\ Begin(Ui, "unlist", <<g>>)
    BY <1>5 DEF RemoveFromIndex
  <2>2. At(Ui, "idle") /\ UNCHANGED <<history, interrupted, task, overlap>>
    BY <1>5 DEF RemoveFromIndex
  <2>3. \A q \in Procs : proc'[q] = IF q = Ui THEN Doing("unlist", <<g>>, "none") ELSE proc[q]
    BY <2>1 DEF Begin, TypeOK, ProcTypeOK, Procs
  <2>4. Unlisting(g)' /\ \A f \in Files : Unlisting(f) => Unlisting(f)'
    BY <2>2, <2>3 DEF Unlisting, At, Doing, Procs
  <2>5. \A f \in Files : f # g /\ Waits(f) => Waits(f)'
    BY <2>1, WithoutOne DEF Waits, TypeOK, QueueTypeOK
  <2> QED
    BY <2>2, <2>4, <2>5 DEF StatusInv, Expected, InWork
<1>6. ASSUME DeleteEntry, UNCHANGED watchVars  PROVE  StatusInv'
  BY <1>6, QueueAssumption
    DEF At, Begin, DeleteEntry, DiskTypeOK, Doing, Expected, HasFile, Histories, InWork,
        ProcPcs, ProcStates, ProcTypeOK, Procs, StatusInv, TaskAt, TaskPcs, TaskStates,
        TaskTypeOK, TypeOK, Unlisting, Waits
<1>7. ASSUME ClearHistory, UNCHANGED watchVars  PROVE  StatusInv'
  BY <1>7, QueueAssumption
    DEF At, ClearHistory, DiskTypeOK, Expected, HasFile, Histories, InWork, NoSnap,
        ProcPcs, ProcStates, ProcTypeOK, Procs, StatusInv, TaskAt, TaskPcs, TaskStates,
        TaskTypeOK, TypeOK, Unlisting, Waits
<1>8. ASSUME RegisterIndexPath, UNCHANGED watchVars  PROVE  StatusInv'
  BY <1>8, QueueAssumption
    DEF At, DiskTypeOK, Doing, Expected, HasFile, Histories, InWork, ProcPcs, ProcStates,
        ProcTypeOK, Procs, RegisterIndexPath, StatusInv, TaskAt, TaskPcs, TaskStates,
        TaskTypeOK, TypeOK, Unlisting, Waits
<1>9. ASSUME NEW p \in Procs, TakeLock(p), UNCHANGED watchVars  PROVE  StatusInv'
  BY <1>9, QueueAssumption
    DEF At, DiskTypeOK, Expected, Goes, HasFile, Histories, InWork, ProcPcs, ProcStates,
        ProcTypeOK, Procs, StatusInv, TakeLock, TaskAt, TaskPcs, TaskStates, TaskTypeOK,
        TypeOK, Unlisting, Waits
<1>10. ASSUME NEW p \in Procs, SkipQueued(p), UNCHANGED watchVars  PROVE  StatusInv'
  BY <1>10, QueueAssumption
    DEF At, DiskTypeOK, Expected, HasFile, Histories, InWork, ProcPcs, ProcStates,
        ProcTypeOK, Procs, Queued, SkipQueued, StatusInv, TaskAt, TaskPcs, TaskStates,
        TaskTypeOK, TypeOK, Unlisting, Waits
<1>11. ASSUME NEW p \in Procs, Import(p), UNCHANGED watchVars  PROVE  StatusInv'
  BY <1>11, QueueAssumption
    DEF At, DiskTypeOK, Expected, Goes, HasFile, Histories, Import, InWork, ProcPcs,
        ProcStates, ProcTypeOK, Procs, Queued, StatusInv, TaskAt, TaskPcs, TaskStates,
        TaskTypeOK, TypeOK, Unlisting, Waits
<1>12. ASSUME NEW p \in Procs, PutJob(p), UNCHANGED watchVars  PROVE  StatusInv'
  <2> DEFINE g == Head(proc[p].paths)
  <2>1. At(p, "put") /\ g \in Files /\ pending \in Seq(Files)
    BY <1>12 DEF PutJob, At, LockInv, TypeOK, ProcTypeOK, ProcStates, QueueTypeOK
  <2>2. pending' = Append(pending, g) /\ UNCHANGED <<task, interrupted>>
    BY <1>12 DEF PutJob
  <2>3. \A q \in Procs : q # p => proc'[q] = proc[q]
    BY <1>12 DEF PutJob, TypeOK, ProcTypeOK
  <2>4. \A f \in Files : Unlisting(f) => Unlisting(f)'
    BY <2>1, <2>3 DEF Unlisting, At
  <2>5. \A f \in Files : f = g \/ Waits(f) => Waits(f)'
    <3>1. Len(pending') = Len(pending) + 1 /\ pending'[Len(pending) + 1] = g
          /\ \A i \in 1 .. Len(pending) : pending'[i] = pending[i]
      BY <2>1, <2>2
    <3>2. pending' \in Seq(Files)
      BY <2>1, <2>2
    <3>3. Len(pending) + 1 \in DOMAIN pending'
          /\ \A i \in DOMAIN pending : i \in DOMAIN pending' /\ pending'[i] = pending[i]
      BY <2>1, <3>1, <3>2
    <3> QED
      BY <3>1, <3>3 DEF Waits
  <2>6. ASSUME ~overlap', NEW f \in Files, history'[f] \in {"pending", "processing"}, f # g
        PROVE  Expected(f)'
    <3>1. ~overlap /\ history' = [history EXCEPT ![g] = "pending"]
      BY <1>12, <2>6 DEF PutJob, Save, TypeOK, DiskTypeOK
    <3>2. Expected(f)
      BY <2>6, <3>1 DEF StatusInv, TypeOK, DiskTypeOK, Histories
    <3> QED
      BY <2>2, <2>4, <2>5, <3>2 DEF Expected, InWork
  <2> QED
    BY <2>2, <2>5, <2>6 DEF StatusInv, Expected
<1>13. ASSUME NEW p \in Procs, ImportFails(p), UNCHANGED watchVars  PROVE  StatusInv'
  BY <1>13, QueueAssumption
    DEF At, DiskTypeOK, Doing, Done, Expected, HasFile, Histories, Idle, ImportFails,
        InWork, ProcPcs, ProcStates, ProcTypeOK, Procs, StatusInv, TaskAt, TaskPcs,
        TaskStates, TaskTypeOK, TypeOK, Unlisting, Waits
<1>14. ASSUME NEW p \in Procs, EndEnqueue(p), UNCHANGED watchVars  PROVE  StatusInv'
  BY <1>14, QueueAssumption
    DEF At, DiskTypeOK, Doing, Done, EndEnqueue, Expected, Goes, HasFile, Histories, Idle,
        InWork, ProcPcs, ProcStates, ProcTypeOK, Procs, StatusInv, TaskAt, TaskPcs,
        TaskStates, TaskTypeOK, TypeOK, Unlisting, Waits
<1>15. ASSUME NEW p \in Procs, ScheduleWorker(p), UNCHANGED watchVars  PROVE  StatusInv'
  <2>1. At(p, "schedule") /\ UNCHANGED <<history, interrupted, pending, overlap>>
    BY <1>15 DEF ScheduleWorker
  <2>2. \A q \in Procs : q # p => proc'[q] = proc[q]
    BY <1>15 DEF ScheduleWorker, Done, TypeOK, ProcTypeOK
  <2>3. \A f \in Files : Unlisting(f) => Unlisting(f)'
    BY <2>1, <2>2 DEF Unlisting, At
  <2>4. task' = task \/ \E k \in Tasks : TaskAt(k, "idle") /\ TaskGoes(k, "pop")
    BY <1>15 DEF ScheduleWorker, Schedule
  <2>5. \A l \in Tasks : task'[l] = task[l] \/ (task[l].pc = "idle" /\ task'[l].pc = "pop")
    BY <2>4, TaskGoesOn DEF TypeOK, TaskAt, TaskGoes, TaskTypeOK
  <2>6. \A f \in Files : InWork(f) => InWork(f)'
    BY <2>5 DEF InWork, HasFile
  <2> QED
    BY <2>1, <2>3, <2>5, <2>6 DEF StatusInv, Expected, Waits
<1>16. ASSUME NEW p \in Procs, LoadToUnlist(p), UNCHANGED watchVars  PROVE  StatusInv'
  BY <1>16, QueueAssumption
    DEF At, DiskTypeOK, Expected, Goes, HasFile, Histories, InWork, LoadToUnlist, ProcPcs,
        ProcStates, ProcTypeOK, Procs, StatusInv, TaskAt, TaskPcs, TaskStates, TaskTypeOK,
        TypeOK, Unlisting, Waits
<1>17. ASSUME NEW p \in Procs, Unlist(p), UNCHANGED watchVars  PROVE  StatusInv'
  BY <1>17, QueueAssumption
    DEF At, DiskTypeOK, Doing, Done, Expected, HasFile, Histories, Idle, InWork, NoSnap,
        ProcPcs, ProcStates, ProcTypeOK, Procs, Save, StatusInv, TaskAt, TaskPcs,
        TaskStates, TaskTypeOK, TypeOK, Unlist, Unlisting, Waits
<1>18. ASSUME NEW p \in Procs, LoadToIndex(p), UNCHANGED watchVars  PROVE  StatusInv'
  BY <1>18, QueueAssumption
    DEF At, DiskTypeOK, Expected, Goes, HasFile, Histories, InWork, LoadToIndex, ProcPcs,
        ProcStates, ProcTypeOK, Procs, StatusInv, TaskAt, TaskPcs, TaskStates, TaskTypeOK,
        TypeOK, Unlisting, Waits
<1>19. ASSUME NEW p \in Procs, Index(p), UNCHANGED watchVars  PROVE  StatusInv'
  BY <1>19, QueueAssumption
    DEF At, DiskTypeOK, Doing, Done, Expected, HasFile, Histories, Idle, InWork, Index,
        NoSnap, ProcPcs, ProcStates, ProcTypeOK, Procs, Save, StatusInv, TaskAt, TaskPcs,
        TaskStates, TaskTypeOK, TypeOK, Unlisting, Waits
<1>20. ASSUME NEW k \in Tasks, Pop(k), UNCHANGED watchVars  PROVE  StatusInv'
  <2>1. Len(pending) \in Nat \ {0} /\ pending[1] = Head(pending)
        /\ Len(Tail(pending)) = Len(pending) - 1
        /\ \A i \in 1 .. Len(Tail(pending)) : Tail(pending)[i] = pending[i + 1]
    BY <1>20, HeadTailProperties, EmptySeq DEF Pop, TypeOK, QueueTypeOK
  <2>2. pending' = Tail(pending) /\ task[k].pc = "pop"
        /\ UNCHANGED <<history, interrupted, proc, overlap>>
    BY <1>20 DEF Pop, TaskAt
  <2>3. \A l \in Tasks :
          task'[l] = IF l = k THEN Working("load", Head(pending), "processing") ELSE task[l]
    BY <1>20 DEF Pop, TypeOK, TaskTypeOK
  <2>4. \A f \in Files : f = Head(pending) => InWork(f)'
    BY <2>3 DEF InWork, HasFile, Working
  <2>5. \A f \in Files : InWork(f) => InWork(f)'
    BY <2>2, <2>3 DEF InWork, HasFile
  <2>6. ASSUME NEW f \in Files, Waits(f), f # Head(pending)
        PROVE  Waits(f)'
    <3>1. PICK i \in DOMAIN pending : pending[i] = f
      BY <2>6 DEF Waits
    <3>2. i - 1 \in 1 .. Len(Tail(pending)) /\ Tail(pending)[i - 1] = f
      BY <2>1, <2>6, <3>1 DEF TypeOK, QueueTypeOK
    <3>3. Tail(pending) \in Seq(Files)
      BY <1>20 DEF Pop, TypeOK, QueueTypeOK
    <3> QED
      BY <2>2, <3>2, <3>3 DEF Waits
  <2> QED
    BY <2>2, <2>3, <2>4, <2>5, <2>6 DEF StatusInv, Expected, Unlisting, Working
<1>21. ASSUME NEW k \in Tasks, PopNothing(k), UNCHANGED watchVars  PROVE  StatusInv'
  BY <1>21, QueueAssumption
    DEF At, DiskTypeOK, Expected, HasFile, Histories, InWork, PopNothing, ProcPcs,
        ProcStates, ProcTypeOK, Procs, StatusInv, TaskAt, TaskGoes, TaskPcs, TaskStates,
        TaskTypeOK, TypeOK, Unlisting, Waits
<1>22. ASSUME NEW k \in Tasks, LoadStatus(k), UNCHANGED watchVars  PROVE  StatusInv'
  <2>1. TaskGoes(k, "save")
        /\ task[k].pc = "load"
        /\ UNCHANGED <<history, interrupted, pending, proc, overlap>>
    BY <1>22 DEF LoadStatus, TaskAt
  <2>2. \A l \in Tasks : /\ task'[l].file = task[l].file /\ task'[l].result = task[l].result
                        /\ task'[l].pc = IF l = k THEN "save"
                                         ELSE task[l].pc
    BY <2>1, TaskGoesOn DEF TypeOK
  <2>3. \A f \in Files : InWork(f) => InWork(f)'
    BY <2>1, <2>2 DEF InWork, HasFile, TaskAt
  <2> QED
    BY <2>1, <2>2, <2>3 DEF StatusInv, Expected, Waits, Unlisting, TaskAt
<1>23. ASSUME NEW k \in Tasks, SaveStatus(k), UNCHANGED watchVars  PROVE  StatusInv'
  <2> DEFINE r == task[k].result
             g == task[k].file
  <2>1. TaskGoes(k, IF r = "processing" THEN "wait" ELSE "clear") /\ task[k].pc = "save"
        /\ UNCHANGED <<interrupted, pending, proc>>
    BY <1>23 DEF SaveStatus, TaskAt
  <2>2. \A l \in Tasks : /\ task'[l].file = task[l].file /\ task'[l].result = task[l].result
                        /\ task'[l].pc = IF l # k THEN task[l].pc
                                         ELSE IF r = "processing" THEN "wait" ELSE "clear"
    BY <2>1, TaskGoesOn DEF TypeOK
  <2>3. r \in {"processing", "done", "error"} /\ g \in Files
    BY <2>1 DEF StatusInv, TaskInv, HasFile
  <2>4. ASSUME ~overlap', NEW f \in Files, history'[f] \in {"pending", "processing"}
        PROVE  Expected(f)'
    <3>1. ~overlap /\ history' = [history EXCEPT ![g] = r]
      BY <1>23, <2>4 DEF SaveStatus, Save, TypeOK, DiskTypeOK
    <3>2. CASE f = g
      <4>1. r = "processing"
        BY <2>3, <2>4, <3>1, <3>2 DEF TypeOK, DiskTypeOK, Histories
      <4>2. InWork(f)'
        BY <2>2, <3>2, <4>1 DEF InWork, HasFile
      <4> QED
        BY <4>2 DEF Expected
    <3>3. CASE f # g
      <4>1. Expected(f)
        BY <2>4, <3>1, <3>3 DEF StatusInv, TypeOK, DiskTypeOK, Histories
      <4>2. InWork(f) => InWork(f)'
        BY <2>2, <3>3 DEF InWork
      <4> QED
        BY <2>1, <4>1, <4>2 DEF Expected, Waits, Unlisting
    <3> QED
      BY <3>2, <3>3
  <2>5. \A l \in Tasks : task'[l].pc \in {"load", "save"} =>
          task'[l].result \in {"processing", "done", "error"}
    BY <2>2 DEF StatusInv
  <2> QED
    BY <2>4, <2>5 DEF StatusInv
<1>24. ASSUME NEW k \in Tasks, SlotSeenFree(k), UNCHANGED watchVars  PROVE  StatusInv'
  <2>1. TaskGoes(k, IF TaskAt(k, "wait") THEN "begin" ELSE "pop")
        /\ task[k].pc \in {"wait", "again"}
        /\ UNCHANGED <<history, interrupted, pending, proc, overlap>>
    BY <1>24 DEF SlotSeenFree, TaskAt
  <2>2. \A l \in Tasks : /\ task'[l].file = task[l].file /\ task'[l].result = task[l].result
                        /\ task'[l].pc = IF l = k THEN IF TaskAt(k, "wait") THEN "begin" ELSE "pop"
                                         ELSE task[l].pc
    BY <2>1, TaskGoesOn DEF TypeOK
  <2>3. \A f \in Files : InWork(f) => InWork(f)'
    BY <2>1, <2>2 DEF InWork, HasFile, TaskAt
  <2> QED
    BY <2>1, <2>2, <2>3 DEF StatusInv, Expected, Waits, Unlisting, TaskAt
<1>25. ASSUME NEW k \in Tasks, BeginFile(k), UNCHANGED watchVars  PROVE  StatusInv'
  <2>1. TaskGoes(k, "transcribe")
        /\ task[k].pc = "begin"
        /\ UNCHANGED <<history, interrupted, pending, proc, overlap>>
    BY <1>25 DEF BeginFile, TaskAt
  <2>2. \A l \in Tasks : /\ task'[l].file = task[l].file /\ task'[l].result = task[l].result
                        /\ task'[l].pc = IF l = k THEN "transcribe"
                                         ELSE task[l].pc
    BY <2>1, TaskGoesOn DEF TypeOK
  <2>3. \A f \in Files : InWork(f) => InWork(f)'
    BY <2>1, <2>2 DEF InWork, HasFile, TaskAt
  <2> QED
    BY <2>1, <2>2, <2>3 DEF StatusInv, Expected, Waits, Unlisting, TaskAt
<1>26. ASSUME NEW k \in Tasks, Requeue(k), UNCHANGED watchVars  PROVE  StatusInv'
  <2>1. task[k].pc = "begin" /\ task[k].file \in Files
    BY <1>26 DEF Requeue, TaskAt, TaskInv, HasFile
  <2>2. pending' = <<task[k].file>> \o pending
        /\ UNCHANGED <<history, interrupted, proc, overlap>>
    BY <1>26 DEF Requeue
  <2>3. \A l \in Tasks : task'[l] = IF l = k THEN Working("again", NoFile, "none") ELSE task[l]
    BY <1>26 DEF Requeue, TypeOK, TaskTypeOK
  <2>4. \A f \in Files : f = task[k].file \/ Waits(f) => Waits(f)'
    <3>1. Len(pending') = Len(pending) + 1 /\ pending'[1] = task[k].file
          /\ \A i \in 1 .. Len(pending) : pending'[i + 1] = pending[i]
      BY <2>1, <2>2 DEF TypeOK, QueueTypeOK
    <3>2. pending' \in Seq(Files) /\ pending \in Seq(Files)
      BY <2>1, <2>2 DEF TypeOK, QueueTypeOK
    <3>3. 1 \in DOMAIN pending' /\ \A i \in DOMAIN pending : i + 1 \in DOMAIN pending'
      BY <3>1, <3>2
    <3>4. \A i \in DOMAIN pending : pending'[i + 1] = pending[i]
      BY <3>1, <3>2
    <3> QED
      BY <3>1, <3>3, <3>4 DEF Waits
  <2>5. \A f \in Files : InWork(f) => InWork(f)' \/ f = task[k].file
    BY <2>3 DEF InWork, HasFile
  <2> QED
    BY <2>2, <2>3, <2>4, <2>5 DEF StatusInv, Expected, Unlisting, Working
<1>27. ASSUME NEW k \in Tasks, EndFile(k), UNCHANGED watchVars  PROVE  StatusInv'
  <2>1. PICK r \in {"done", "error"} :
          task' = [task EXCEPT ![k] = Working("load", task[k].file, r)]
    BY <1>27 DEF EndFile
  <2>2. task[k].pc = "transcribe"
        /\ UNCHANGED <<history, interrupted, pending, proc, overlap>>
    BY <1>27 DEF EndFile, TaskAt
  <2>3. \A l \in Tasks : task'[l] = IF l = k THEN Working("load", task[k].file, r) ELSE task[l]
    BY <2>1 DEF TypeOK, TaskTypeOK
  <2>4. \A f \in Files : InWork(f) => InWork(f)'
    BY <2>3 DEF InWork, HasFile, Working
  <2> QED
    BY <2>2, <2>3, <2>4 DEF StatusInv, Expected, Waits, Unlisting, Working
<1>28. ASSUME NEW k \in Tasks, ClearActive(k), UNCHANGED watchVars  PROVE  StatusInv'
  BY <1>28, QueueAssumption
    DEF At, ClearActive, DiskTypeOK, Expected, HasFile, Histories, InWork, ProcPcs,
        ProcStates, ProcTypeOK, Procs, StatusInv, TaskAt, TaskPcs, TaskStates, TaskTypeOK,
        TypeOK, Unlisting, Waits, Working
<1>29. ASSUME NEW k \in Tasks, Unschedule(k), UNCHANGED watchVars  PROVE  StatusInv'
  BY <1>29, QueueAssumption
    DEF At, DiskTypeOK, Expected, HasFile, Histories, InWork, ProcPcs, ProcStates,
        ProcTypeOK, Procs, StatusInv, TaskAt, TaskGoes, TaskPcs, TaskStates, TaskTypeOK,
        TypeOK, Unlisting, Unschedule, Waits
<1>30. ASSUME NEW k \in Tasks, Recheck(k), UNCHANGED watchVars  PROVE  StatusInv'
  BY <1>30, QueueAssumption
    DEF At, DiskTypeOK, Expected, HasFile, Histories, InWork, ProcPcs, ProcStates,
        ProcTypeOK, Procs, Recheck, StatusInv, TaskAt, TaskGoes, TaskPcs, TaskStates,
        TaskTypeOK, TypeOK, Unlisting, Waits
<1>31. ASSUME NEW k \in Tasks, Reschedule(k), UNCHANGED watchVars  PROVE  StatusInv'
  BY <1>31, QueueAssumption
    DEF At, DiskTypeOK, Expected, HasFile, Histories, InWork, ProcPcs, ProcStates,
        ProcTypeOK, Procs, Reschedule, StatusInv, TaskAt, TaskGoes, TaskPcs, TaskStates,
        TaskTypeOK, TypeOK, Unlisting, Waits
<1>32. ASSUME Build \/ BuildFails \/ TakeUpdate \/ TakeStop  PROVE  StatusInv'
  BY <1>32
    DEF At, Build, BuildFails, DiskTypeOK, Expected, HasFile, Histories, InWork, ProcPcs,
        ProcStates, ProcTypeOK, Procs, StatusInv, TakeStop, TakeUpdate, TaskAt, TaskPcs,
        TaskStates, TaskTypeOK, TypeOK, Unlisting, Waits
<1>33. ASSUME ApplySettings  PROVE  StatusInv'
  BY <1>33, QueueAssumption
    DEF ApplySettings, At, DiskTypeOK, Expected, Goes, HasFile, Histories, InWork,
        ProcPcs, ProcStates, ProcTypeOK, Procs, StatusInv, TaskAt, TaskPcs, TaskStates,
        TaskTypeOK, TypeOK, Unlisting, Waits
<1>34. ASSUME ApplyToWatch  PROVE  StatusInv'
  BY <1>34, QueueAssumption
    DEF ApplyToWatch, At, DiskTypeOK, Doing, Done, Expected, HasFile, Histories, Idle,
        InWork, NoSnap, ProcPcs, ProcStates, ProcTypeOK, Procs, Purge, StatusInv, TaskAt,
        TaskPcs, TaskStates, TaskTypeOK, TypeOK, Unlisting, Waits
<1>35. ASSUME FileSeen  PROVE  StatusInv'
  BY <1>35, QueueAssumption
    DEF At, Begin, DiskTypeOK, Doing, Expected, FileSeen, HasFile, Histories, InWork,
        ProcPcs, ProcStates, ProcTypeOK, Procs, StatusInv, TaskAt, TaskPcs, TaskStates,
        TaskTypeOK, TypeOK, Unlisting, Waits
<1>36. ASSUME Crash  PROVE  StatusInv'
  BY <1>36, QueueAssumption
    DEF At, Crash, DiskTypeOK, Doing, Expected, HasFile, Histories, Idle, IdleTask,
        InWork, NoSnap, ProcPcs, ProcStates, ProcTypeOK, Procs, StatusInv, TaskAt,
        TaskPcs, TaskStates, TaskTypeOK, TypeOK, Unlisting, Waits, Working
<1>37. ASSUME NEW c \in Candidates, Candidate(c)  PROVE  StatusInv'
  <2>1. c \in Procs /\ At(c, "known")
        /\ UNCHANGED <<history, interrupted, pending, task, overlap>>
    BY <1>37 DEF Candidate, Procs
  <2>2. \A q \in Procs : q # c => proc'[q] = proc[q]
    BY <1>37 DEF Candidate, Done, Goes, TypeOK, ProcTypeOK
  <2>3. \A f \in Files : Unlisting(f) => Unlisting(f)'
    BY <2>1, <2>2 DEF Unlisting, At
  <2> QED
    BY <2>1, <2>3 DEF StatusInv, Expected, Waits, InWork
<1>38. ASSUME NEW c \in Candidates, LoadToRefuse(c)  PROVE  StatusInv'
  BY <1>38, QueueAssumption
    DEF At, DiskTypeOK, Expected, Goes, HasFile, Histories, InWork, LoadToRefuse, ProcPcs,
        ProcStates, ProcTypeOK, Procs, StatusInv, TaskAt, TaskPcs, TaskStates, TaskTypeOK,
        TypeOK, Unlisting, Waits
<1>39. ASSUME NEW c \in Candidates, TooLong(c)  PROVE  StatusInv'
  BY <1>39, QueueAssumption
    DEF At, DiskTypeOK, Doing, Done, Expected, HasFile, Histories, Idle, InWork, NoSnap,
        ProcPcs, ProcStates, ProcTypeOK, Procs, Save, StatusInv, TaskAt, TaskPcs,
        TaskStates, TaskTypeOK, TooLong, TypeOK, Unlisting, Waits
<1>40. CASE UNCHANGED vars
  BY <1>40
    DEF At, DiskTypeOK, Expected, HasFile, Histories, InWork, ProcPcs, ProcStates,
        ProcTypeOK, Procs, StatusInv, TaskAt, TaskPcs, TaskStates, TaskTypeOK, TypeOK,
        Unlisting, Waits, vars
<1> QED
  BY <1>1, <1>2, <1>3, <1>4, <1>5, <1>6, <1>7, <1>8, <1>9, <1>10, <1>11, <1>12, <1>13,
     <1>14, <1>15, <1>16, <1>17, <1>18, <1>19, <1>20, <1>21, <1>22, <1>23, <1>24, <1>25,
     <1>26, <1>27, <1>28, <1>29, <1>30, <1>31, <1>32, <1>33, <1>34, <1>35, <1>36, <1>37,
     <1>38, <1>39, <1>40
    DEF Next, Window, ProcStep, TaskStep, SlotNext, ToolStep, Watch

(* Together.                                                                *)
LEMMA VoiceStep ==
  ASSUME VoiceInv, [Next]_vars
  PROVE  VoiceInv'
BY TypeStep, SlotStep, LoopStep, LockStep, OnceStep, ForgottenStep, WatchStep, StatusStep
  DEF VoiceInv

(* At first everything is idle.                                             *)
LEMMA VoiceInit ==
  ASSUME Init
  PROVE  VoiceInv
<1> USE DEF Init, SlotInit, QueueInit
<1>1. TypeOK
  <2>1. SlotTypeOK
    BY DEF SlotTypeOK
  <2>2. DiskTypeOK
    BY NoSnapType DEF DiskTypeOK, NoSnap, Histories, Statuses
  <2>3. ProcTypeOK
    <3>1. <<>> \in Seq(Files) /\ "idle" \in ProcPcs /\ "none" \in Statuses
      BY DEF ProcPcs, Statuses
    <3>2. Idle \in ProcStates
      BY <3>1, DoingType DEF Idle
    <3> QED
      BY <3>2 DEF ProcTypeOK
  <2>4. TaskTypeOK
    <3>1. IdleTask \in TaskStates
      BY WorkingType DEF IdleTask, TaskPcs, Statuses
    <3> QED
      BY <3>1 DEF TaskTypeOK
  <2>5. QueueTypeOK
    <3>1. <<>> \in Seq(Files)
      OBVIOUS
    <3> QED
      BY <3>1 DEF QueueTypeOK
  <2>6. WatchTypeOK
    <3>1. <<>> \in Seq({"update", "stop"})
      OBVIOUS
    <3> QED
      BY <3>1 DEF WatchTypeOK
  <2> QED
    BY <2>1, <2>2, <2>3, <2>4, <2>5, <2>6 DEF TypeOK
<1>2. SlotInv
  BY DEF SlotInv, StagesApart, HoldsGuard, TaskAt, IdleTask, Working
<1>3. TaskInv
  BY DEF TaskInv, InLoop, HasFile, IdleTask, Working
<1>4. LockInv
  BY DEF LockInv, At, Idle, Doing
<1>5. OnceQueued /\ NobodyForgotten
  BY DEF OnceQueued, NobodyForgotten
<1>6. WatchInv
  BY DEF WatchInv, Alive
<1>7. StatusInv
  BY DEF StatusInv, IdleTask, Working
<1> QED
  BY <1>1, <1>2, <1>3, <1>4, <1>5, <1>6, <1>7 DEF VoiceInv

-----------------------------------------------------------------------------
(* The theorems.                                                           *)

(* The inductive invariant holds in every reachable state.                  *)
THEOREM VoiceInvariant == Spec => []VoiceInv
<1>1. Init => VoiceInv
  BY VoiceInit
<1>2. VoiceInv /\ [Next]_vars => VoiceInv'
  BY VoiceStep
<1> QED
  BY <1>1, <1>2, PTL DEF Spec

(* Every variable of the slot, the queue and the watch keeps its type.      *)
THEOREM VoiceTypeCorrect == Spec => []TypeOK
<1>1. VoiceInv => TypeOK
  BY DEF VoiceInv
<1> QED
  BY <1>1, VoiceInvariant, PTL

(* One file or one tool is transcribed at a time, with any number of tools, *)
(* tasks and files, and one task serves the queue (tools/shared.rs,         *)
(* tools/heavy_job.rs, schedule_worker).                                   *)
THEOREM FilesOneAtATime == Spec => []OneAtATime
<1>1. VoiceInv => OneAtATime
  BY DEF VoiceInv, SlotInv, TaskInv, OneAtATime
<1> QED
  BY <1>1, VoiceInvariant, PTL

(* A file never has two jobs, however many threads put files in             *)
(* (enqueue_paths, is_queued_or_active).                                   *)
THEOREM FilesOnceQueued == Spec => []OnceQueued
<1>1. VoiceInv => OnceQueued
  BY DEF VoiceInv
<1> QED
  BY <1>1, VoiceInvariant, PTL

(* A job that waits has somebody who will come to it, but for those of an   *)
(* enqueue that failed (run_worker and schedule_worker).                   *)
THEOREM NobodyIsForgotten == Spec => []NobodyForgotten
<1>1. VoiceInv => NobodyForgotten
  BY DEF VoiceInv
<1> QED
  BY <1>1, VoiceInvariant, PTL

(* When nothing is left to do, no file is listed as waiting or in work but   *)
(* those a kill interrupted, unless updates of the history overlapped.     *)
THEOREM NoStatusIsStale == Spec => []NoStaleStatus
<1>1. ASSUME VoiceInv, AtRest, NEW f \in Files  PROVE  Expected(f) => f \in interrupted
  <2>1. ~Waits(f)
    <3>1. pending = <<>> /\ DOMAIN <<>> = {}
      BY <1>1 DEF AtRest
    <3> QED
      BY <3>1 DEF Waits
  <2>2. ~InWork(f)
    BY <1>1 DEF AtRest, InWork, HasFile, TaskAt
  <2>3. ~Unlisting(f)
    <3>1. \A p \in Procs : proc[p].pc = "idle"
      BY <1>1 DEF AtRest, At
    <3> QED
      BY <3>1 DEF Unlisting
  <2> QED
    BY <2>1, <2>2, <2>3 DEF Expected
<1>2. VoiceInv => NoStaleStatus
  BY <1>1 DEF VoiceInv, StatusInv, NoStaleStatus
<1> QED
  BY <1>2, VoiceInvariant, PTL

(* With its channel read, the watch runs if and only if the settings want   *)
(* it, whatever sequence of starts, updates, stops, failures and kills came *)
(* before, but for the cases noted (start_or_update, run_watcher_loop).     *)
THEOREM WatchedWhenOn == Spec => []WatchesWhenOn
<1>1. VoiceInv => WatchesWhenOn
  BY DEF VoiceInv, WatchInv, WatchesWhenOn, At
<1> QED
  BY <1>1, VoiceInvariant, PTL

=============================================================================
