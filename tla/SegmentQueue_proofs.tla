------------------------ MODULE SegmentQueue_proofs ------------------------
(***************************************************************************)
(* Theorems about SegmentQueue, for every number of enqueueing threads and *)
(* every value of the limits.                                              *)
(***************************************************************************)
EXTENDS SegmentQueue, FiniteSetTheorems, SequenceTheorems, TLAPS

-----------------------------------------------------------------------------
(* The inductive invariant.                                                *)

(* The start-up replay and the callbacks never run at the same time. *)
BootAlone ==
  thread[Boot].pc # "idle" => \A p \in Producers : thread[p].pc = "idle"

(* A job that was admitted but not counted yet has its place already. *)
RoomForAdmitted ==
  pending + Cardinality(At("count")) <= MaxPending + Cardinality(Producers) - 1

(* A spill file that is still to be written has its number. *)
NumberedOnDisk ==
  \A t \in Threads : thread[t].pc \in {"wav", "json"} => thread[t].seq # 0

CountInv ==
  TypeOK /\ PendingExact /\ BootAlone /\ RoomForAdmitted /\ NumberedOnDisk

-----------------------------------------------------------------------------
(* Sets of threads.                                                        *)

(* The threads at one step are a finite set, with a natural cardinality. *)
LEMMA AtFinite ==
  \A pc : IsFiniteSet(At(pc)) /\ Cardinality(At(pc)) \in Nat
<1>1. IsFiniteSet(Threads)
  BY QueueAssumption, FS_AddElement, FS_Union, FS_Singleton DEF Threads
<1>2. \A pc : At(pc) \subseteq Threads
  BY DEF At
<1> QED
  BY <1>1, <1>2, FS_Subset, FS_CardinalityType

(* A thread that comes to a step adds one to the threads there. *)
LEMMA Arrives ==
  ASSUME NEW pc, NEW t \in Threads, t \notin At(pc), At(pc)' = At(pc) \cup {t}
  PROVE  Cardinality(At(pc))' = Cardinality(At(pc)) + 1
BY AtFinite, FS_AddElement

(* A thread that leaves a step takes one away. *)
LEMMA Leaves ==
  ASSUME NEW pc, NEW t \in At(pc), At(pc)' = At(pc) \ {t}
  PROVE  /\ Cardinality(At(pc))' = Cardinality(At(pc)) - 1
         /\ Cardinality(At(pc)) >= 1
<1>1. Cardinality(At(pc) \ {t}) = Cardinality(At(pc)) - 1
  BY AtFinite, FS_RemoveElement
<1>2. IsFiniteSet(At(pc) \ {t})
  BY AtFinite, FS_RemoveElement
<1>3. Cardinality(At(pc) \ {t}) \in Nat
  BY <1>2, FS_CardinalityType
<1> QED
  BY <1>1, <1>3, AtFinite

-----------------------------------------------------------------------------
(* Types.                                                                  *)

(* A job the worker has not settled is counted, so pending is positive. *)
LEMMA BusyIsCounted ==
  ASSUME TypeOK, PendingExact, WorkerBusy
  PROVE  pending >= 1
BY AtFinite DEF TypeOK, PendingExact

(* A wrapping count stays within its word. *)
LEMMA WrapsInWord ==
  \A n \in Int : n % UsizeMod \in 0 .. UsizeMod - 1
BY QueueAssumption

(* Moving a thread to another step keeps its type. *)
LEMMA GoToType ==
  ASSUME NEW t \in Threads, thread \in [Threads -> ThreadStates],
         NEW pc \in {"idle", "prepare", "number", "wav", "json", "hold",
                     "admit", "count", "send", "list"},
         GoTo(t, pc)
  PROVE  thread' \in [Threads -> ThreadStates]
<1>1. [thread[t] EXCEPT !.pc = pc] \in ThreadStates
  BY DEF ThreadStates
<1> QED
  BY <1>1 DEF GoTo

(* So does resetting it. *)
LEMMA IdleType ==
  /\ Idle \in ThreadStates
  /\ \A t : AfterSend(t) \in ThreadStates
BY DEF Idle, AfterSend, ThreadStates, MaybeSegment

(* Moving the worker on keeps its type. *)
LEMMA WorkerType ==
  ASSUME worker \in WorkerStates,
         NEW pc \in {"recv", "load", "work", "typed", "unlink", "settle",
                     "fail", "recover"}
  PROVE  [worker EXCEPT !.pc = pc] \in WorkerStates
BY DEF WorkerStates

(* The worker between two jobs. *)
LEMMA AtRestType == AtRest \in WorkerStates
BY DEF AtRest, WorkerStates, Jobs, MaybeSegment

-----------------------------------------------------------------------------
(* Types, action by action.                                                *)

(* Recording a segment and choosing where it is kept. *)
LEMMA PrepareType ==
  ASSUME TypeOK, NEW p \in Producers, Record(p) \/ Prepare(p)
  PROVE  TypeOK'
<1> USE QueueAssumption
<1>0. p \in Threads
  BY DEF Threads
<1>1. CASE Record(p)
  <2>1. recorded + 1 \in 1 .. MaxSegments
    BY <1>1 DEF Record, TypeOK
  <2>2. [pc |-> "prepare", seg |-> recorded + 1, seq |-> 0] \in ThreadStates
    BY <2>1 DEF ThreadStates, MaybeSegment, Segments
  <2>3. thread' \in [Threads -> ThreadStates]
    BY <1>0, <1>1, <2>2 DEF Record, TypeOK
  <2> QED
    BY <1>1, <2>1, <2>3 DEF Record, TypeOK, workerVars, diskVars, bounds
<1>2. CASE PrepareInMemory(p)
  BY <1>0, <1>2, GoToType
  DEF PrepareInMemory, TypeOK, workerVars, diskVars, bounds
<1>3. CASE PrepareOnDisk(p)
  BY <1>0, <1>3, GoToType
  DEF PrepareOnDisk, TypeOK, workerVars, diskVars, bounds
<1>4. CASE RefuseDiskFull(p)
  BY <1>4, IdleType DEF RefuseDiskFull, TypeOK, workerVars, diskVars, bounds
<1>5. CASE Hold(p)
  <2>1. memory' \in 0 .. UsizeMod - 1
    BY <1>5, WrapsInWord DEF Hold, TypeOK
  <2> QED
    BY <1>0, <1>5, <2>1, GoToType
    DEF Hold, TypeOK, workerVars, diskVars, bounds
<1> QED
  BY <1>1, <1>2, <1>3, <1>4, <1>5 DEF Prepare

(* Writing a spill file. *)
LEMMA SpillType ==
  ASSUME TypeOK, NumberedOnDisk, NEW p \in Producers, Spill(p)
  PROVE  TypeOK'
<1> USE QueueAssumption
<1>0. p \in Threads /\ thread[p] \in ThreadStates
  BY DEF Threads, TypeOK
<1>1. CASE TakeNumber(p)
  <2> PICK k \in Slots : thread' = [thread EXCEPT ![p].pc = "wav", ![p].seq = k]
    BY <1>1 DEF TakeNumber
  <2>1. [thread[p] EXCEPT !.pc = "wav", !.seq = k] \in ThreadStates
    BY <1>0 DEF ThreadStates
  <2>2. thread' \in [Threads -> ThreadStates]
    BY <1>0, <2>1 DEF TypeOK
  <2>3. shared' \in BOOLEAN
    BY <1>1 DEF TakeNumber, TypeOK
  <2> QED
    BY <1>1, <2>2, <2>3 DEF TakeNumber, TypeOK, workerVars, diskVars
<1>4. CASE WriteWav(p)
  <2>1. thread[p].seq \in Slots /\ thread[p].seg \in MaybeSegment
    BY <1>0, <1>4 DEF WriteWav, NumberedOnDisk, ThreadStates
  <2>2. thread' \in [Threads -> ThreadStates]
    BY <1>0, <1>4, GoToType DEF WriteWav, TypeOK
  <2>3. wav' \in [Slots -> MaybeSegment] /\ residue' \subseteq Slots
    BY <1>4, <2>1 DEF WriteWav, TypeOK
  <2> QED
    BY <1>4, <2>2, <2>3 DEF WriteWav, TypeOK, workerVars, bounds
<1>2. CASE WriteJson(p)
  <2>1. thread[p].seq \in Slots
    BY <1>0, <1>2 DEF WriteJson, NumberedOnDisk, ThreadStates
  <2>2. thread' \in [Threads -> ThreadStates]
    BY <1>0, <1>2, GoToType DEF WriteJson, TypeOK
  <2> QED
    BY <1>2, <2>1, <2>2 DEF WriteJson, TypeOK, workerVars, bounds
<1>3. CASE SpillFails(p)
  <2>1. [thread[p] EXCEPT !.pc = "hold", !.seq = 0] \in ThreadStates
    BY <1>0 DEF ThreadStates
  <2>2. thread' \in [Threads -> ThreadStates]
    BY <1>0, <1>3, <2>1 DEF SpillFails, TypeOK
  <2>3. residue' \subseteq Slots
    <3>1. thread[p].pc = "json" => thread[p].seq \in Slots
      BY <1>0 DEF NumberedOnDisk, ThreadStates
    <3> QED
      BY <1>3, <3>1 DEF SpillFails, TypeOK
  <2> QED
    BY <1>3, <2>2, <2>3 DEF SpillFails, TypeOK, workerVars, bounds
<1> QED
  BY <1>1, <1>2, <1>3, <1>4 DEF Spill

(* Sending a job. *)
LEMMA SendType ==
  ASSUME TypeOK, NEW t \in Threads, SendJob(t)
  PROVE  TypeOK'
<1> USE QueueAssumption
<1>0. thread[t] \in ThreadStates
  BY DEF TypeOK
<1>1. CASE Admit(t)
  BY <1>1, GoToType DEF Admit, TypeOK, workerVars, diskVars, bounds
<1>2. CASE RefuseQueueFull(t)
  <2>1. thread' \in [Threads -> ThreadStates]
    BY <1>2, IdleType DEF RefuseQueueFull, TypeOK
  <2>2. residue' \subseteq Slots
    BY <1>0, <1>2 DEF RefuseQueueFull, TypeOK, ThreadStates
  <2> QED
    BY <1>2, <2>1, <2>2 DEF RefuseQueueFull, TypeOK, workerVars, bounds
<1>3. CASE Count(t)
  <2>1. thread' \in [Threads -> ThreadStates]
    BY <1>3, GoToType DEF Count, TypeOK
  <2>2. pending' \in Nat
    BY <1>3 DEF Count, TypeOK
  <2> QED
    BY <1>3, <2>1, <2>2 DEF Count, TypeOK, workerVars, diskVars, bounds
<1>4. CASE Send(t)
  <2>1. [seg |-> thread[t].seg, seq |-> thread[t].seq] \in Jobs
    BY <1>0 DEF ThreadStates, Jobs
  <2>2. queue' \in Seq(Jobs)
    BY <1>4, <2>1, AppendProperties DEF Send, TypeOK
  <2>3. thread' \in [Threads -> ThreadStates]
    BY <1>4, IdleType DEF Send, TypeOK
  <2> QED
    BY <1>4, <2>2, <2>3 DEF Send, TypeOK, workerVars, diskVars, bounds
<1> QED
  BY <1>1, <1>2, <1>3, <1>4 DEF SendJob

(* The start-up replay. *)
LEMMA ReplayType ==
  ASSUME TypeOK, Replay
  PROVE  TypeOK'
<1> USE QueueAssumption
<1>1. CASE ReplayNext
  <2> PICK job \in replay :
        /\ replay' = replay \ {job}
        /\ thread' = [thread EXCEPT ![Boot] =
                        [pc |-> "admit", seg |-> job.seg, seq |-> job.seq]]
    BY <1>1 DEF ReplayNext
  <2>1. job.seq \in Slots /\ job.seg \in MaybeSegment
    BY DEF TypeOK, MaybeSegment
  <2>2. [pc |-> "admit", seg |-> job.seg, seq |-> job.seq] \in ThreadStates
    BY <2>1 DEF ThreadStates
  <2>3. thread' \in [Threads -> ThreadStates]
    BY <2>2 DEF TypeOK
  <2> QED
    BY <1>1, <2>3 DEF ReplayNext, TypeOK, workerVars, diskVars, bounds
<1>2. CASE ReplayDone
  BY <1>2, IdleType DEF ReplayDone, TypeOK, workerVars, diskVars, bounds
<1> QED
  BY <1>1, <1>2 DEF Replay

(* Giving back a payload. *)
LEMMA GiveBackType ==
  ASSUME TypeOK, GiveBack
  PROVE  TypeOK'
<1> USE QueueAssumption
<1>1. worker' \in WorkerStates
  BY WorkerType DEF GiveBack, TypeOK
<1>2. CASE worker.job.seq = 0
  <2>1. memory' \in 0 .. UsizeMod - 1
    BY <1>2, WrapsInWord DEF GiveBack, TypeOK
  <2> QED
    BY <1>1, <1>2, <2>1 DEF GiveBack, TypeOK, enqueueVars, diskVars, bounds
<1>3. CASE worker.job.seq # 0
  <2>1. worker.job.seq \in Slots
    BY <1>3 DEF TypeOK, WorkerStates, Jobs
  <2>2. wav' \in [Slots -> MaybeSegment]
    BY <1>3, <2>1 DEF GiveBack, RemoveWav, TypeOK, MaybeSegment
  <2>3. residue' \subseteq Slots
    BY <1>3, <2>1 DEF GiveBack, RemoveWav, TypeOK
  <2> QED
    BY <1>1, <1>3, <2>2, <2>3 DEF GiveBack, TypeOK, enqueueVars, bounds
<1> QED
  BY <1>2, <1>3

(* The worker task. *)
LEMMA WorkerStepType ==
  ASSUME TypeOK, PendingExact, WorkerStep
  PROVE  TypeOK'
<1> USE QueueAssumption
<1>1. CASE Receive
  <2>1. Head(queue) \in Jobs /\ Tail(queue) \in Seq(Jobs)
    BY <1>1, HeadTailProperties DEF Receive, TypeOK
  <2>2. worker' \in WorkerStates
    BY <1>1, <2>1 DEF Receive, WorkerStates, MaybeSegment
  <2> QED
    BY <1>1, <2>1, <2>2 DEF Receive, TypeOK, enqueueVars, diskVars, bounds
<1>2. CASE Load
  <2>1. (IF worker.job.seq = 0 THEN worker.job.seg ELSE wav[worker.job.seq])
          \in MaybeSegment
    BY DEF TypeOK, WorkerStates, Jobs
  <2>2. worker' \in WorkerStates
    BY <1>2, <2>1 DEF Load, TypeOK, WorkerStates
  <2> QED
    BY <1>2, <2>2 DEF Load, TypeOK, enqueueVars, diskVars, bounds
<1>3. CASE Discard
  BY <1>3, GiveBackType DEF Discard
<1>4. CASE Insert
  <2>1. worker.job.seg \in MaybeSegment
    BY DEF TypeOK, WorkerStates, Jobs
  <2>2. inserted' \in Seq(MaybeSegment)
    BY <1>4, <2>1, AppendProperties DEF Insert, TypeOK
  <2>3. worker' \in WorkerStates
    BY <1>4, WorkerType DEF Insert, TypeOK
  <2> QED
    BY <1>4, <2>2, <2>3 DEF Insert, TypeOK, enqueueVars, diskVars, bounds
<1>5. CASE Release
  BY <1>5, GiveBackType DEF Release
<1>6. CASE Fail
  BY <1>6, WorkerType DEF Fail, TypeOK, enqueueVars, diskVars, bounds
<1>7. CASE Settle
  <2>1. pending' \in Nat
    <3>1. pending >= 1
      BY <1>7, BusyIsCounted DEF Settle, WorkerBusy
    <3> QED
      BY <1>7, <3>1 DEF Settle, TypeOK
  <2>2. worker' \in WorkerStates
    BY <1>7, WorkerType, AtRestType DEF Settle, TypeOK
  <2>3. residue' \subseteq Slots
    BY <1>7 DEF Settle, TypeOK, WorkerStates, Jobs
  <2> QED
    BY <1>7, <2>1, <2>2, <2>3 DEF Settle, TypeOK, enqueueVars, bounds
<1>8. CASE Recover
  BY <1>8, AtRestType DEF Recover, TypeOK, enqueueVars, diskVars, bounds
<1>9. CASE RemoveJson
  <2>1. worker' \in WorkerStates
    BY <1>9, WorkerType DEF RemoveJson, TypeOK
  <2>2. meta' \subseteq Slots
    BY <1>9 DEF RemoveJson, TypeOK
  <2>3. robbed' \in BOOLEAN
    BY <1>9 DEF RemoveJson, TypeOK
  <2> QED
    BY <1>9, <2>1, <2>2, <2>3 DEF RemoveJson, TypeOK, enqueueVars, bounds
<1> QED
  BY <1>1, <1>2, <1>3, <1>4, <1>5, <1>6, <1>7, <1>8, <1>9 DEF WorkerStep

(* Cancellation and crash. *)
LEMMA ResetType ==
  ASSUME TypeOK, ClearSpill \/ Crash
  PROVE  TypeOK'
<1> USE QueueAssumption
<1>1. CASE ClearSpill
  <2>1. CASE ClearBegins
    BY <2>1 DEF ClearBegins, TypeOK, enqueueVars, workerVars, diskVars
  <2>2. CASE ClearFile
    <3>1. wav' \in [Slots -> MaybeSegment]
      BY <2>2 DEF ClearFile, TypeOK, MaybeSegment
    <3>2. meta' \subseteq Slots /\ residue' \subseteq Slots
      BY <2>2 DEF ClearFile, TypeOK
    <3> QED
      BY <2>2, <3>1, <3>2 DEF ClearFile, TypeOK, enqueueVars, workerVars, bounds
  <2>3. CASE ClearEnds
    <3>1. memory' \in 0 .. UsizeMod - 1 /\ clearing' \in BOOLEAN
      <4>1. memory' \in 0 .. UsizeMod - 1
        BY <2>3 DEF ClearEnds
      <4>2. clearing' \in BOOLEAN
        BY <2>3 DEF ClearEnds
      <4> QED
        BY <4>1, <4>2
    <3>2. UNCHANGED <<recorded, thread, replay, pending, queue, worker, inserted,
                      wav, meta, residue, robbed, shared, clears, crashes>>
      BY <2>3 DEF ClearEnds, enqueueVars, workerVars, diskVars
    <3> QED
      BY <3>1, <3>2 DEF TypeOK
  <2> QED
    BY <1>1, <2>1, <2>2, <2>3 DEF ClearSpill
<1>2. CASE Crash
  <2>1. Idle \in ThreadStates /\ [Idle EXCEPT !.pc = "list"] \in ThreadStates
    BY DEF Idle, ThreadStates, MaybeSegment
  <2>2. thread' \in [Threads -> ThreadStates]
    BY <1>2, <2>1 DEF Crash
  <2>3. replay' \subseteq [seg : Segments, seq : Slots] /\ residue' \subseteq Slots
    <3>1. \A n \in ListPending : n \in Slots /\ wav[n] \in Segments
      BY DEF TypeOK, ListPending, MaybeSegment
    <3> QED
      BY <1>2, <3>1 DEF Crash, FilesOnDisk
  <2>4. queue' \in Seq(Jobs)
    BY <1>2, EmptySeq DEF Crash
  <2>5. pending' \in Nat /\ memory' \in 0 .. UsizeMod - 1 /\ worker' \in WorkerStates
    BY <1>2, AtRestType DEF Crash
  <2>6. clearing' \in BOOLEAN /\ robbed' \in BOOLEAN /\ shared' \in BOOLEAN
    BY <1>2 DEF Crash, TypeOK
  <2>7. crashes' \in 0 .. MaxCrashes
    BY <1>2 DEF Crash, TypeOK
  <2>8. UNCHANGED <<recorded, inserted, wav, meta, clears>>
    BY <1>2 DEF Crash
  <2> QED
    BY <2>2, <2>3, <2>4, <2>5, <2>6, <2>7, <2>8 DEF TypeOK
<1> QED
  BY <1>1, <1>2

-----------------------------------------------------------------------------
(* Counting, action by action.                                             *)

(* A step that moves no thread to or from pc leaves the threads there. *)
LEMMA Stays ==
  ASSUME NEW pc,
         \A u \in Threads : (thread'[u].pc = pc) <=> (thread[u].pc = pc)
  PROVE  At(pc)' = At(pc)
BY DEF At

(* What a step that prepares or spills a payload does for the counts. *)
LEMMA PrepareMoves ==
  ASSUME TypeOK, NumberedOnDisk, NEW p \in Producers,
         Record(p) \/ Prepare(p) \/ Spill(p)
  PROVE  /\ \A u \in Threads \ {p} : thread'[u] = thread[u]
         /\ thread[p].pc \notin {"count", "send"}
         /\ thread'[p].pc \notin {"count", "send"}
         /\ thread'[p].pc \in {"wav", "json"} => thread'[p].seq # 0
         /\ thread[p].pc = "idle" => thread[Boot].pc = "idle"
         /\ UNCHANGED <<pending, queue, worker>>
<1> USE DEF TypeOK, Threads, GoTo, workerVars
<1>1. CASE Record(p)
  BY <1>1 DEF Record
<1>2. CASE PrepareInMemory(p)
  BY <1>2 DEF PrepareInMemory
<1>3. CASE PrepareOnDisk(p)
  BY <1>3 DEF PrepareOnDisk
<1>4. CASE RefuseDiskFull(p)
  BY <1>4 DEF RefuseDiskFull, Idle
<1>5. CASE Hold(p)
  BY <1>5 DEF Hold
<1>6. CASE TakeNumber(p)
  <2> PICK k \in Slots : thread' = [thread EXCEPT ![p].pc = "wav", ![p].seq = k]
    BY <1>6 DEF TakeNumber
  <2>1. k # 0
    BY DEF Slots
  <2>2. thread[p] \in ThreadStates
    OBVIOUS
  <2>3. thread'[p].pc = "wav" /\ thread'[p].seq = k
    BY <2>2 DEF ThreadStates
  <2> QED
    BY <1>6, <2>1, <2>3 DEF TakeNumber
<1>9. CASE WriteWav(p)
  <2>1. thread[p] \in ThreadStates
    OBVIOUS
  <2>2. thread'[p].pc = "json" /\ thread'[p].seq = thread[p].seq
    BY <1>9, <2>1 DEF WriteWav, ThreadStates
  <2> QED
    BY <1>9, <2>2 DEF WriteWav, NumberedOnDisk
<1>7. CASE WriteJson(p)
  <2>1. thread[p] \in ThreadStates
    OBVIOUS
  <2>2. thread'[p].pc = "admit"
    BY <1>7, <2>1 DEF WriteJson, ThreadStates
  <2> QED
    BY <1>7, <2>2 DEF WriteJson
<1>8. CASE SpillFails(p)
  <2>1. thread[p] \in ThreadStates
    OBVIOUS
  <2>2. thread'[p].pc = "hold"
    BY <1>8, <2>1 DEF SpillFails, ThreadStates
  <2> QED
    BY <1>8, <2>2 DEF SpillFails
<1> QED
  BY <1>1, <1>2, <1>3, <1>4, <1>5, <1>6, <1>7, <1>8, <1>9 DEF Prepare, Spill

(* Preparing a payload disturbs no count. *)
LEMMA PrepareCounts ==
  ASSUME CountInv, NEW p \in Producers, Record(p) \/ Prepare(p) \/ Spill(p)
  PROVE  CountInv'
<1> USE DEF CountInv
<1>0. p \in Threads /\ p # Boot /\ Boot \in Threads
  BY QueueAssumption DEF Threads
<1>1. TypeOK'
  BY PrepareType, SpillType
<1>2. At("send")' = At("send") /\ At("count")' = At("count")
  BY <1>0, PrepareMoves, Stays
<1>3. PendingExact'
  BY <1>2, PrepareMoves DEF PendingExact, WorkerBusy
<1>4. BootAlone'
  BY <1>0, PrepareMoves DEF BootAlone, Threads
<1>5. RoomForAdmitted'
  BY <1>2, PrepareMoves DEF RoomForAdmitted
<1>6. NumberedOnDisk'
  BY <1>0, PrepareMoves DEF NumberedOnDisk
<1> QED
  BY <1>1, <1>3, <1>4, <1>5, <1>6

(* The admitted jobs that are not counted yet are few. *)
FewCounted == Cardinality(At("count")) \in 0 .. Cardinality(Producers)

(* Either producers or the replay, never both, may be past admission. *)
LEMMA FewAdmitted == TypeOK /\ BootAlone => FewCounted
<1> SUFFICES ASSUME TypeOK, BootAlone PROVE FewCounted
  OBVIOUS
<1> USE DEF FewCounted
<1>1. Cardinality(Producers) \in Nat /\ Cardinality(Producers) >= 1
  BY QueueAssumption, FS_CardinalityType, FS_EmptySet
<1>2. CASE thread[Boot].pc = "idle"
  <2>1. At("count") \subseteq Producers
    BY <1>2 DEF At, Threads
  <2>2. Cardinality(At("count")) <= Cardinality(Producers)
    BY <2>1, QueueAssumption, FS_Subset
  <2> QED
    BY <1>1, <2>2, AtFinite
<1>3. CASE thread[Boot].pc # "idle"
  <2>1. At("count") \subseteq {Boot}
    BY <1>3 DEF At, Threads, BootAlone
  <2>2. IsFiniteSet({Boot}) /\ Cardinality({Boot}) = 1
    BY FS_Singleton
  <2>3. Cardinality(At("count")) <= 1
    BY <2>1, <2>2, FS_Subset
  <2> QED
    BY <1>1, <2>3, AtFinite
<1> QED
  BY <1>2, <1>3

(* What a step of send_job does to its thread. *)
LEMMA SendMoves ==
  ASSUME TypeOK, NEW t \in Threads, SendJob(t)
  PROVE  /\ \A u \in Threads \ {t} : thread'[u] = thread[u]
         /\ thread[t].pc # "idle"
         /\ thread'[t].pc \notin {"wav", "json"}
         /\ UNCHANGED worker
<1> USE DEF TypeOK, GoTo, workerVars, AfterSend, Idle
<1>1. CASE Admit(t)
  BY <1>1 DEF Admit
<1>2. CASE RefuseQueueFull(t)
  BY <1>2 DEF RefuseQueueFull
<1>3. CASE Count(t)
  BY <1>3 DEF Count
<1>4. CASE Send(t)
  BY <1>4 DEF Send
<1> QED
  BY <1>1, <1>2, <1>3, <1>4 DEF SendJob

(* Sending keeps the counts: a job is counted before it is on the channel, *)
(* and it was admitted only when there was room.                           *)
LEMMA SendCounts ==
  ASSUME CountInv, NEW t \in Threads, SendJob(t)
  PROVE  CountInv'
<1> USE DEF CountInv
<1>0. thread[t] \in ThreadStates /\ Boot \in Threads
  BY DEF TypeOK, Threads
<1>1. TypeOK'
  BY SendType
<1>2. BootAlone'
  BY SendMoves, QueueAssumption DEF BootAlone, Threads
<1>3. NumberedOnDisk'
  BY SendMoves DEF NumberedOnDisk
<1>4. Cardinality(Producers) \in Nat
  BY QueueAssumption, FS_CardinalityType
<1>5. CASE Admit(t)
  <2>1. At("send")' = At("send")
    BY <1>0, <1>5, Stays DEF Admit, GoTo, TypeOK
  <2>2. PendingExact'
    BY <1>5, <2>1 DEF Admit, PendingExact, WorkerBusy, workerVars
  <2>3. FewCounted'
    BY <1>1, <1>2, FewAdmitted, PTL
  <2>4. RoomForAdmitted'
    BY <1>4, <1>5, <2>3, QueueAssumption
    DEF Admit, RoomForAdmitted, FewCounted, TypeOK
  <2> QED
    BY <1>1, <1>2, <1>3, <2>2, <2>4
<1>6. CASE RefuseQueueFull(t)
  <2>1. At("send")' = At("send") /\ At("count")' = At("count")
    BY <1>0, <1>6, Stays DEF RefuseQueueFull, AfterSend, Idle, TypeOK
  <2>2. PendingExact' /\ RoomForAdmitted'
    BY <1>6, <2>1
    DEF RefuseQueueFull, PendingExact, RoomForAdmitted, WorkerBusy, workerVars
  <2> QED
    BY <1>1, <1>2, <1>3, <2>2
<1>7. CASE Count(t)
  <2>1. t \notin At("send") /\ At("send")' = At("send") \cup {t}
    BY <1>0, <1>7 DEF Count, GoTo, At, TypeOK
  <2>2. t \in At("count") /\ At("count")' = At("count") \ {t}
    BY <1>0, <1>7 DEF Count, GoTo, At, TypeOK
  <2>3. Cardinality(At("send"))' = Cardinality(At("send")) + 1
    BY <2>1, Arrives
  <2>4. Cardinality(At("count"))' = Cardinality(At("count")) - 1
    BY <2>2, Leaves
  <2>5. UNCHANGED <<queue, worker>> /\ pending' = pending + 1
    BY <1>7 DEF Count, workerVars
  <2>6. PendingExact'
    BY <2>3, <2>5, AtFinite, LenProperties DEF PendingExact, WorkerBusy, TypeOK
  <2>7. RoomForAdmitted'
    BY <1>4, <2>4, <2>5, AtFinite, QueueAssumption DEF RoomForAdmitted, TypeOK
  <2> QED
    BY <1>1, <1>2, <1>3, <2>6, <2>7
<1>8. CASE Send(t)
  <2>1. t \in At("send") /\ At("send")' = At("send") \ {t}
    BY <1>0, <1>8 DEF Send, AfterSend, Idle, At, TypeOK
  <2>2. At("count")' = At("count")
    BY <1>0, <1>8, Stays DEF Send, AfterSend, Idle, TypeOK
  <2>3. Len(queue') = Len(queue) + 1 /\ Len(queue) \in Nat
    <3>1. [seg |-> thread[t].seg, seq |-> thread[t].seq] \in Jobs
      BY <1>0 DEF ThreadStates, Jobs
    <3> QED
      BY <1>8, <3>1, AppendProperties DEF Send, TypeOK
  <2>4. Cardinality(At("send"))' = Cardinality(At("send")) - 1
    BY <2>1, Leaves
  <2>5. UNCHANGED <<pending, worker>>
    BY <1>8 DEF Send, workerVars
  <2>6. PendingExact'
    BY <2>3, <2>4, <2>5, AtFinite DEF PendingExact, WorkerBusy
  <2>7. RoomForAdmitted'
    BY <2>2, <2>5 DEF RoomForAdmitted
  <2> QED
    BY <1>1, <1>2, <1>3, <2>6, <2>7
<1> QED
  BY <1>5, <1>6, <1>7, <1>8 DEF SendJob

(* The replay disturbs no count either. *)
LEMMA ReplayCounts ==
  ASSUME CountInv, Replay
  PROVE  CountInv'
<1> USE DEF CountInv
<1>0. Boot \in Threads
  BY DEF Threads
<1>1. TypeOK'
  BY ReplayType
<1>2. /\ \A u \in Threads \ {Boot} : thread'[u] = thread[u]
      /\ thread[Boot].pc = "list"
      /\ thread'[Boot].pc \in {"admit", "idle"}
      /\ UNCHANGED <<pending, queue, worker>>
  BY <1>0 DEF Replay, ReplayNext, ReplayDone, Idle, TypeOK, workerVars
<1>3. At("send")' = At("send") /\ At("count")' = At("count")
  BY <1>0, <1>2, Stays
<1>4. PendingExact' /\ RoomForAdmitted'
  BY <1>2, <1>3 DEF PendingExact, RoomForAdmitted, WorkerBusy
<1>5. BootAlone'
  BY <1>2, QueueAssumption DEF BootAlone, Threads
<1>6. NumberedOnDisk'
  BY <1>2 DEF NumberedOnDisk
<1> QED
  BY <1>1, <1>4, <1>5, <1>6

(* The worker settles each job once. *)
LEMMA WorkerCounts ==
  ASSUME CountInv, WorkerStep
  PROVE  CountInv'
<1> USE DEF CountInv
<1>1. TypeOK'
  BY WorkerStepType
<1>2. UNCHANGED thread
  BY DEF WorkerStep, Receive, Load, Discard, Insert, Release, RemoveJson, Fail,
         Settle, Recover, GiveBack, enqueueVars
<1>3. \A pc : At(pc)' = At(pc)
  BY <1>2 DEF At
<1>4. BootAlone' /\ NumberedOnDisk'
  BY <1>2 DEF BootAlone, NumberedOnDisk
<1>5. CASE Receive
  <2>1. Len(queue') = Len(queue) - 1 /\ Len(queue) \in Nat
    BY <1>5, HeadTailProperties, LenProperties DEF Receive, TypeOK
  <2>2. PendingExact'
    BY <1>3, <1>5, <2>1, AtFinite
    DEF Receive, PendingExact, WorkerBusy, TypeOK
  <2>3. RoomForAdmitted'
    BY <1>3, <1>5 DEF Receive, RoomForAdmitted
  <2> QED
    BY <1>1, <1>4, <2>2, <2>3
<1>6. CASE Settle
  <2>1. ~WorkerBusy'
    BY <1>6 DEF Settle, WorkerBusy, AtRest, TypeOK, WorkerStates
  <2>2. WorkerBusy
    BY <1>6 DEF Settle, WorkerBusy
  <2>3. UNCHANGED queue /\ pending' = pending - 1
    BY <1>6 DEF Settle
  <2>4. PendingExact'
    BY <1>3, <2>1, <2>2, <2>3, AtFinite DEF PendingExact, TypeOK
  <2>5. RoomForAdmitted'
    <3>1. Cardinality(Producers) \in Nat
      BY QueueAssumption, FS_CardinalityType
    <3> QED
      BY <1>3, <2>3, <3>1, AtFinite, QueueAssumption
      DEF RoomForAdmitted, TypeOK
  <2> QED
    BY <1>1, <1>4, <2>4, <2>5
<1>7. CASE Load \/ Discard \/ Insert \/ Release \/ RemoveJson \/ Fail \/ Recover
  <2>1. UNCHANGED <<pending, queue>>
    BY <1>7 DEF Load, Discard, Insert, Release, RemoveJson, Fail, Recover, GiveBack
  <2>2. \/ /\ worker.pc \in {"load", "work", "typed", "unlink"}
           /\ worker'.pc \in {"work", "typed", "unlink", "settle", "fail"}
        \/ worker.pc = "recover" /\ worker'.pc = "recv"
    <3>1. \A pc : [worker EXCEPT !.pc = pc].pc = pc
      BY DEF TypeOK, WorkerStates
    <3>2. CASE Load
      BY <3>2 DEF Load, TypeOK, WorkerStates
    <3>3. CASE Discard \/ Insert \/ Release \/ RemoveJson \/ Fail
      BY <3>1, <3>3 DEF Discard, Insert, Release, RemoveJson, Fail, GiveBack
    <3>4. CASE Recover
      BY <3>4 DEF Recover, AtRest
    <3> QED
      BY <1>7, <3>2, <3>3, <3>4
  <2>3. PendingExact'
    BY <1>3, <2>1, <2>2 DEF PendingExact, WorkerBusy
  <2>4. RoomForAdmitted'
    BY <1>3, <2>1 DEF RoomForAdmitted
  <2> QED
    BY <1>1, <1>4, <2>3, <2>4
<1> QED
  BY <1>5, <1>6, <1>7 DEF WorkerStep

(* With every thread idle or back at the replay, nothing is counted. *)
Quiet ==
  /\ \A t \in Threads : thread[t].pc \notin {"send", "count", "wav", "json"}
  /\ \A p \in Producers : thread[p].pc = "idle"
  /\ pending = 0 /\ queue = <<>> /\ worker = AtRest

LEMMA NothingCounted ==
  Quiet => PendingExact /\ BootAlone /\ RoomForAdmitted /\ NumberedOnDisk
<1> SUFFICES ASSUME Quiet
             PROVE  PendingExact /\ BootAlone /\ RoomForAdmitted /\ NumberedOnDisk
  OBVIOUS
<1>1. At("send") = {} /\ At("count") = {}
  BY DEF At, Quiet
<1>2. Cardinality(At("send")) = 0 /\ Cardinality(At("count")) = 0
  BY <1>1, FS_EmptySet
<1>3. Cardinality(Producers) \in Nat /\ Cardinality(Producers) # 0
  BY QueueAssumption, FS_CardinalityType, FS_EmptySet
<1>4. Len(queue) = 0
  BY DEF Quiet
<1>5. ~WorkerBusy
  BY DEF Quiet, WorkerBusy, AtRest
<1>6. PendingExact
  BY <1>2, <1>4, <1>5 DEF PendingExact, Quiet
<1>7. RoomForAdmitted
  BY <1>2, <1>3, QueueAssumption DEF RoomForAdmitted, Quiet
<1> QED
  BY <1>6, <1>7 DEF BootAlone, NumberedOnDisk, Quiet

(* A cancellation leaves the counts alone; a crash starts them again. *)
LEMMA ResetCounts ==
  ASSUME CountInv, ClearSpill \/ Crash
  PROVE  CountInv'
<1> USE DEF CountInv
<1>1. TypeOK'
  BY ResetType
<1>2. CASE ClearSpill
  <2>1. UNCHANGED <<thread, pending, queue, worker>>
    BY <1>2 DEF ClearSpill, ClearBegins, ClearFile, ClearEnds, enqueueVars, workerVars
  <2> QED
    BY <1>1, <2>1 DEF PendingExact, BootAlone, RoomForAdmitted, NumberedOnDisk,
                      At, WorkerBusy
<1>3. CASE Crash
  <2>1. Quiet'
    BY <1>3, QueueAssumption DEF Crash, Quiet, Idle, Threads
  <2>2. (PendingExact /\ BootAlone /\ RoomForAdmitted /\ NumberedOnDisk)'
    BY <2>1, NothingCounted, PTL
  <2> QED
    BY <1>1, <2>2
<1> QED
  BY <1>2, <1>3

-----------------------------------------------------------------------------
(* The theorems.                                                           *)

(* The invariant holds at the start ... *)
LEMMA InitCounts == Init => CountInv
<1> SUFFICES ASSUME Init PROVE CountInv
  OBVIOUS
<1>1. TypeOK
  <2>1. clearing \in BOOLEAN /\ robbed \in BOOLEAN /\ shared \in BOOLEAN
    BY DEF Init
  <2> QED
    BY <2>1, QueueAssumption, IdleType, AtRestType, EmptySeq
    DEF Init, TypeOK, MaybeSegment
<1>2. Quiet
  BY DEF Init, Quiet, Idle, Threads
<1>3. PendingExact /\ BootAlone /\ RoomForAdmitted /\ NumberedOnDisk
  BY <1>2, NothingCounted
<1> QED
  BY <1>1, <1>3 DEF CountInv

(* ... and every step keeps it. *)
LEMMA StepCounts == CountInv /\ [Next]_vars => CountInv'
<1> SUFFICES ASSUME CountInv, [Next]_vars PROVE CountInv'
  OBVIOUS
<1>1. CASE \E p \in Producers : Record(p)
  BY <1>1, PrepareCounts
<1>2. CASE \E p \in Producers : Prepare(p) \/ Spill(p)
  BY <1>2, PrepareCounts
<1>3. CASE \E t \in Threads : SendJob(t)
  BY <1>3, SendCounts
<1>4. CASE Replay
  BY <1>4, ReplayCounts
<1>5. CASE WorkerStep
  BY <1>5, WorkerCounts
<1>6. CASE ClearSpill \/ Crash
  BY <1>6, ResetCounts
<1>7. CASE UNCHANGED vars
  BY <1>7 DEF CountInv, TypeOK, PendingExact, BootAlone, RoomForAdmitted,
              NumberedOnDisk, At, WorkerBusy, vars, enqueueVars, workerVars,
              diskVars, bounds
<1> QED
  BY <1>1, <1>2, <1>3, <1>4, <1>5, <1>6, <1>7 DEF Next, ThreadStep

(* The inductive invariant of the queue. *)
THEOREM CountInvariant == Spec => []CountInv
BY InitCounts, StepCounts, PTL DEF Spec

(* No interleaving of the enqueueing threads, the worker, cancellations and *)
(* crashes takes a variable out of its type; in particular pending, an      *)
(* unsigned atomic, is never decremented below zero (process_one_segment,   *)
(* handle_pipeline_error).                                                  *)
THEOREM TypeCorrect == Spec => []TypeOK
<1>1. CountInv => TypeOK
  BY DEF CountInv
<1> QED
  BY <1>1, CountInvariant, PTL

(* pending is exact for any number of producers: one for each job between   *)
(* its fetch_add in send_job and its fetch_sub in the worker.               *)
THEOREM PendingIsExact == Spec => []PendingExact
<1>1. CountInv => PendingExact
  BY DEF CountInv
<1> QED
  BY <1>1, CountInvariant, PTL

(* The check and the fetch_add of send_job are apart, yet N producers pass  *)
(* the limit by at most N - 1 jobs.                                         *)
THEOREM BacklogIsBounded == Spec => []BacklogBound
<1>1. CountInv => BacklogBound
  <2>1. Cardinality(Producers) \in Nat
    BY QueueAssumption, FS_CardinalityType
  <2> QED
    BY <2>1, AtFinite, QueueAssumption
    DEF CountInv, TypeOK, RoomForAdmitted, BacklogBound
<1> QED
  BY <1>1, CountInvariant, PTL

=============================================================================
