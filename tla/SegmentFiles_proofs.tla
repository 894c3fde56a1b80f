------------------------ MODULE SegmentFiles_proofs ------------------------
(***************************************************************************)
(* Theorems about the spill files and the deliveries of SegmentQueue: no   *)
(* file on disk is forgotten and no segment waits twice, whatever threads, *)
(* cancellations and crashes do; and each job keeps its own audio until a  *)
(* cancellation, two threads that number at once, or a finished job that   *)
(* removes the JSON of a number in use again.                              *)
(***************************************************************************)
EXTENDS SegmentQueue_proofs

-----------------------------------------------------------------------------
(* While nothing has disturbed the files: the inductive invariant.         *)

(* Who answers for a number, from the moment it is taken. *)
Holding(t) == /\ thread[t].pc \in {"wav", "json", "admit", "count", "send"}
              /\ thread[t].seq # 0
OnDisk(i) == queue[i].seq # 0
InHand == worker.pc \in {"load", "work", "typed", "fail"} /\ worker.job.seq # 0

(* The file is complete and holds the audio it answers for. *)
Stored(job) == job.seq \in ListPending /\ wav[job.seq] = job.seg

EachStored ==
  /\ \A t \in Threads :
       /\ thread[t].pc \notin {"idle", "list"} => thread[t].seg # NoSegment
       /\ thread[t].pc \in {"prepare", "number", "hold"} => thread[t].seq = 0
  /\ \A job \in replay : Stored(job)
  /\ \A t \in Threads : Holding(t) =>
       /\ thread[t].pc # "wav" => wav[thread[t].seq] = thread[t].seg
       /\ thread[t].pc \notin {"wav", "json"} => thread[t].seq \in meta
  /\ \A i \in 1 .. Len(queue) : OnDisk(i) => Stored(queue[i])
  /\ InHand => Stored(worker.job)
  /\ worker.pc = "work" => worker.loaded = worker.job.seg

(* A number of the replay is nobody else's. *)
NotReplayed(n) == \A job \in replay : job.seq # n

(* No file has two that answer for it.  The number the worker is unlinking *)
(* may be in use again, but not by the replay.                             *)
Apart ==
  /\ \A job, other \in replay : job.seq = other.seq => job = other
  /\ \A i \in 1 .. Len(queue) : OnDisk(i) =>
       /\ NotReplayed(queue[i].seq)
       /\ \A j \in 1 .. Len(queue) : queue[i].seq = queue[j].seq => i = j
       /\ InHand => worker.job.seq # queue[i].seq
  /\ InHand \/ worker.pc = "unlink" => NotReplayed(worker.job.seq)
  /\ \A t \in Threads : Holding(t) =>
       /\ NotReplayed(thread[t].seq)
       /\ \A i \in 1 .. Len(queue) : queue[i].seq # thread[t].seq
       /\ InHand => worker.job.seq # thread[t].seq
       /\ \A u \in Threads : Holding(u) /\ thread[u].seq = thread[t].seq => u = t

FilesKept == /\ clears = 0 => ~clearing
             /\ FilesUndisturbed => EachStored /\ Apart

FileInv == CountInv /\ FilesKept

-----------------------------------------------------------------------------
(* No segment waits twice.                                                 *)

(* The job whose segment is still in Waiting. *)
Untyped == worker.pc \in {"load", "work"}

(* A segment that was recorded and waits nowhere. *)
NotWaiting(s) ==
  /\ s \in 1 .. recorded
  /\ \A i \in 1 .. Len(queue) : queue[i].seg # s
  /\ Untyped => worker.job.seg # s

(* What waits was recorded, and waits once. *)
Distinct ==
  /\ \A i \in 1 .. Len(queue) : queue[i].seg \in 1 .. recorded
  /\ Untyped => worker.job.seg \in 1 .. recorded
  /\ \A i, j \in 1 .. Len(queue) : queue[i].seg = queue[j].seg => i = j
  /\ Untyped => \A i \in 1 .. Len(queue) : queue[i].seg # worker.job.seg

(* What a thread carries, or the replay has still to send, waits nowhere,  *)
(* and no two of them carry the same.                                      *)
Carries(t) == thread[t].pc \notin {"idle", "list"}
Fresh(t) == NotWaiting(thread[t].seg)
Carried ==
  /\ \A t \in Threads : Carries(t) => Fresh(t)
  /\ \A t, u \in Threads :
       Carries(t) /\ Carries(u) /\ thread[t].seg = thread[u].seg => t = u
  /\ \A job \in replay :
       /\ NotWaiting(job.seg)
       /\ \A t \in Threads : Carries(t) => thread[t].seg # job.seg
       /\ \A other \in replay : job.seg = other.seg => job = other

(* Each WAV holds a segment of its own, which nobody writes again. *)
FilesDiffer ==
  /\ \A n \in Slots : wav[n] \in (1 .. recorded) \cup {NoSegment}
  /\ \A m, n \in Slots : wav[m] = wav[n] /\ wav[m] # NoSegment => m = n
  /\ \A t \in Threads : thread[t].pc \in {"prepare", "number", "wav"} =>
       \A n \in Slots : wav[n] # thread[t].seg

WaitKept == Distinct /\ Carried /\ FilesDiffer
WaitingInv == CountInv /\ WaitKept

-----------------------------------------------------------------------------
(* Threads, one by one.                                                    *)

LEMMA Fields ==
  ASSUME TypeOK, NEW t \in Threads
  PROVE  /\ thread[t] \in ThreadStates
         /\ \A pc : /\ [thread[t] EXCEPT !.pc = pc].pc = pc
                    /\ [thread[t] EXCEPT !.pc = pc].seq = thread[t].seq
                    /\ [thread[t] EXCEPT !.pc = pc].seg = thread[t].seg
BY DEF TypeOK, ThreadStates

(* A thread that moves on keeps its payload, and the others stay. *)
LEMMA Moves ==
  ASSUME TypeOK, NEW t \in Threads, NEW pc, GoTo(t, pc)
  PROVE  /\ thread'[t].pc = pc
         /\ thread'[t].seq = thread[t].seq /\ thread'[t].seg = thread[t].seg
         /\ \A u \in Threads \ {t} : thread'[u] = thread[u]
BY Fields DEF TypeOK, GoTo

LEMMA Becomes ==
  ASSUME TypeOK, NEW t \in Threads, NEW r, thread' = [thread EXCEPT ![t] = r]
  PROVE  thread'[t] = r /\ \A u \in Threads \ {t} : thread'[u] = thread[u]
BY DEF TypeOK

LEMMA Numbered ==
  ASSUME TypeOK, NEW p \in Threads, NEW pc, NEW k,
         thread' = [thread EXCEPT ![p].pc = pc, ![p].seq = k]
  PROVE  /\ thread'[p].pc = pc /\ thread'[p].seq = k
         /\ thread'[p].seg = thread[p].seg
         /\ \A u \in Threads \ {p} : thread'[u] = thread[u]
BY DEF TypeOK, ThreadStates

(* What waits behind the head, and what is appended. *)
LEMMA HeadAndTail ==
  ASSUME NEW q \in Seq(Jobs), q # <<>>
  PROVE  /\ Head(q) = q[1] /\ Head(q) \in Jobs
         /\ Tail(q) \in Seq(Jobs) /\ Len(Tail(q)) = Len(q) - 1
         /\ \A i \in 1 .. Len(q) - 1 : Tail(q)[i] = q[i + 1]
         /\ Len(q) \in Nat \ {0}
OBVIOUS

LEMMA Appended ==
  ASSUME NEW q \in Seq(Jobs), NEW j \in Jobs
  PROVE  /\ Append(q, j) \in Seq(Jobs) /\ Len(Append(q, j)) = Len(q) + 1
         /\ \A i \in 1 .. Len(q) : Append(q, j)[i] = q[i]
         /\ Append(q, j)[Len(q) + 1] = j
         /\ Len(q) \in Nat
OBVIOUS

-----------------------------------------------------------------------------
(* Every file on disk is accounted for.                                    *)

HeldByThread(n) ==
  \E t \in Threads : /\ thread[t].pc \in {"json", "admit", "count", "send"}
                     /\ thread[t].seq = n
HeldByQueue(n) == \E i \in 1 .. Len(queue) : queue[i].seq = n
HeldByWorker(n) ==
  worker.pc \in {"load", "work", "typed", "fail"} /\ worker.job.seq = n
HeldByReplay(n) == \E job \in replay : job.seq = n
Accounted(n) == \/ n \in residue \/ HeldByReplay(n)
                \/ HeldByThread(n) \/ HeldByQueue(n) \/ HeldByWorker(n)

LEMMA AccountedOneByOne ==
  FilesAccounted <=> \A n \in Slots : wav[n] # NoSegment => Accounted(n)
BY DEF FilesAccounted, FilesOnDisk, Owned, Accounted, HeldByReplay, HeldByThread,
       HeldByQueue, HeldByWorker

(* Nobody else's file is disturbed by a thread that changes only itself. *)
LEMMA ThreadAccounts ==
  ASSUME FilesAccounted, NEW t \in Threads,
         \A u \in Threads \ {t} : thread'[u] = thread[u],
         UNCHANGED <<replay, queue, worker, wav>>, residue \subseteq residue',
         \/ /\ thread'[t].pc \in {"json", "admit", "count", "send"}
            /\ thread'[t].seq = thread[t].seq
         \/ thread[t].seq \in residue' \cup {0}
         \/ thread[t].pc \notin {"json", "admit", "count", "send"}
  PROVE  FilesAccounted'
<1> SUFFICES ASSUME NEW n \in Slots, wav[n] # NoSegment
             PROVE  Accounted(n)'
  BY AccountedOneByOne DEF FilesAccounted, FilesOnDisk, Owned, Accounted,
     HeldByReplay, HeldByThread, HeldByQueue, HeldByWorker
<1>1. Accounted(n) /\ n # 0
  BY AccountedOneByOne DEF Slots
<1>2. CASE HeldByThread(n)
  <2>1. PICK u \in Threads : /\ thread[u].pc \in {"json", "admit", "count", "send"}
                             /\ thread[u].seq = n
    BY <1>2 DEF HeldByThread
  <2>2. CASE u = t
    BY <1>1, <2>1, <2>2 DEF Accounted, HeldByReplay, HeldByThread
  <2>3. CASE u # t
    BY <2>1, <2>3 DEF Accounted, HeldByReplay, HeldByThread
  <2> QED
    BY <2>2, <2>3
<1>3. CASE ~HeldByThread(n)
  BY <1>1, <1>3 DEF Accounted, HeldByReplay, HeldByQueue, HeldByWorker
<1> QED
  BY <1>2, <1>3

LEMMA PrepareAccounts ==
  ASSUME TypeOK, FilesAccounted, NEW p \in Producers,
         Record(p) \/ Prepare(p) \/ Spill(p)
  PROVE  FilesAccounted'
<1>0. p \in Threads
  BY DEF Threads
<1> USE DEF workerVars, diskVars
<1>1. CASE Record(p)
  BY <1>0, <1>1, Becomes, ThreadAccounts DEF Record
<1>2. CASE PrepareInMemory(p)
  BY <1>0, <1>2, Moves, ThreadAccounts DEF PrepareInMemory
<1>3. CASE PrepareOnDisk(p)
  BY <1>0, <1>3, Moves, ThreadAccounts DEF PrepareOnDisk
<1>4. CASE RefuseDiskFull(p)
  BY <1>0, <1>4, Becomes, ThreadAccounts DEF RefuseDiskFull
<1>5. CASE Hold(p)
  BY <1>0, <1>5, Moves, ThreadAccounts DEF Hold
<1>9. CASE TakeNumber(p)
  <2>1. PICK k \in Slots : thread' = [thread EXCEPT ![p].pc = "wav", ![p].seq = k]
    BY <1>9 DEF TakeNumber
  <2>2. \A u \in Threads \ {p} : thread'[u] = thread[u]
    BY <1>0, <2>1, Numbered
  <2>3. /\ thread[p].pc = "number"
        /\ UNCHANGED <<replay, queue, worker, wav, residue>>
    BY <1>9 DEF TakeNumber
  <2> QED
    BY <1>0, <2>2, <2>3, ThreadAccounts
<1>6. CASE WriteWav(p)
  <2> DEFINE k == thread[p].seq
  <2>1. /\ wav' = [wav EXCEPT ![k] = thread[p].seg]
        /\ residue' = residue \ {k}
    BY <1>6 DEF WriteWav
  <2>2. /\ thread'[p].pc = "json" /\ thread'[p].seq = k
        /\ \A u \in Threads \ {p} : thread'[u] = thread[u]
    BY <1>0, <1>6, Moves DEF WriteWav
  <2> HIDE DEF k
  <2> SUFFICES ASSUME NEW n \in Slots, wav'[n] # NoSegment
               PROVE  Accounted(n)'
    BY AccountedOneByOne DEF FilesAccounted, FilesOnDisk, Owned, Accounted,
       HeldByReplay, HeldByThread, HeldByQueue, HeldByWorker
  <2>3. CASE n = k
    BY <1>0, <2>2, <2>3 DEF Accounted, HeldByReplay, HeldByThread
  <2>4. CASE n # k
    <3>1. Accounted(n)
      BY <2>1, <2>4, AccountedOneByOne DEF TypeOK
    <3>2. HeldByThread(n) => HeldByThread(n)'
      BY <1>6, <2>2 DEF HeldByThread, WriteWav
    <3> QED
      BY <1>6, <2>1, <2>4, <3>1, <3>2
      DEF Accounted, HeldByReplay, HeldByQueue, HeldByWorker, WriteWav
  <2> QED
    BY <2>3, <2>4
<1>7. CASE WriteJson(p)
  BY <1>0, <1>7, Moves, ThreadAccounts DEF WriteJson, HeldByThread
<1>8. CASE SpillFails(p)
  BY <1>0, <1>8, Numbered, ThreadAccounts DEF SpillFails
<1> QED
  BY <1>1, <1>2, <1>3, <1>4, <1>5, <1>6, <1>7, <1>8, <1>9 DEF Prepare, Spill

LEMMA SendAccounts ==
  ASSUME TypeOK, FilesAccounted, NEW t \in Threads, SendJob(t)
  PROVE  FilesAccounted'
<1> USE DEF workerVars, diskVars
<1>1. CASE Admit(t)
  BY <1>1, Moves, ThreadAccounts DEF Admit, HeldByThread
<1>2. CASE RefuseQueueFull(t)
  BY <1>2, Becomes, ThreadAccounts DEF RefuseQueueFull
<1>3. CASE Count(t)
  BY <1>3, Moves, ThreadAccounts DEF Count, HeldByThread
<1>4. CASE Send(t)
  <2>1. [seg |-> thread[t].seg, seq |-> thread[t].seq] \in Jobs
    BY DEF TypeOK, ThreadStates, Jobs
  <2>2. /\ \A i \in 1 .. Len(queue) : i \in 1 .. Len(queue') /\ queue'[i] = queue[i]
        /\ \E i \in 1 .. Len(queue') : queue'[i].seq = thread[t].seq
    <3> DEFINE job == [seg |-> thread[t].seg, seq |-> thread[t].seq]
    <3>1. queue \in Seq(Jobs) /\ queue' = Append(queue, job) /\ job \in Jobs
      BY <1>4, <2>1 DEF Send, TypeOK
    <3>2. job.seq = thread[t].seq
      OBVIOUS
    <3> HIDE DEF job
    <3>3. /\ Len(queue) \in Nat /\ Len(queue') = Len(queue) + 1
          /\ \A i \in 1 .. Len(queue) : queue'[i] = queue[i]
          /\ queue'[Len(queue) + 1] = job
      BY <3>1, Appended
    <3> QED
      BY <3>2, <3>3
  <2>3. \A u \in Threads \ {t} : thread'[u] = thread[u]
    BY <1>4, Becomes DEF Send
  <2> SUFFICES ASSUME NEW n \in Slots, wav'[n] # NoSegment
               PROVE  Accounted(n)'
    BY AccountedOneByOne DEF FilesAccounted, FilesOnDisk, Owned, Accounted,
       HeldByReplay, HeldByThread, HeldByQueue, HeldByWorker
  <2>4. Accounted(n)
    BY <1>4, AccountedOneByOne DEF Send
  <2>5. HeldByThread(n) => HeldByThread(n)' \/ thread[t].seq = n
    BY <2>3 DEF HeldByThread
  <2>6. HeldByQueue(n) \/ thread[t].seq = n => HeldByQueue(n)'
    BY <2>2 DEF HeldByQueue
  <2> QED
    BY <1>4, <2>4, <2>5, <2>6 DEF Accounted, HeldByReplay, HeldByWorker, Send
<1> QED
  BY <1>1, <1>2, <1>3, <1>4 DEF SendJob

LEMMA ReplayAccounts ==
  ASSUME TypeOK, FilesAccounted, Replay
  PROVE  FilesAccounted'
<1>0. Boot \in Threads
  BY DEF Threads
<1> USE DEF workerVars, diskVars
<1>1. CASE ReplayNext
  <2>1. PICK job \in replay :
          /\ replay' = replay \ {job}
          /\ thread' = [thread EXCEPT ![Boot] =
                          [pc |-> "admit", seg |-> job.seg, seq |-> job.seq]]
    BY <1>1 DEF ReplayNext
  <2>2. /\ thread'[Boot].pc = "admit" /\ thread'[Boot].seq = job.seq
        /\ \A u \in Threads \ {Boot} : thread'[u] = thread[u]
    <3>1. /\ thread'[Boot] = [pc |-> "admit", seg |-> job.seg, seq |-> job.seq]
          /\ \A u \in Threads \ {Boot} : thread'[u] = thread[u]
      BY <1>0, <2>1, Becomes
    <3> QED
      BY <3>1
  <2> SUFFICES ASSUME NEW n \in Slots, wav'[n] # NoSegment
               PROVE  Accounted(n)'
    BY AccountedOneByOne DEF FilesAccounted, FilesOnDisk, Owned, Accounted,
       HeldByReplay, HeldByThread, HeldByQueue, HeldByWorker
  <2>3. Accounted(n)
    BY <1>1, AccountedOneByOne DEF ReplayNext
  <2>4. n = job.seq \/ HeldByThread(n) => HeldByThread(n)'
    BY <1>0, <1>1, <2>2 DEF HeldByThread, ReplayNext
  <2> QED
    BY <1>1, <2>1, <2>3, <2>4 DEF Accounted, HeldByReplay, HeldByQueue, HeldByWorker, ReplayNext
<1>2. CASE ReplayDone
  BY <1>0, <1>2, Becomes, ThreadAccounts DEF ReplayDone
<1> QED
  BY <1>1, <1>2 DEF Replay

LEMMA WorkerAccounts ==
  ASSUME TypeOK, FilesAccounted, WorkerStep
  PROVE  FilesAccounted'
<1> USE DEF workerVars, diskVars, enqueueVars, bounds
<1>0. worker \in WorkerStates
  BY DEF TypeOK
<1> SUFFICES ASSUME NEW n \in Slots, wav'[n] # NoSegment
             PROVE  Accounted(n)'
  BY AccountedOneByOne DEF FilesAccounted, FilesOnDisk, Owned, Accounted,
     HeldByReplay, HeldByThread, HeldByQueue, HeldByWorker
<1>1. CASE Receive
  <2>1. Accounted(n)
    BY <1>1, AccountedOneByOne DEF Receive
  <2>2. HeldByQueue(n) => HeldByQueue(n)' \/ HeldByWorker(n)'
    <3>1. /\ Head(queue) = queue[1] /\ Len(queue') = Len(queue) - 1
          /\ \A i \in 1 .. Len(queue) - 1 : queue'[i] = queue[i + 1]
      BY <1>1, HeadAndTail DEF Receive, TypeOK
    <3>2. SUFFICES ASSUME NEW i \in 1 .. Len(queue), queue[i].seq = n
                   PROVE  HeldByQueue(n)' \/ HeldByWorker(n)'
      BY DEF HeldByQueue
    <3>3. CASE i = 1
      BY <1>1, <3>1, <3>2, <3>3 DEF Receive, HeldByWorker
    <3>4. CASE i # 1
      <4>1. i - 1 \in 1 .. Len(queue') /\ queue'[i - 1] = queue[i]
        BY <1>1, <3>1, <3>4, HeadAndTail DEF Receive, TypeOK
      <4> QED
        BY <3>2, <4>1 DEF HeldByQueue
    <3> QED
      BY <3>3, <3>4
  <2>3. ~HeldByWorker(n)
    BY <1>1 DEF Receive, HeldByWorker
  <2> QED
    BY <1>1, <2>1, <2>2, <2>3 DEF Accounted, HeldByReplay, HeldByThread, Receive
<1>2. CASE Load \/ Insert \/ Fail
  <2>1. Accounted(n)
    BY <1>2, AccountedOneByOne DEF Load, Insert, Fail
  <2>2. HeldByWorker(n) => HeldByWorker(n)'
    BY <1>0, <1>2 DEF HeldByWorker, Load, Insert, Fail, WorkerStates
  <2> QED
    BY <1>2, <2>1, <2>2 DEF Accounted, HeldByReplay, HeldByThread, HeldByQueue, Load, Insert, Fail
<1>3. CASE Discard \/ Release
  <2>1. CASE worker.job.seq = 0
    <3>1. Accounted(n) /\ ~HeldByWorker(n)
      BY <1>3, <2>1, AccountedOneByOne
      DEF Discard, Release, GiveBack, HeldByWorker, Slots
    <3> QED
      BY <1>3, <2>1, <3>1
      DEF Accounted, HeldByReplay, HeldByThread, HeldByQueue, Discard, Release, GiveBack
  <2>2. CASE worker.job.seq # 0
    <3>0. RemoveWav(worker.job.seq) /\ wav \in [Slots -> MaybeSegment]
      BY <1>3, <2>2 DEF Discard, Release, GiveBack, TypeOK
    <3>1. /\ wav[n] # NoSegment
          /\ n = worker.job.seq => n \in residue'
          /\ n # worker.job.seq /\ n \in residue => n \in residue'
      BY <3>0 DEF RemoveWav
    <3>2. Accounted(n) /\ (n # worker.job.seq => ~HeldByWorker(n))
      BY <3>1, AccountedOneByOne DEF HeldByWorker
    <3> QED
      BY <1>3, <3>1, <3>2
      DEF Accounted, HeldByReplay, HeldByThread, HeldByQueue, Discard, Release, GiveBack
  <2> QED
    BY <2>1, <2>2
<1>4. CASE Settle
  <2>1. Accounted(n) /\ n # 0
    BY <1>4, AccountedOneByOne DEF Settle, Slots
  <2>2. HeldByWorker(n) => n \in residue'
    BY <1>4, <2>1 DEF HeldByWorker, Settle
  <2> QED
    BY <1>4, <2>1, <2>2 DEF Accounted, HeldByReplay, HeldByThread, HeldByQueue, Settle
<1>5. CASE RemoveJson \/ Recover
  <2>1. Accounted(n) /\ ~HeldByWorker(n)
    BY <1>5, AccountedOneByOne DEF RemoveJson, Recover, HeldByWorker
  <2> QED
    BY <1>5, <2>1
    DEF Accounted, HeldByReplay, HeldByThread, HeldByQueue, RemoveJson, Recover
<1> QED
  BY <1>1, <1>2, <1>3, <1>4, <1>5 DEF WorkerStep

LEMMA StepAccounts ==
  ASSUME TypeOK, FilesAccounted, [Next]_vars
  PROVE  FilesAccounted'
<1>1. CASE ClearBegins \/ ClearEnds
  BY <1>1 DEF ClearBegins, ClearEnds, FilesAccounted, FilesOnDisk, Owned,
     enqueueVars, workerVars, diskVars
<1>2. CASE ClearFile
  <2> SUFFICES ASSUME NEW n \in Slots, wav'[n] # NoSegment
               PROVE  Accounted(n)'
    BY AccountedOneByOne DEF FilesAccounted, FilesOnDisk, Owned, Accounted,
       HeldByReplay, HeldByThread, HeldByQueue, HeldByWorker
  <2>1. wav[n] # NoSegment /\ (n \in residue => n \in residue')
    BY <1>2 DEF ClearFile, TypeOK
  <2>2. Accounted(n)
    BY <2>1, AccountedOneByOne
  <2> QED
    BY <1>2, <2>1, <2>2 DEF ClearFile, Accounted, HeldByReplay, HeldByThread,
       HeldByQueue, HeldByWorker, enqueueVars, workerVars
<1>3. CASE Crash
  <2>1. \A n \in ListPending : [seg |-> wav[n], seq |-> n].seq = n
    OBVIOUS
  <2>2. \A n \in ListPending : n \in {job.seq : job \in replay'}
    BY <1>3, <2>1 DEF Crash
  <2> QED
    BY <1>3, <2>2 DEF Crash, FilesAccounted, FilesOnDisk, Owned
<1>4. CASE UNCHANGED vars
  BY <1>4 DEF vars, enqueueVars, workerVars, diskVars, FilesAccounted,
     FilesOnDisk, Owned
<1> QED
  BY <1>1, <1>2, <1>3, <1>4, PrepareAccounts, SendAccounts, ReplayAccounts,
     WorkerAccounts DEF Next, ThreadStep, ClearSpill

(* Nothing takes up the disk quota that nobody remembers: a spill file     *)
(* belongs to a thread, a queued job, the worker or the replay, or was left *)
(* behind by one of the known exits, whatever threads, cancellations and   *)
(* crashes do (enqueue_segment, process_one_segment, clear_all).           *)
THEOREM NoFileForgotten == Spec => []FilesAccounted
<1>1. Init => FilesAccounted
  BY DEF Init, FilesAccounted, FilesOnDisk
<1>2. TypeOK /\ FilesAccounted /\ [Next]_vars => FilesAccounted'
  BY StepAccounts
<1> QED
  BY <1>1, <1>2, TypeCorrect, PTL DEF Spec

-----------------------------------------------------------------------------
(* Each job keeps its own file.                                            *)

(* The number of a new spill file belongs to no complete pair. *)
LEMMA NextSeqIsNew ==
  ASSUME TypeOK, NEW k \in Slots, IsNextSeq(k)
  PROVE  k \notin ListPending
<1>1. ListPending \subseteq Slots
  BY DEF TypeOK, ListPending
<1> QED
  BY <1>1 DEF IsNextSeq, Slots

FilesOwned == EachStored /\ Apart

(* A thread that changes only itself, and holds nothing it did not hold. *)
LEMMA ThreadKeepsFiles ==
  ASSUME FilesOwned, NEW t \in Threads,
         \A u \in Threads \ {t} : thread'[u] = thread[u],
         UNCHANGED <<replay, queue, worker, wav, meta>>,
         thread'[t].pc \notin {"idle", "list"} => thread'[t].seg # NoSegment,
         thread'[t].pc \in {"prepare", "number", "hold"} => thread'[t].seq = 0,
         Holding(t)' => /\ Holding(t)
                        /\ thread'[t].seq = thread[t].seq
                        /\ thread'[t].seg = thread[t].seg
                        /\ thread'[t].pc # "wav" => thread[t].pc # "wav"
                        /\ thread'[t].pc \notin {"wav", "json"} =>
                             thread[t].pc \notin {"wav", "json"}
  PROVE  FilesOwned'
<1>1. EachStored'
  <2>1. ASSUME NEW u \in Threads  PROVE Holding(u)' => 
           /\ Holding(u)
           /\ thread'[u].seq = thread[u].seq /\ thread'[u].seg = thread[u].seg
           /\ thread'[u].pc # "wav" => thread[u].pc # "wav"
           /\ thread'[u].pc \notin {"wav", "json"} => thread[u].pc \notin {"wav", "json"}
    BY DEF Holding
  <2> QED
    BY <2>1 DEF FilesOwned, EachStored, OnDisk, Stored, InHand, ListPending
<1>2. Apart'
  <2>1. ASSUME NEW u \in Threads
        PROVE  Holding(u)' => Holding(u) /\ thread'[u].seq = thread[u].seq
    BY DEF Holding
  <2> QED
    BY <2>1 DEF FilesOwned, Apart, NotReplayed, OnDisk, InHand
<1> QED
  BY <1>1, <1>2 DEF FilesOwned

(* What was stored still is when a file that is not its own is changed. *)
LEMMA StoredApart ==
  ASSUME NEW k, NEW job, Stored(job), job.seq # k, ListPending \subseteq Slots,
         \A n \in Slots \ {k} : wav'[n] = wav[n] /\ (n \in meta => n \in meta')
  PROVE  Stored(job)'
BY DEF Stored, ListPending

LEMMA PrepareKeepsFiles ==
  ASSUME TypeOK, NumberedOnDisk, FilesOwned, ~shared', NEW p \in Producers,
         Record(p) \/ Prepare(p) \/ Spill(p)
  PROVE  FilesOwned'
<1>0. p \in Threads /\ thread[p] \in ThreadStates
  BY DEF Threads, TypeOK
<1>a. /\ thread[p].pc \in {"prepare", "number", "hold"} => thread[p].seq = 0
      /\ thread[p].pc \notin {"idle", "list"} => thread[p].seg # NoSegment
  BY <1>0 DEF FilesOwned, EachStored
<1> USE DEF workerVars, diskVars
<1>1. CASE Record(p)
  <2>1. /\ thread'[p] = [pc |-> "prepare", seg |-> recorded + 1, seq |-> 0]
        /\ \A u \in Threads \ {p} : thread'[u] = thread[u]
    BY <1>0, <1>1, Becomes DEF Record
  <2>2. ~Holding(p)' /\ thread'[p].seq = 0 /\ thread'[p].seg # NoSegment
    BY <2>1, QueueAssumption DEF Holding, TypeOK
  <2> QED
    BY <1>0, <1>1, <2>1, <2>2, ThreadKeepsFiles DEF Record
<1>2. CASE PrepareInMemory(p)
  <2>1. /\ ~Holding(p)' /\ thread'[p].seq = 0
        /\ thread'[p].seg # NoSegment
        /\ \A u \in Threads \ {p} : thread'[u] = thread[u]
    BY <1>0, <1>2, <1>a, Moves DEF PrepareInMemory, Holding
  <2> QED
    BY <1>0, <1>2, <2>1, ThreadKeepsFiles DEF PrepareInMemory
<1>3. CASE PrepareOnDisk(p)
  <2>1. /\ ~Holding(p)' /\ thread'[p].seq = 0
        /\ thread'[p].seg # NoSegment
        /\ \A u \in Threads \ {p} : thread'[u] = thread[u]
    BY <1>0, <1>3, <1>a, Moves DEF PrepareOnDisk, Holding
  <2> QED
    BY <1>0, <1>3, <2>1, ThreadKeepsFiles DEF PrepareOnDisk
<1>4. CASE RefuseDiskFull(p)
  <2>1. thread'[p] = Idle /\ \A u \in Threads \ {p} : thread'[u] = thread[u]
    BY <1>0, <1>4, Becomes DEF RefuseDiskFull
  <2>2. ~Holding(p)' /\ thread'[p].pc = "idle"
    BY <2>1 DEF Holding, Idle
  <2> QED
    BY <1>0, <1>4, <2>1, <2>2, ThreadKeepsFiles DEF RefuseDiskFull
<1>5. CASE Hold(p)
  <2>1. /\ ~Holding(p)' /\ thread'[p].seq = 0
        /\ thread'[p].seg # NoSegment
        /\ \A u \in Threads \ {p} : thread'[u] = thread[u]
    BY <1>0, <1>5, <1>a, Moves DEF Hold, Holding
  <2> QED
    BY <1>0, <1>5, <2>1, ThreadKeepsFiles DEF Hold
<1>6. CASE TakeNumber(p)
  <2>1. PICK k \in Slots :
          /\ IsNextSeq(k)
          /\ thread' = [thread EXCEPT ![p].pc = "wav", ![p].seq = k]
    BY <1>6 DEF TakeNumber
  <2>2. /\ thread'[p].pc = "wav" /\ thread'[p].seq = k
        /\ thread'[p].seg = thread[p].seg
        /\ \A u \in Threads \ {p} : thread'[u] = thread[u]
    BY <1>0, <2>1, Numbered
  <2>3. k \notin ListPending /\ k # 0
    BY <2>1, NextSeqIsNew DEF Slots
  <2>4. /\ UNCHANGED <<replay, queue, worker, wav, meta>>
        /\ At("wav") \cup At("json") = {}
    BY <1>6 DEF TakeNumber
  <2>5. \A u \in Threads : Holding(u) => thread[u].seq # k
    <3>1. ASSUME NEW u \in Threads, Holding(u)
          PROVE  thread[u].seq \in ListPending
      <4>1. thread[u].pc \notin {"wav", "json", "idle", "list"}
        BY <2>4, <3>1 DEF At, Holding
      <4>2. /\ thread[u].seq \in meta /\ wav[thread[u].seq] = thread[u].seg
            /\ thread[u].seg # NoSegment
        BY <3>1, <4>1 DEF FilesOwned, EachStored
      <4> QED
        BY <4>2 DEF ListPending
    <3> QED
      BY <2>3, <3>1
  <2>6. EachStored'
    <3>1. thread[p].seg # NoSegment
      BY <1>6, <1>a DEF TakeNumber
    <3> QED
      BY <1>0, <2>2, <2>4, <3>1
      DEF FilesOwned, EachStored, Holding, OnDisk, Stored, InHand, ListPending
  <2>7. Apart'
    <3>1. /\ NotReplayed(k)
          /\ \A i \in 1 .. Len(queue) : queue[i].seq # k
          /\ InHand => worker.job.seq # k
      BY <2>3 DEF FilesOwned, EachStored, OnDisk, Stored, NotReplayed
    <3> QED
      BY <1>0, <2>2, <2>4, <2>5, <3>1
      DEF FilesOwned, Apart, NotReplayed, Holding, OnDisk, InHand
  <2> QED
    BY <2>6, <2>7 DEF FilesOwned
<1>9. CASE WriteWav(p)
  <2> DEFINE k == thread[p].seq
  <2>1. /\ thread'[p].pc = "json" /\ thread'[p].seq = k
        /\ thread'[p].seg = thread[p].seg
        /\ \A u \in Threads \ {p} : thread'[u] = thread[u]
    BY <1>0, <1>9, Moves DEF WriteWav
  <2>2. k \in Slots /\ Holding(p)
    BY <1>0, <1>9 DEF WriteWav, NumberedOnDisk, ThreadStates, Holding
  <2>3. /\ \A n \in Slots \ {k} : wav'[n] = wav[n]
        /\ wav'[k] = thread[p].seg
        /\ UNCHANGED <<replay, queue, worker, meta>>
    BY <1>9, <2>2 DEF TypeOK, WriteWav
  <2>4. /\ NotReplayed(k)
        /\ \A i \in 1 .. Len(queue) : queue[i].seq # k
        /\ InHand => worker.job.seq # k
        /\ \A u \in Threads \ {p} : Holding(u) => thread[u].seq # k
    BY <1>0, <2>2 DEF FilesOwned, Apart
  <2>5. /\ ListPending \subseteq Slots
        /\ \A u \in Threads : Holding(u) => thread[u].seq \in Slots
    BY DEF TypeOK, ListPending, ThreadStates, Holding
  <2> HIDE DEF k
  <2>6. EachStored'
    <3>1. \A job : Stored(job) /\ job.seq # k => Stored(job)'
      BY <2>3, <2>5, StoredApart
    <3>2. thread[p].seg # NoSegment
      BY <1>9, <1>a DEF WriteWav
    <3>3. ASSUME NEW u \in Threads \ {p}, Holding(u)'
          PROVE  /\ Holding(u)
                 /\ wav'[thread'[u].seq] = wav[thread[u].seq]
      BY <2>1, <2>3, <2>4, <2>5, <3>3 DEF Holding
    <3> QED
      BY <1>0, <2>1, <2>3, <2>4, <3>1, <3>2, <3>3
      DEF FilesOwned, EachStored, NotReplayed, OnDisk, InHand
  <2>7. Apart'
    BY <1>0, <2>1, <2>2, <2>3, <2>4
    DEF FilesOwned, Apart, NotReplayed, Holding, OnDisk, InHand
  <2> QED
    BY <2>6, <2>7 DEF FilesOwned
<1>7. CASE WriteJson(p)
  <2>1. /\ thread'[p].pc = "admit" /\ thread'[p].seq = thread[p].seq
        /\ thread'[p].seg = thread[p].seg
        /\ \A u \in Threads \ {p} : thread'[u] = thread[u]
    BY <1>0, <1>7, Moves DEF WriteJson
  <2>2. /\ meta' = meta \cup {thread[p].seq}
        /\ UNCHANGED <<wav, replay, queue, worker>>
    BY <1>7 DEF WriteJson
  <2>3. Holding(p) /\ thread[p].pc = "json"
    BY <1>0, <1>7 DEF WriteJson, NumberedOnDisk, Holding
  <2>4. ListPending \subseteq ListPending' /\ \A job : Stored(job) => Stored(job)'
    BY <2>2 DEF Stored, ListPending
  <2>5. \A u \in Threads : Holding(u)' =>
           /\ Holding(u) /\ thread'[u].seq = thread[u].seq
           /\ thread'[u].seg = thread[u].seg
    BY <2>1, <2>3 DEF Holding
  <2>6. EachStored'
    <3>1. wav[thread[p].seq] = thread[p].seg /\ thread[p].seg # NoSegment
      BY <1>0, <1>a, <2>3 DEF FilesOwned, EachStored
    <3> QED
      BY <1>0, <2>1, <2>2, <2>4, <2>5, <3>1
      DEF FilesOwned, EachStored, OnDisk, InHand
  <2>7. Apart'
    BY <2>2, <2>5 DEF FilesOwned, Apart, NotReplayed, OnDisk, InHand
  <2> QED
    BY <2>6, <2>7 DEF FilesOwned
<1>8. CASE SpillFails(p)
  <2>1. thread'[p].pc = "hold" /\ thread'[p].seq = 0
        /\ \A u \in Threads \ {p} : thread'[u] = thread[u]
    BY <1>0, <1>8, Numbered DEF SpillFails
  <2>2. ~Holding(p)' /\ thread'[p].seg # NoSegment
    BY <1>0, <1>8, <1>a, Numbered DEF SpillFails, Holding
  <2> QED
    BY <1>0, <1>8, <2>1, <2>2, ThreadKeepsFiles DEF SpillFails
<1> QED
  BY <1>1, <1>2, <1>3, <1>4, <1>5, <1>6, <1>7, <1>8, <1>9 DEF Prepare, Spill

(* A thread that has sent its job, or was refused, holds nothing. *)
LEMMA AfterSendRests ==
  ASSUME TypeOK, NEW t \in Threads, thread' = [thread EXCEPT ![t] = AfterSend(t)]
  PROVE  /\ thread'[t].pc = IF t = Boot THEN "list" ELSE "idle"
         /\ \A u \in Threads \ {t} : thread'[u] = thread[u]
<1>1. AfterSend(t).pc = IF t = Boot THEN "list" ELSE "idle"
  BY DEF AfterSend, Idle
<1> QED
  BY <1>1 DEF TypeOK

LEMMA SendKeepsFiles ==
  ASSUME TypeOK, FilesOwned, NEW t \in Threads, SendJob(t)
  PROVE  FilesOwned'
<1> USE DEF workerVars, diskVars
<1>0. thread[t].pc \notin {"idle", "list"} /\ thread[t].seg # NoSegment
  <2>1. thread[t].pc \in {"admit", "count", "send"}
    BY DEF SendJob, Admit, RefuseQueueFull, Count, Send
  <2> QED
    BY <2>1 DEF FilesOwned, EachStored
<1>1. CASE Admit(t)
  <2>1. /\ thread'[t].pc = "count" /\ thread'[t].seq = thread[t].seq
        /\ thread'[t].seg = thread[t].seg
        /\ \A u \in Threads \ {t} : thread'[u] = thread[u]
    BY <1>1, Moves DEF Admit
  <2>2. thread[t].pc = "admit" /\ UNCHANGED <<replay, queue, worker, wav, meta>>
    BY <1>1 DEF Admit
  <2> QED
    BY <1>0, <2>1, <2>2, ThreadKeepsFiles DEF Holding
<1>2. CASE RefuseQueueFull(t)
  <2>1. /\ thread'[t].pc \in {"idle", "list"}
        /\ \A u \in Threads \ {t} : thread'[u] = thread[u]
    BY <1>2, AfterSendRests DEF RefuseQueueFull
  <2>2. UNCHANGED <<replay, queue, worker, wav, meta>> /\ ~Holding(t)'
    BY <1>2, <2>1 DEF RefuseQueueFull, Holding
  <2> QED
    BY <2>1, <2>2, ThreadKeepsFiles
<1>3. CASE Count(t)
  <2>1. /\ thread'[t].pc = "send" /\ thread'[t].seq = thread[t].seq
        /\ thread'[t].seg = thread[t].seg
        /\ \A u \in Threads \ {t} : thread'[u] = thread[u]
    BY <1>3, Moves DEF Count
  <2>2. thread[t].pc = "count" /\ UNCHANGED <<replay, queue, worker, wav, meta>>
    BY <1>3 DEF Count
  <2> QED
    BY <1>0, <2>1, <2>2, ThreadKeepsFiles DEF Holding
<1>4. CASE Send(t)
  <2> DEFINE job == [seg |-> thread[t].seg, seq |-> thread[t].seq]
  <2>1. job \in Jobs /\ job.seg = thread[t].seg /\ job.seq = thread[t].seq
    BY DEF TypeOK, ThreadStates, Jobs
  <2>2. /\ Len(queue) \in Nat /\ Len(queue') = Len(queue) + 1
        /\ \A i \in 1 .. Len(queue) : queue'[i] = queue[i]
        /\ queue'[Len(queue) + 1] = job
    BY <1>4, <2>1, Appended DEF Send, TypeOK
  <2> HIDE DEF job
  <2>3. /\ thread'[t].pc \in {"idle", "list"}
        /\ \A u \in Threads \ {t} : thread'[u] = thread[u]
    BY <1>4, AfterSendRests DEF Send
  <2>4. UNCHANGED <<replay, worker, wav, meta>> /\ thread[t].pc = "send"
    BY <1>4 DEF Send
  <2>5. job.seq # 0 => Holding(t) /\ Stored(job)
    BY <1>0, <2>1, <2>4 DEF FilesOwned, EachStored, Holding, Stored, ListPending, TypeOK
  <2>6. \A u \in Threads : Holding(u)' =>
           u # t /\ Holding(u) /\ thread'[u] = thread[u] /\ thread[u].seq # job.seq
    <3>1. ASSUME NEW u \in Threads, Holding(u)'
          PROVE  u # t /\ Holding(u) /\ thread'[u] = thread[u] /\ thread[u].seq # 0
      BY <2>3, <3>1 DEF Holding
    <3>2. ASSUME NEW u \in Threads, Holding(u), u # t, job.seq # 0
          PROVE  thread[u].seq # job.seq
      BY <2>1, <2>5, <3>2 DEF FilesOwned, Apart
    <3> QED
      BY <3>1, <3>2
  <2>7. \A i \in 1 .. Len(queue') : i = Len(queue) + 1 \/ i \in 1 .. Len(queue)
    BY <2>2
  <2>8. EachStored'
    BY <2>2, <2>3, <2>4, <2>5, <2>6, <2>7
    DEF FilesOwned, EachStored, OnDisk, Stored, InHand, ListPending
  <2>9. Apart'
    <3>1. job.seq # 0 =>
            /\ NotReplayed(job.seq)
            /\ \A i \in 1 .. Len(queue) : queue[i].seq # job.seq
            /\ InHand => worker.job.seq # job.seq
      BY <2>1, <2>5 DEF FilesOwned, Apart
    <3> QED
      BY <2>2, <2>4, <2>6, <2>7, <3>1 DEF FilesOwned, Apart, NotReplayed, OnDisk, InHand
  <2> QED
    BY <2>8, <2>9 DEF FilesOwned
<1> QED
  BY <1>1, <1>2, <1>3, <1>4 DEF SendJob

LEMMA ReplayKeepsFiles ==
  ASSUME TypeOK, BootAlone, FilesOwned, Replay
  PROVE  FilesOwned'
<1>0. Boot \in Threads
  BY DEF Threads
<1> USE DEF workerVars, diskVars
<1>1. CASE ReplayNext
  <2>1. PICK job \in replay :
          /\ replay' = replay \ {job}
          /\ thread' = [thread EXCEPT ![Boot] =
                          [pc |-> "admit", seg |-> job.seg, seq |-> job.seq]]
    BY <1>1 DEF ReplayNext
  <2>2. /\ thread'[Boot] = [pc |-> "admit", seg |-> job.seg, seq |-> job.seq]
        /\ \A u \in Threads \ {Boot} : thread'[u] = thread[u] /\ thread'[u].pc = "idle"
    <3>1. /\ thread'[Boot] = [pc |-> "admit", seg |-> job.seg, seq |-> job.seq]
          /\ \A u \in Threads \ {Boot} : thread'[u] = thread[u]
      BY <1>0, <2>1, Becomes
    <3>2. \A u \in Threads \ {Boot} : thread[u].pc = "idle"
      BY <1>1 DEF ReplayNext, BootAlone, Threads
    <3> QED
      BY <3>1, <3>2
  <2>3. /\ thread'[Boot].pc = "admit"
        /\ thread'[Boot].seg = job.seg /\ thread'[Boot].seq = job.seq
    BY <2>2
  <2>4. UNCHANGED <<queue, worker, wav, meta>>
    BY <1>1 DEF ReplayNext
  <2>5. Stored(job) /\ job.seq \in meta /\ job.seg # NoSegment
    BY DEF FilesOwned, EachStored, Stored, ListPending
  <2>6. EachStored'
    BY <1>0, <2>1, <2>2, <2>3, <2>4, <2>5
    DEF FilesOwned, EachStored, Holding, OnDisk, Stored, InHand, ListPending
  <2>7. Apart'
    <3>1. /\ \A i \in 1 .. Len(queue) : OnDisk(i) => queue[i].seq # job.seq
          /\ InHand => worker.job.seq # job.seq
          /\ \A other \in replay' : other.seq # job.seq
      BY <2>1 DEF FilesOwned, Apart, NotReplayed
    <3>2. job.seq # 0
      BY DEF TypeOK, Slots
    <3>3. \A t \in Threads : Holding(t)' => t = Boot /\ thread'[t].seq = job.seq
      BY <2>2, <2>3 DEF Holding
    <3> QED
      BY <1>0, <2>1, <2>4, <3>1, <3>2, <3>3
      DEF FilesOwned, Apart, NotReplayed, OnDisk, InHand
  <2> QED
    BY <2>6, <2>7 DEF FilesOwned
<1>2. CASE ReplayDone
  <2>1. /\ thread'[Boot] = Idle
        /\ \A u \in Threads \ {Boot} : thread'[u] = thread[u]
    BY <1>0, <1>2, Becomes DEF ReplayDone
  <2>2. thread'[Boot].pc = "idle" /\ ~Holding(Boot)'
    BY <2>1 DEF Holding, Idle
  <2> QED
    BY <1>0, <1>2, <2>1, <2>2, ThreadKeepsFiles DEF ReplayDone
<1> QED
  BY <1>1, <1>2 DEF Replay

LEMMA WorkerKeepsFiles ==
  ASSUME TypeOK, FilesOwned, WorkerStep, ~robbed'
  PROVE  FilesOwned'
<1> USE DEF workerVars, diskVars, enqueueVars, bounds
<1>0. worker \in WorkerStates /\ ListPending \subseteq Slots /\ meta \subseteq Slots
  BY DEF TypeOK, ListPending
<1>1. CASE Receive
  <2>1. /\ Head(queue) = queue[1] /\ Len(queue) \in Nat \ {0}
        /\ Len(queue') = Len(queue) - 1
        /\ \A i \in 1 .. Len(queue) - 1 : queue'[i] = queue[i + 1]
    BY <1>1, HeadAndTail DEF Receive, TypeOK
  <2>2. \A i \in 1 .. Len(queue') :
          i + 1 \in 1 .. Len(queue) /\ queue'[i] = queue[i + 1] /\ i + 1 # 1
    BY <2>1
  <2>3. worker'.pc = "load" /\ worker'.job = queue[1] /\ 1 \in 1 .. Len(queue)
    BY <1>1, <2>1 DEF Receive
  <2>4. UNCHANGED <<thread, replay, wav, meta>> /\ ~InHand
    BY <1>1 DEF Receive, InHand
  <2>5. EachStored'
    BY <2>2, <2>3, <2>4
    DEF FilesOwned, EachStored, Holding, OnDisk, Stored, InHand, ListPending
  <2>6. Apart'
    <3>1. \A i, j \in 1 .. Len(queue') : i + 1 = j + 1 => i = j
      BY <2>1
    <3>2. \A i \in 1 .. Len(queue') : OnDisk(i)' =>
            /\ NotReplayed(queue'[i].seq)
            /\ \A j \in 1 .. Len(queue') : queue'[i].seq = queue'[j].seq => i = j
            /\ queue[1].seq # queue'[i].seq
      BY <2>2, <2>3, <3>1 DEF FilesOwned, Apart, OnDisk
    <3>3. InHand' => NotReplayed(queue[1].seq)
      BY <2>3 DEF FilesOwned, Apart, OnDisk, InHand
    <3>4. \A t \in Threads : Holding(t) =>
            /\ \A i \in 1 .. Len(queue') : queue'[i].seq # thread[t].seq
            /\ queue[1].seq # thread[t].seq
      BY <2>2, <2>3 DEF FilesOwned, Apart
    <3> QED
      BY <2>3, <2>4, <3>2, <3>3, <3>4
      DEF FilesOwned, Apart, NotReplayed, Holding, OnDisk, InHand
  <2> QED
    BY <2>5, <2>6 DEF FilesOwned
<1>2. CASE Load \/ Insert \/ Fail \/ Settle \/ Recover
  <2>1. UNCHANGED <<thread, replay, queue, wav, meta>>
    BY <1>2 DEF Load, Insert, Fail, Settle, Recover
  <2>2. /\ InHand' => InHand /\ worker'.job = worker.job
        /\ worker'.pc # "unlink"
    <3>1. CASE Load \/ Insert \/ Fail
      <4>1. /\ worker'.job = worker.job /\ worker.pc \in {"load", "work", "typed"}
            /\ worker'.pc \in {"work", "typed", "fail"}
        BY <1>0, <3>1 DEF Load, Insert, Fail, WorkerStates
      <4> QED
        BY <4>1 DEF InHand
    <3>2. CASE Settle \/ Recover
      <4>1. worker'.pc \in {"recover", "recv"}
        BY <1>0, <3>2 DEF Settle, Recover, WorkerStates, AtRest
      <4> QED
        BY <4>1 DEF InHand
    <3> QED
      BY <1>2, <3>1, <3>2
  <2>3. worker'.pc = "work" => worker'.loaded = worker'.job.seg
    <3>1. CASE Load
      <4>1. worker'.job = worker.job
            /\ worker'.loaded = IF worker.job.seq = 0 THEN worker.job.seg
                                ELSE wav[worker.job.seq]
        BY <1>0, <3>1 DEF Load, WorkerStates
      <4>2. worker.job.seq # 0 => wav[worker.job.seq] = worker.job.seg
        BY <3>1 DEF Load, FilesOwned, EachStored, InHand, Stored
      <4> QED
        BY <4>1, <4>2
    <3>2. CASE Insert \/ Fail \/ Settle \/ Recover
      <4>1. worker'.pc \in {"typed", "fail", "recover", "recv"}
        BY <1>0, <3>2 DEF Insert, Fail, Settle, Recover, AtRest, WorkerStates
      <4> QED
        BY <4>1
    <3> QED
      BY <1>2, <3>1, <3>2
  <2>4. EachStored'
    BY <2>1, <2>2, <2>3
    DEF FilesOwned, EachStored, Holding, OnDisk, Stored, ListPending
  <2>5. Apart'
    BY <2>1, <2>2 DEF FilesOwned, Apart, NotReplayed, Holding, OnDisk
  <2> QED
    BY <2>4, <2>5 DEF FilesOwned
<1>3. CASE Discard \/ Release
  <2> DEFINE k == worker.job.seq
  <2>1. /\ UNCHANGED <<thread, replay, queue, meta>> /\ worker'.job = worker.job
        /\ worker'.pc = IF k = 0 THEN "settle" ELSE "unlink"
    BY <1>0, <1>3 DEF Discard, Release, GiveBack, WorkerStates
  <2>2. ~InHand' /\ worker'.pc # "work"
    BY <2>1 DEF InHand
  <2>3. CASE k = 0
    <3>1. UNCHANGED wav /\ worker'.pc # "unlink"
      BY <1>3, <2>1, <2>3 DEF Discard, Release, GiveBack
    <3> QED
      BY <2>1, <2>2, <3>1 DEF FilesOwned, EachStored, Apart, NotReplayed, Holding,
         OnDisk, Stored, ListPending
  <2>4. CASE k # 0
    <3>1. InHand
      BY <1>3, <2>4 DEF InHand, Discard, Release
    <3>2. \A n \in Slots \ {k} : wav'[n] = wav[n] /\ (n \in meta => n \in meta')
      BY <1>3, <2>1, <2>4 DEF Discard, Release, GiveBack, RemoveWav, TypeOK
    <3> HIDE DEF k
    <3>4. /\ NotReplayed(k)
          /\ \A i \in 1 .. Len(queue) : OnDisk(i) => queue[i].seq # k
          /\ \A t \in Threads : Holding(t) => thread[t].seq # k
      BY <3>1 DEF FilesOwned, Apart, k
    <3>5. \A t \in Threads : Holding(t) => thread[t].seq \in Slots
      BY DEF TypeOK, ThreadStates, Holding
    <3>6. EachStored'
      <4>1. \A job : Stored(job) /\ job.seq # k => Stored(job)'
        BY <1>0, <3>2, StoredApart
      <4> QED
        BY <2>1, <2>2, <3>2, <3>4, <3>5, <4>1
        DEF FilesOwned, EachStored, NotReplayed, Holding, OnDisk
    <3>7. Apart'
      <4>1. worker'.job.seq = k
        BY <2>1 DEF k
      <4> QED
        BY <2>1, <2>2, <3>4, <4>1 DEF FilesOwned, Apart, NotReplayed, Holding, OnDisk
    <3> QED
      BY <3>6, <3>7 DEF FilesOwned
  <2> QED
    BY <2>3, <2>4
<1>4. CASE RemoveJson
  <2> DEFINE k == worker.job.seq
  <2>1. /\ UNCHANGED <<thread, replay, queue, wav>> /\ worker.pc = "unlink"
        /\ worker'.pc = "settle"
    BY <1>0, <1>4 DEF RemoveJson, WorkerStates
  <2>2. ~InHand' /\ worker'.pc \notin {"work", "unlink"}
    BY <2>1 DEF InHand
  <2>3. \/ meta' = meta
        \/ meta' = meta \ {k} /\ ~Waits(k)
    BY <1>4 DEF RemoveJson
  <2> HIDE DEF k
  <2>4. CASE meta' = meta
    BY <2>1, <2>2, <2>4
    DEF FilesOwned, EachStored, Apart, NotReplayed, Holding, OnDisk, Stored, ListPending
  <2>5. CASE meta' = meta \ {k} /\ ~Waits(k)
    <3>1. /\ \A i \in 1 .. Len(queue) : queue[i].seq # k
          /\ \A t \in Threads :
                Holding(t) /\ thread[t].pc \notin {"wav", "json"} => thread[t].seq # k
      BY <2>5 DEF Waits, Holding
    <3>2. NotReplayed(k)
      BY <2>1 DEF FilesOwned, Apart, k
    <3>3. \A job : Stored(job) /\ job.seq # k => Stored(job)'
      BY <1>0, <2>1, <2>5, StoredApart
    <3>4. EachStored'
      BY <2>1, <2>2, <2>5, <3>1, <3>2, <3>3
      DEF FilesOwned, EachStored, NotReplayed, Holding, OnDisk
    <3>5. Apart'
      BY <2>1, <2>2 DEF FilesOwned, Apart, NotReplayed, Holding, OnDisk
    <3> QED
      BY <3>4, <3>5 DEF FilesOwned
  <2> QED
    BY <2>3, <2>4, <2>5
<1> QED
  BY <1>1, <1>2, <1>3, <1>4 DEF WorkerStep

LEMMA CrashKeepsFiles ==
  ASSUME TypeOK, Crash
  PROVE  FilesOwned'
<1>1. /\ \A t \in Threads : thread'[t].pc \in {"idle", "list"}
      /\ queue' = <<>> /\ worker'.pc = "recv"
      /\ UNCHANGED <<wav, meta>>
  BY DEF Crash, Idle, AtRest
<1>2. \A job \in replay' : \E n \in ListPending : job.seq = n /\ job.seg = wav[n]
                                          /\ job = [seg |-> wav[n], seq |-> n]
  BY DEF Crash
<1>3. Len(queue') = 0
  BY <1>1
<1>4. \A job \in replay' : Stored(job)'
  BY <1>1, <1>2 DEF Stored, ListPending
<1>5. \A job, other \in replay' : job.seq = other.seq => job = other
  BY <1>2
<1> QED
  BY <1>1, <1>3, <1>4, <1>5
  DEF FilesOwned, EachStored, Apart, Holding, OnDisk, InHand

(* A clearing under way has been counted. *)
LEMMA ClearsCounted ==
  ASSUME TypeOK, clears = 0 => ~clearing, [Next]_vars, clears' = 0
  PROVE  clears = 0 /\ ~clearing' /\ ~ClearSpill
<1>0. clears \in Nat
  BY DEF TypeOK
<1> USE DEF bounds
<1>1. CASE ClearSpill
  BY <1>0, <1>1 DEF ClearSpill, ClearBegins, ClearFile, ClearEnds
<1>2. CASE Crash
  BY <1>1, <1>2 DEF Crash
<1>3. CASE WorkerStep
  BY <1>1, <1>3 DEF WorkerStep, Receive, Load, Discard, Insert, Release, RemoveJson,
     Fail, Settle, Recover, GiveBack
<1>4. CASE \E p \in Producers : Record(p) \/ Prepare(p) \/ Spill(p)
  BY <1>1, <1>4 DEF Record, Prepare, Spill, PrepareInMemory, PrepareOnDisk,
     RefuseDiskFull, Hold, TakeNumber, WriteWav, WriteJson, SpillFails
<1>6. CASE Replay
  BY <1>1, <1>6 DEF Replay, ReplayNext, ReplayDone
<1>7. CASE \E t \in Threads : SendJob(t)
  <2>1. ASSUME NEW t \in Threads, SendJob(t)
        PROVE  clearing' = clearing /\ clears' = clears
    BY <2>1 DEF SendJob, Admit, RefuseQueueFull, Count, Send
  <2> QED
    BY <1>1, <1>7, <2>1
<1>5. CASE UNCHANGED vars
  BY <1>1, <1>5 DEF vars
<1> QED
  BY <1>1, <1>2, <1>3, <1>4, <1>5, <1>6, <1>7 DEF Next, ThreadStep

(* Once the files are disturbed nothing is promised of them. *)
LEMMA StaysDisturbed ==
  ASSUME TypeOK, clears = 0 => ~clearing, [Next]_vars, FilesUndisturbed'
  PROVE  FilesUndisturbed
<1>1. clears = 0 /\ ~ClearSpill
  BY ClearsCounted DEF FilesUndisturbed
<1> USE DEF bounds, diskVars, vars
<1>2. robbed => robbed'
  BY DEF Next, ThreadStep, Record, Prepare, Spill, SendJob, Replay, PrepareInMemory,
     PrepareOnDisk, RefuseDiskFull, Hold, TakeNumber, WriteWav, WriteJson, SpillFails,
     ReplayNext, ReplayDone, Admit, RefuseQueueFull, Count, Send, WorkerStep, Receive,
     Load, Discard, Insert, Release, RemoveJson, Fail, Settle, Recover, GiveBack,
     ClearSpill, ClearBegins, ClearFile, ClearEnds, Crash
<1>3. shared => shared'
  BY DEF Next, ThreadStep, Record, Prepare, Spill, SendJob, Replay, PrepareInMemory,
     PrepareOnDisk, RefuseDiskFull, Hold, TakeNumber, WriteWav, WriteJson, SpillFails,
     ReplayNext, ReplayDone, Admit, RefuseQueueFull, Count, Send, WorkerStep, Receive,
     Load, Discard, Insert, Release, RemoveJson, Fail, Settle, Recover, GiveBack,
     ClearSpill, ClearBegins, ClearFile, ClearEnds, Crash
<1> QED
  BY <1>1, <1>2, <1>3 DEF FilesUndisturbed

LEMMA StepKeepsFiles ==
  ASSUME CountInv, FilesKept, [Next]_vars
  PROVE  FilesKept'
<1>1. TypeOK /\ (clears = 0 => ~clearing)
  BY DEF CountInv, FilesKept
<1>2. clears' = 0 => ~clearing'
  BY <1>1, ClearsCounted
<1>3. ASSUME FilesUndisturbed'  PROVE (EachStored /\ Apart)'
  <2>1. FilesOwned /\ ~ClearSpill /\ ~shared' /\ ~robbed'
    BY <1>1, <1>3, ClearsCounted, StaysDisturbed
    DEF FilesKept, FilesOwned, FilesUndisturbed
  <2>2. CASE UNCHANGED vars
    BY <2>1, <2>2 DEF vars, enqueueVars, workerVars, diskVars, bounds, FilesOwned,
       EachStored, Apart, NotReplayed, Holding, OnDisk, InHand, Stored, ListPending
  <2>3. CASE Next
    BY <1>1, <2>1, <2>3, PrepareKeepsFiles, SendKeepsFiles, ReplayKeepsFiles,
       WorkerKeepsFiles, CrashKeepsFiles DEF Next, ThreadStep, CountInv, FilesOwned
  <2> QED
    BY <2>2, <2>3
<1> QED
  BY <1>2, <1>3 DEF FilesKept

LEMMA InitFiles == Init => FilesKept
BY DEF Init, FilesKept, EachStored, Apart, NotReplayed, Idle, AtRest, Holding, OnDisk,
   InHand

(* Until something disturbs the files every one of them belongs to at most *)
(* one job and stays complete until that job's own worker removes it, for  *)
(* any number of enqueueing threads.                                       *)
THEOREM FileInvariant == Spec => []FileInv
<1>1. Init => FilesKept
  BY InitFiles
<1>2. CountInv /\ FilesKept /\ [Next]_vars => FilesKept'
  BY StepKeepsFiles
<1>3. CountInv /\ FilesKept => FileInv
  BY DEF FileInv
<1> QED
  BY <1>1, <1>2, <1>3, CountInvariant, PTL DEF Spec

(* The audio a job is processed with is the audio it was queued for, as    *)
(* long as no cancellation empties the directory under it, no two threads  *)
(* number at once, and no finished job removes the JSON of a number in use *)
(* again (next_seq, spill, delete_pair_for_wav), crashes and replays       *)
(* included.                                                               *)
THEOREM JobsKeepTheirAudio == Spec => []OwnAudio
<1>1. FileInv => OwnAudio
  BY DEF FileInv, FilesKept, EachStored, OwnAudio
<1> QED
  BY <1>1, FileInvariant, PTL

(* No two queued jobs share a spill file, and each finds its own complete, *)
(* under the same conditions.                                              *)
THEOREM QueuedFilesExist == Spec => []JobsHaveTheirFile
<1>1. FileInv => JobsHaveTheirFile
  BY DEF FileInv, FilesKept, EachStored, Apart, OnDisk, Stored, JobsHaveTheirFile,
     DiskJobs
<1> QED
  BY <1>1, FileInvariant, PTL

-----------------------------------------------------------------------------
(* No segment waits twice, whatever happens.                               *)

(* A thread that changes only itself and carries nothing new, while files  *)
(* may go.                                                                 *)
LEMMA ThreadKeepsWaiting ==
  ASSUME WaitKept, NEW t \in Threads,
         \A u \in Threads \ {t} : thread'[u] = thread[u],
         UNCHANGED <<recorded, replay, queue, worker>>,
         Carries(t)' => Carries(t) /\ thread'[t].seg = thread[t].seg,
         thread'[t].pc \in {"prepare", "number", "wav"} =>
           thread[t].pc \in {"prepare", "number", "wav"},
         UNCHANGED wav
  PROVE  WaitKept'
<1>1. ASSUME NEW u \in Threads
      PROVE  /\ Carries(u)' => Carries(u) /\ thread'[u].seg = thread[u].seg
             /\ thread'[u].pc \in {"prepare", "number", "wav"} =>
                  Carries(u)' /\ thread[u].pc \in {"prepare", "number", "wav"}
  BY DEF Carries
<1>2. Distinct'
  BY DEF WaitKept, Distinct, Untyped
<1>3. \A s : NotWaiting(s) => NotWaiting(s)'
  BY DEF NotWaiting, Untyped
<1>4. Carried'
  BY <1>1, <1>3 DEF WaitKept, Carried, Fresh
<1>5. FilesDiffer'
  BY <1>1 DEF WaitKept, FilesDiffer
<1> QED
  BY <1>2, <1>4, <1>5 DEF WaitKept

(* Files that go, while threads, channel and replay stay. *)
LEMMA FilesMayGo ==
  ASSUME WaitKept, UNCHANGED <<recorded, thread, replay, queue>>,
         Untyped' => Untyped /\ worker'.job = worker.job,
         \A n \in Slots : wav'[n] \in {wav[n], NoSegment}
  PROVE  WaitKept'
<1>1. Distinct'
  BY DEF WaitKept, Distinct
<1>2. \A s : NotWaiting(s) => NotWaiting(s)'
  BY DEF NotWaiting
<1>3. Carried'
  BY <1>2 DEF WaitKept, Carried, Fresh, Carries
<1>4. FilesDiffer'
  <2>1. \A t \in Threads :
          thread[t].pc \in {"prepare", "number", "wav"} => thread[t].seg # NoSegment
    BY QueueAssumption DEF WaitKept, Carried, Carries, Fresh, NotWaiting
  <2> QED
    BY <2>1 DEF WaitKept, FilesDiffer
<1> QED
  BY <1>1, <1>3, <1>4 DEF WaitKept

LEMMA PrepareKeepsWaiting ==
  ASSUME TypeOK, WaitKept, NEW p \in Producers, Record(p) \/ Prepare(p) \/ Spill(p)
  PROVE  WaitKept'
<1>0. p \in Threads
  BY DEF Threads
<1> USE DEF workerVars, diskVars
<1>1. CASE Record(p)
  <2>1. /\ thread'[p] = [pc |-> "prepare", seg |-> recorded + 1, seq |-> 0]
        /\ \A u \in Threads \ {p} : thread'[u] = thread[u]
    BY <1>0, <1>1, Becomes DEF Record
  <2>2. /\ recorded \in Nat /\ recorded' = recorded + 1
        /\ UNCHANGED <<replay, queue, worker, wav>>
    BY <1>1 DEF Record, TypeOK
  <2>3. /\ 1 .. recorded \subseteq 1 .. recorded' /\ recorded' \notin 1 .. recorded
        /\ recorded' \in 1 .. recorded' /\ recorded' # NoSegment
        /\ thread'[p].pc = "prepare" /\ thread'[p].seg = recorded'
    BY <2>1, <2>2, QueueAssumption
  <2>4. \A s : NotWaiting(s) => NotWaiting(s)' /\ s \in 1 .. recorded
    BY <2>2, <2>3 DEF NotWaiting, Untyped
  <2>5. Distinct'
    BY <2>2, <2>3 DEF WaitKept, Distinct, Untyped
  <2>6. Fresh(p)'
    <3>1. /\ \A i \in 1 .. Len(queue) : queue[i].seg # recorded'
          /\ Untyped => worker.job.seg # recorded'
      BY <2>3 DEF WaitKept, Distinct
    <3> QED
      BY <2>2, <2>3, <3>1 DEF Fresh, NotWaiting, Untyped
  <2>7. ASSUME NEW u \in Threads \ {p}
        PROVE  Carries(u)' => Carries(u) /\ thread'[u].seg = thread[u].seg
    BY <2>1 DEF Carries
  <2>8. Carried'
    <3>1. ASSUME NEW t \in Threads, Carries(t)'  PROVE Fresh(t)'
      <4>1. CASE t = p
        BY <2>6, <4>1
      <4>2. CASE t # p
        BY <2>4, <2>7, <3>1, <4>2 DEF WaitKept, Carried, Fresh
      <4> QED
        BY <4>1, <4>2
    <3>2. \A u \in Threads \ {p} : Carries(u)' => thread'[u].seg # thread'[p].seg
      BY <2>3, <2>4, <2>7 DEF WaitKept, Carried, Fresh
    <3>3. \A job \in replay : NotWaiting(job.seg)' /\ job.seg # thread'[p].seg
      BY <2>3, <2>4 DEF WaitKept, Carried
    <3> QED
      BY <2>2, <2>7, <3>1, <3>2, <3>3 DEF WaitKept, Carried
  <2>9. FilesDiffer'
    <3>1. \A u \in Threads \ {p} : thread'[u] = thread[u]
      BY <2>1
    <3>2. \A n \in Slots : wav[n] \in (1 .. recorded) \cup {NoSegment}
      BY DEF WaitKept, FilesDiffer
    <3>3. \A n \in Slots : wav[n] # recorded' /\ wav[n] \in (1 .. recorded') \cup {NoSegment}
      BY <2>3, <3>2
    <3> QED
      BY <2>2, <2>3, <3>1, <3>3 DEF WaitKept, FilesDiffer
  <2> QED
    BY <2>5, <2>8, <2>9 DEF WaitKept
<1>2. CASE PrepareInMemory(p)
  BY <1>0, <1>2, Moves, ThreadKeepsWaiting DEF PrepareInMemory, Carries
<1>3. CASE PrepareOnDisk(p)
  BY <1>0, <1>3, Moves, ThreadKeepsWaiting DEF PrepareOnDisk, Carries
<1>4. CASE RefuseDiskFull(p)
  <2>1. thread'[p] = Idle /\ Idle.pc = "idle"
    BY <1>0, <1>4, Becomes DEF RefuseDiskFull, Idle
  <2> QED
    BY <1>0, <1>4, <2>1, Becomes, ThreadKeepsWaiting DEF RefuseDiskFull, Carries
<1>5. CASE Hold(p)
  BY <1>0, <1>5, Moves, ThreadKeepsWaiting DEF Hold, Carries
<1>9. CASE TakeNumber(p)
  <2>1. PICK k \in Slots : thread' = [thread EXCEPT ![p].pc = "wav", ![p].seq = k]
    BY <1>9 DEF TakeNumber
  <2>2. /\ thread'[p].pc = "wav" /\ thread'[p].seg = thread[p].seg
        /\ \A u \in Threads \ {p} : thread'[u] = thread[u]
    BY <1>0, <2>1, Numbered
  <2>3. /\ thread[p].pc = "number"
        /\ UNCHANGED <<recorded, replay, queue, worker, wav>>
    BY <1>9 DEF TakeNumber
  <2> QED
    BY <1>0, <2>2, <2>3, ThreadKeepsWaiting DEF Carries
<1>6. CASE WriteWav(p)
  <2> DEFINE k == thread[p].seq
  <2>2. /\ thread'[p].pc = "json" /\ thread'[p].seg = thread[p].seg
        /\ \A u \in Threads \ {p} : thread'[u] = thread[u]
    BY <1>0, <1>6, Moves DEF WriteWav
  <2>3. /\ thread[p].pc = "wav" /\ UNCHANGED <<recorded, replay, queue, worker>>
        /\ \A n \in Slots : wav'[n] = IF n = k THEN thread[p].seg ELSE wav[n]
    BY <1>6 DEF WriteWav, TypeOK
  <2> HIDE DEF k
  <2>4. ASSUME NEW u \in Threads
        PROVE  Carries(u)' => Carries(u) /\ thread'[u].seg = thread[u].seg
    BY <2>2, <2>3 DEF Carries
  <2>5. /\ Distinct' /\ \A s : NotWaiting(s) => NotWaiting(s)'
    BY <2>3 DEF WaitKept, Distinct, NotWaiting, Untyped
  <2>6. Carried'
    BY <2>3, <2>4, <2>5 DEF WaitKept, Carried, Fresh
  <2>7. FilesDiffer'
    <3>1. Carries(p) /\ thread[p].seg \in 1 .. recorded
      BY <1>0, <2>3 DEF WaitKept, Carried, Carries, Fresh, NotWaiting
    <3>2. \A n \in Slots : wav[n] # thread[p].seg
      BY <1>0, <2>3 DEF WaitKept, FilesDiffer
    <3>3. ASSUME NEW u \in Threads, thread'[u].pc \in {"prepare", "number", "wav"},
                 NEW n \in Slots
          PROVE  wav'[n] # thread'[u].seg
      <4>1. u # p /\ thread'[u] = thread[u] /\ Carries(u)
        BY <2>2, <3>3 DEF Carries
      <4>2. thread[u].seg # thread[p].seg
        BY <1>0, <3>1, <4>1 DEF WaitKept, Carried
      <4>3. wav[n] # thread[u].seg
        BY <3>3, <4>1 DEF WaitKept, FilesDiffer
      <4> QED
        BY <2>3, <4>1, <4>2, <4>3
    <3> QED
      BY <2>3, <3>1, <3>2, <3>3 DEF WaitKept, FilesDiffer
  <2> QED
    BY <2>5, <2>6, <2>7 DEF WaitKept
<1>7. CASE WriteJson(p)
  <2>1. /\ thread'[p].pc = "admit" /\ thread'[p].seg = thread[p].seg
        /\ \A u \in Threads \ {p} : thread'[u] = thread[u]
    BY <1>0, <1>7, Moves DEF WriteJson
  <2>2. thread[p].pc = "json" /\ UNCHANGED <<recorded, replay, queue, worker, wav>>
    BY <1>7 DEF WriteJson
  <2> QED
    BY <1>0, <2>1, <2>2, ThreadKeepsWaiting DEF Carries
<1>8. CASE SpillFails(p)
  <2>1. /\ thread'[p].pc = "hold" /\ thread'[p].seg = thread[p].seg
        /\ \A u \in Threads \ {p} : thread'[u] = thread[u]
    BY <1>0, <1>8, Numbered DEF SpillFails
  <2>2. /\ thread[p].pc \in {"prepare", "wav", "json"}
        /\ UNCHANGED <<recorded, replay, queue, worker, wav>>
    BY <1>8 DEF SpillFails
  <2> QED
    BY <1>0, <2>1, <2>2, ThreadKeepsWaiting DEF Carries
<1> QED
  BY <1>1, <1>2, <1>3, <1>4, <1>5, <1>6, <1>7, <1>8, <1>9 DEF Prepare, Spill

LEMMA SendKeepsWaiting ==
  ASSUME TypeOK, WaitKept, NEW t \in Threads, SendJob(t)
  PROVE  WaitKept'
<1> USE DEF workerVars, diskVars
<1>0. Carries(t)
  BY DEF SendJob, Admit, RefuseQueueFull, Count, Send, Carries
<1>1. CASE Admit(t)
  <2>1. /\ thread'[t].pc = "count" /\ thread'[t].seg = thread[t].seg
        /\ \A u \in Threads \ {t} : thread'[u] = thread[u]
    BY <1>1, Moves DEF Admit
  <2>2. UNCHANGED <<recorded, replay, queue, worker, wav>>
    BY <1>1 DEF Admit
  <2> QED
    BY <1>0, <2>1, <2>2, ThreadKeepsWaiting
<1>2. CASE RefuseQueueFull(t)
  <2>1. thread'[t].pc \in {"idle", "list"} /\ \A u \in Threads \ {t} : thread'[u] = thread[u]
    BY <1>2, AfterSendRests DEF RefuseQueueFull
  <2> QED
    BY <1>2, <2>1, ThreadKeepsWaiting DEF RefuseQueueFull, Carries
<1>3. CASE Count(t)
  <2>1. /\ thread'[t].pc = "send" /\ thread'[t].seg = thread[t].seg
        /\ \A u \in Threads \ {t} : thread'[u] = thread[u]
    BY <1>3, Moves DEF Count
  <2>2. UNCHANGED <<recorded, replay, queue, worker, wav>>
    BY <1>3 DEF Count
  <2> QED
    BY <1>0, <2>1, <2>2, ThreadKeepsWaiting
<1>4. CASE Send(t)
  <2> DEFINE job == [seg |-> thread[t].seg, seq |-> thread[t].seq]
  <2>1. job \in Jobs /\ job.seg = thread[t].seg
    BY DEF TypeOK, ThreadStates, Jobs
  <2>2. /\ Len(queue) \in Nat /\ Len(queue') = Len(queue) + 1
        /\ \A i \in 1 .. Len(queue) : queue'[i] = queue[i]
        /\ queue'[Len(queue) + 1] = job
    BY <1>4, <2>1, Appended DEF Send, TypeOK
  <2> HIDE DEF job
  <2>3. /\ thread'[t].pc \in {"idle", "list"}
        /\ \A u \in Threads \ {t} : thread'[u] = thread[u]
        /\ UNCHANGED <<recorded, replay, worker, wav>>
    BY <1>4, AfterSendRests DEF Send
  <2>4. \A i \in 1 .. Len(queue') : i = Len(queue) + 1 \/ i \in 1 .. Len(queue)
    BY <2>2
  <2>5. NotWaiting(job.seg)
    BY <1>0, <2>1 DEF WaitKept, Carried, Fresh
  <2>6. Distinct'
    <3>1. \A i \in 1 .. Len(queue') : queue'[i].seg \in 1 .. recorded
      BY <2>2, <2>4, <2>5 DEF WaitKept, Distinct, NotWaiting
    <3>2. \A i, j \in 1 .. Len(queue') : queue'[i].seg = queue'[j].seg => i = j
      BY <2>2, <2>4, <2>5 DEF WaitKept, Distinct, NotWaiting
    <3>3. Untyped => /\ worker.job.seg \in 1 .. recorded
                     /\ \A i \in 1 .. Len(queue') : queue'[i].seg # worker.job.seg
      BY <2>2, <2>4, <2>5 DEF WaitKept, Distinct, NotWaiting
    <3> QED
      BY <2>3, <3>1, <3>2, <3>3 DEF Distinct, Untyped
  <2>7. \A s : NotWaiting(s) /\ s # job.seg => NotWaiting(s)'
    BY <2>2, <2>3, <2>4 DEF NotWaiting, Untyped
  <2>8. \A u \in Threads : Carries(u)' =>
          u # t /\ Carries(u) /\ thread'[u] = thread[u] /\ thread[u].seg # job.seg
    BY <1>0, <2>1, <2>3 DEF WaitKept, Carried, Carries
  <2>9. Carried'
    <3>1. \A u \in Threads : Carries(u)' => Fresh(u)'
      BY <2>7, <2>8 DEF WaitKept, Carried, Fresh
    <3>2. \A r \in replay : NotWaiting(r.seg)'
      BY <1>0, <2>1, <2>7 DEF WaitKept, Carried
    <3> QED
      BY <2>3, <2>8, <3>1, <3>2 DEF WaitKept, Carried
  <2>10. FilesDiffer'
    BY <2>3 DEF WaitKept, FilesDiffer
  <2> QED
    BY <2>6, <2>9, <2>10 DEF WaitKept
<1> QED
  BY <1>1, <1>2, <1>3, <1>4 DEF SendJob

LEMMA ReplayKeepsWaiting ==
  ASSUME TypeOK, WaitKept, Replay
  PROVE  WaitKept'
<1>0. Boot \in Threads
  BY DEF Threads
<1> USE DEF workerVars, diskVars
<1>1. CASE ReplayNext
  <2>1. PICK job \in replay :
          /\ replay' = replay \ {job}
          /\ thread' = [thread EXCEPT ![Boot] =
                          [pc |-> "admit", seg |-> job.seg, seq |-> job.seq]]
    BY <1>1 DEF ReplayNext
  <2>2. /\ thread'[Boot] = [pc |-> "admit", seg |-> job.seg, seq |-> job.seq]
        /\ \A u \in Threads \ {Boot} : thread'[u] = thread[u]
    BY <1>0, <2>1, Becomes
  <2>3. thread'[Boot].pc = "admit" /\ thread'[Boot].seg = job.seg
    BY <2>2
  <2>4. UNCHANGED <<recorded, queue, worker, wav>>
    BY <1>1 DEF ReplayNext
  <2>5. /\ NotWaiting(job.seg)
        /\ \A u \in Threads : Carries(u) => thread[u].seg # job.seg
        /\ \A other \in replay \ {job} : other.seg # job.seg
    BY DEF WaitKept, Carried
  <2>6. \A u \in Threads \ {Boot} : Carries(u)' => Carries(u)
    BY <2>2 DEF Carries
  <2>7. Distinct' /\ \A s : NotWaiting(s) => NotWaiting(s)'
    BY <2>4 DEF WaitKept, Distinct, NotWaiting, Untyped
  <2>8. Carried'
    BY <2>1, <2>2, <2>3, <2>5, <2>6, <2>7 DEF WaitKept, Carried, Fresh
  <2>9. FilesDiffer'
    BY <2>2, <2>3, <2>4 DEF WaitKept, FilesDiffer
  <2> QED
    BY <2>7, <2>8, <2>9 DEF WaitKept
<1>2. CASE ReplayDone
  <2>1. /\ thread'[Boot] = Idle /\ Idle.pc = "idle"
        /\ \A u \in Threads \ {Boot} : thread'[u] = thread[u]
    BY <1>0, <1>2, Becomes DEF ReplayDone, Idle
  <2>2. UNCHANGED <<recorded, replay, queue, worker, wav>>
    BY <1>2 DEF ReplayDone
  <2> QED
    BY <1>0, <2>1, <2>2, ThreadKeepsWaiting DEF Carries
<1> QED
  BY <1>1, <1>2 DEF Replay

(* Only Receive puts a job in the worker's hand. *)
LEMMA UntypedStays ==
  ASSUME TypeOK, WorkerStep, ~Receive
  PROVE  Untyped' => Untyped /\ worker'.job = worker.job
<1>0. worker \in WorkerStates
  BY DEF TypeOK
<1>1. CASE Load
  BY <1>0, <1>1 DEF Load, WorkerStates, Untyped
<1>2. CASE Discard \/ Insert \/ Release \/ RemoveJson \/ Fail
  <2>1. worker'.pc \in {"settle", "unlink", "typed", "fail"}
    BY <1>0, <1>2 DEF Discard, Insert, Release, RemoveJson, Fail, GiveBack, WorkerStates
  <2> QED
    BY <2>1 DEF Untyped
<1>3. CASE Settle \/ Recover
  <2>1. worker'.pc \in {"recover", "recv"}
    BY <1>0, <1>3 DEF Settle, Recover, AtRest, WorkerStates
  <2> QED
    BY <2>1 DEF Untyped
<1> QED
  BY <1>1, <1>2, <1>3 DEF WorkerStep

(* The worker takes from the front and writes no file. *)
LEMMA WorkerKeepsWaiting ==
  ASSUME TypeOK, WaitKept, WorkerStep
  PROVE  WaitKept'
<1> USE DEF workerVars, diskVars, enqueueVars
<1>0. worker \in WorkerStates /\ UNCHANGED <<recorded, thread, replay>>
  BY DEF TypeOK, WorkerStep, Receive, Load, Discard, Insert, Release, RemoveJson, Fail,
         Settle, Recover, GiveBack
<1>1. CASE Receive
  <2>1. /\ Head(queue) = queue[1] /\ Len(queue) \in Nat \ {0}
        /\ Len(queue') = Len(queue) - 1
        /\ \A i \in 1 .. Len(queue) - 1 : queue'[i] = queue[i + 1]
    BY <1>1, HeadAndTail DEF Receive, TypeOK
  <2>2. /\ \A i \in 1 .. Len(queue') :
             i + 1 \in 1 .. Len(queue) /\ queue'[i] = queue[i + 1] /\ i + 1 # 1
        /\ \A i, j \in 1 .. Len(queue') : i + 1 = j + 1 => i = j
    BY <2>1
  <2>3. worker'.job = queue[1] /\ 1 \in 1 .. Len(queue) /\ UNCHANGED wav
    BY <1>1, <2>1 DEF Receive
  <2>4. \A i, j \in 1 .. Len(queue) : queue[i].seg = queue[j].seg => i = j
    BY DEF WaitKept, Distinct
  <2>5. \A i \in 1 .. Len(queue) : queue[i].seg \in 1 .. recorded
    BY DEF WaitKept, Distinct
  <2>6. Distinct'
    <3>1. \A i, j \in 1 .. Len(queue') : queue'[i].seg = queue'[j].seg => i = j
      BY <2>2, <2>4
    <3>2. \A i \in 1 .. Len(queue') : queue'[i].seg # worker'.job.seg
      BY <2>2, <2>3, <2>4
    <3>3. /\ \A i \in 1 .. Len(queue') : queue'[i].seg \in 1 .. recorded
          /\ worker'.job.seg \in 1 .. recorded
      BY <2>2, <2>3, <2>5
    <3> QED
      BY <1>0, <3>1, <3>2, <3>3 DEF Distinct
  <2>7. \A s : NotWaiting(s) => NotWaiting(s)'
    BY <1>0, <2>2, <2>3 DEF NotWaiting
  <2>8. Carried' /\ FilesDiffer'
    BY <1>0, <2>3, <2>7 DEF WaitKept, Carried, Carries, Fresh, FilesDiffer
  <2> QED
    BY <2>6, <2>8 DEF WaitKept
<1>2. CASE ~Receive
  <2>1. UNCHANGED queue
    BY <1>2 DEF WorkerStep, Load, Discard, Insert, Release, RemoveJson, Fail, Settle,
           Recover, GiveBack
  <2>2. Untyped' => Untyped /\ worker'.job = worker.job
    BY <1>2, UntypedStays
  <2>3. \A n \in Slots : wav'[n] \in {wav[n], NoSegment}
    <3>1. CASE UNCHANGED wav
      BY <3>1
    <3>2. CASE ~UNCHANGED wav
      <4>1. RemoveWav(worker.job.seq)
        BY <1>2, <3>2 DEF WorkerStep, Load, Discard, Insert, Release, RemoveJson, Fail,
               Settle, Recover, GiveBack
      <4> QED
        BY <4>1 DEF RemoveWav, TypeOK
    <3> QED
      BY <3>1, <3>2
  <2> QED
    BY <1>0, <2>1, <2>2, <2>3, FilesMayGo
<1> QED
  BY <1>1, <1>2

LEMMA ClearKeepsWaiting ==
  ASSUME TypeOK, WaitKept, ClearSpill
  PROVE  WaitKept'
<1>1. /\ UNCHANGED <<recorded, thread, replay, queue, worker>>
      /\ \A n \in Slots : wav'[n] \in {wav[n], NoSegment}
  BY DEF ClearSpill, ClearBegins, ClearFile, ClearEnds, enqueueVars, workerVars,
         diskVars, TypeOK
<1> QED
  BY <1>1, FilesMayGo DEF Untyped

LEMMA CrashKeepsWaiting ==
  ASSUME TypeOK, WaitKept, Crash
  PROVE  WaitKept'
<1>1. /\ \A t \in Threads : thread'[t].pc \in {"idle", "list"}
      /\ queue' = <<>> /\ worker'.pc = "recv"
      /\ UNCHANGED <<recorded, wav>>
  BY DEF Crash, Idle, AtRest
<1>2. Len(queue') = 0 /\ ~Untyped' /\ \A t \in Threads : ~Carries(t)'
  BY <1>1 DEF Untyped, Carries
<1>3. \A job \in replay' : \E n \in Slots :
        wav[n] # NoSegment /\ job = [seg |-> wav[n], seq |-> n] /\ job.seg = wav[n]
  BY DEF Crash, ListPending, TypeOK
<1>4. \A job \in replay' : NotWaiting(job.seg)'
  BY <1>1, <1>2, <1>3 DEF WaitKept, FilesDiffer, NotWaiting
<1>5. \A job, other \in replay' : job.seg = other.seg => job = other
  BY <1>3 DEF WaitKept, FilesDiffer
<1>6. Distinct' /\ Carried'
  BY <1>2, <1>4, <1>5 DEF Distinct, Carried
<1>7. FilesDiffer'
  BY <1>1 DEF WaitKept, FilesDiffer
<1> QED
  BY <1>6, <1>7 DEF WaitKept

LEMMA StepKeepsWaiting ==
  ASSUME TypeOK, WaitKept, [Next]_vars
  PROVE  WaitKept'
<1>1. CASE UNCHANGED vars
  BY <1>1 DEF vars, enqueueVars, workerVars, diskVars, WaitKept, Distinct, Carried,
     FilesDiffer, Carries, Fresh, NotWaiting, Untyped
<1> QED
  BY <1>1, PrepareKeepsWaiting, SendKeepsWaiting, ReplayKeepsWaiting,
     WorkerKeepsWaiting, ClearKeepsWaiting, CrashKeepsWaiting DEF Next, ThreadStep

LEMMA InitWaiting == Init => WaitKept
<1> SUFFICES ASSUME Init  PROVE WaitKept
  OBVIOUS
<1>1. /\ \A t \in Threads : thread[t].pc = "idle" /\ ~Carries(t)
      /\ Len(queue) = 0 /\ ~Untyped /\ replay = {}
      /\ \A n \in Slots : wav[n] = NoSegment
  BY DEF Init, Idle, AtRest, Carries, Untyped
<1> QED
  BY <1>1 DEF WaitKept, Distinct, Carried, FilesDiffer

(* No segment waits twice, and none that waits is carried by a thread or   *)
(* still to be replayed, for any number of enqueueing threads, with        *)
(* spilling, cancellations, crashes and replays.                           *)
THEOREM WaitingInvariant == Spec => []WaitingInv
<1>1. Init => WaitKept
  BY InitWaiting
<1>2. CountInv /\ WaitKept /\ [Next]_vars => WaitKept'
  BY StepKeepsWaiting DEF CountInv
<1>3. CountInv /\ WaitKept => WaitingInv
  BY DEF WaitingInv
<1> QED
  BY <1>1, <1>2, <1>3, CountInvariant, PTL DEF Spec

(* Without a crash there is nothing to replay. *)
LEMMA BootStaysIdle ==
  ASSUME MaxCrashes = 0, TypeOK, thread[Boot].pc = "idle", [Next]_vars
  PROVE  thread'[Boot].pc = "idle"
<1>0. Boot \in Threads /\ Boot \notin Producers /\ ~Crash
  BY QueueAssumption DEF Threads, TypeOK, Crash
<1> USE DEF enqueueVars
<1>1. CASE WorkerStep
  BY <1>1 DEF WorkerStep, Receive, Load, Discard, Insert, Release, RemoveJson, Fail,
         Settle, Recover, GiveBack
<1>2. CASE ClearSpill
  BY <1>2 DEF ClearSpill, ClearBegins, ClearFile, ClearEnds
<1>3. CASE \E p \in Producers : Record(p) \/ Prepare(p) \/ Spill(p)
  BY <1>0, <1>3 DEF Record, Prepare, Spill, PrepareInMemory, PrepareOnDisk,
     RefuseDiskFull, Hold, TakeNumber, WriteWav, WriteJson, SpillFails, GoTo, TypeOK
<1>4. CASE Replay
  BY <1>4 DEF Replay, ReplayNext, ReplayDone
<1>5. CASE \E t \in Threads : SendJob(t)
  <2>1. ASSUME NEW t \in Threads, SendJob(t)  PROVE thread'[Boot] = thread[Boot]
    <3>1. t # Boot
      BY <2>1 DEF SendJob, Admit, RefuseQueueFull, Count, Send
    <3> QED
      BY <1>0, <2>1, <3>1 DEF SendJob, Admit, RefuseQueueFull, Count, Send, GoTo, TypeOK
  <2> QED
    BY <1>5, <2>1
<1>6. CASE UNCHANGED vars
  BY <1>6 DEF vars
<1> QED
  BY <1>0, <1>1, <1>2, <1>3, <1>4, <1>5, <1>6 DEF Next, ThreadStep

LEMMA BootRests == MaxCrashes = 0 /\ Spec => [](thread[Boot].pc = "idle")
<1> SUFFICES ASSUME MaxCrashes = 0  PROVE Spec => [](thread[Boot].pc = "idle")
  OBVIOUS
<1>1. Init => thread[Boot].pc = "idle"
  BY DEF Init, Threads, Idle
<1>2. TypeOK /\ thread[Boot].pc = "idle" /\ [Next]_vars => (thread[Boot].pc = "idle")'
  BY BootStaysIdle
<1>3. Spec => []TypeOK
  BY TypeCorrect
<1> QED
  BY <1>1, <1>2, <1>3, PTL DEF Spec

-----------------------------------------------------------------------------
(* The queue implements SegmentDelivery, its fairness aside.               *)

(* Waiting, for a worker and a channel. *)
Ahead(w) == IF w.pc \in {"load", "work"} THEN 1 ELSE 0
Segs(q) == [i \in 1 .. Len(q) |-> q[i].seg]
Line(w, q) ==
  (IF w.pc \in {"load", "work"} THEN <<w.job.seg>> ELSE <<>>) \o Segs(q)

LEMMA SegsIsASeq ==
  ASSUME NEW q \in Seq(Jobs)
  PROVE  /\ Segs(q) \in Seq(MaybeSegment) /\ Len(Segs(q)) = Len(q)
         /\ \A i \in 1 .. Len(q) : Segs(q)[i] = q[i].seg
<1>1. \A i \in 1 .. Len(q) : q[i].seg \in MaybeSegment
  <2>1. \A i \in 1 .. Len(q) : q[i] \in Jobs
    BY ElementOfSeq
  <2> QED
    BY <2>1 DEF Jobs
<1>2. Len(q) \in Nat
  OBVIOUS
<1> QED
  BY <1>1, <1>2 DEF Segs

LEMMA LineIsASeq ==
  ASSUME NEW w \in WorkerStates, NEW q \in Seq(Jobs)
  PROVE  /\ Line(w, q) \in Seq(MaybeSegment)
         /\ Len(Line(w, q)) = Ahead(w) + Len(q) /\ Len(q) \in Nat
         /\ Ahead(w) = 1 => Line(w, q)[1] = w.job.seg
         /\ \A i \in 1 .. Len(q) : Line(w, q)[Ahead(w) + i] = q[i].seg
         /\ \A i \in 1 .. Len(Line(w, q)) :
              (i = 1 /\ Ahead(w) = 1) \/ i - Ahead(w) \in 1 .. Len(q)
<1>a. w.job.seg \in MaybeSegment /\ Len(q) \in Nat
  BY DEF WorkerStates, Jobs
<1>1. /\ Segs(q) \in Seq(MaybeSegment) /\ Len(Segs(q)) = Len(q)
      /\ \A i \in 1 .. Len(q) : Segs(q)[i] = q[i].seg
      /\ w.job.seg \in MaybeSegment /\ Len(q) \in Nat
  BY <1>a, SegsIsASeq
<1>2. CASE w.pc \in {"load", "work"}
  <2>1. Line(w, q) = <<w.job.seg>> \o Segs(q) /\ Ahead(w) = 1
    BY <1>2 DEF Line, Ahead
  <2>2. <<w.job.seg>> \in Seq(MaybeSegment) /\ Len(<<w.job.seg>>) = 1
        /\ <<w.job.seg>>[1] = w.job.seg
    BY <1>1
  <2> HIDE DEF Segs, Line
  <2> QED
    BY <1>1, <2>1, <2>2, ConcatProperties
<1>3. CASE w.pc \notin {"load", "work"}
  <2>1. Line(w, q) = Segs(q) /\ Ahead(w) = 0
    BY <1>1, <1>3, ConcatEmptySeq DEF Line, Ahead
  <2> HIDE DEF Segs, Line
  <2> QED
    BY <1>1, <2>1
<1> QED
  BY <1>2, <1>3

(* Taking the next job from the channel changes nothing of what waits. *)
LEMMA LineReceive ==
  ASSUME NEW w \in WorkerStates, NEW v \in WorkerStates, NEW q \in Seq(Jobs),
         w.pc \notin {"load", "work"}, q # <<>>,
         v.pc = "load", v.job = Head(q)
  PROVE  Line(v, Tail(q)) = Line(w, q)
<1>1. Ahead(w) = 0 /\ Ahead(v) = 1
  BY DEF Ahead
<1>2. /\ Head(q) = q[1] /\ Tail(q) \in Seq(Jobs) /\ Len(Tail(q)) = Len(q) - 1
      /\ \A i \in 1 .. Len(q) - 1 : Tail(q)[i] = q[i + 1]
      /\ Len(q) \in Nat \ {0}
  BY HeadAndTail
<1>3. /\ Line(v, Tail(q)) \in Seq(MaybeSegment) /\ Line(w, q) \in Seq(MaybeSegment)
      /\ Len(Line(v, Tail(q))) = Len(q) /\ Len(Line(w, q)) = Len(q)
      /\ Line(v, Tail(q))[1] = q[1].seg
      /\ \A i \in 1 .. Len(q) - 1 : Line(v, Tail(q))[1 + i] = q[i + 1].seg
      /\ \A i \in 1 .. Len(q) : Line(w, q)[i] = q[i].seg
  <2>1. /\ Line(w, q) \in Seq(MaybeSegment) /\ Len(Line(w, q)) = 0 + Len(q)
        /\ \A i \in 1 .. Len(q) : Line(w, q)[0 + i] = q[i].seg
    BY <1>1, LineIsASeq
  <2> DEFINE r == Tail(q)
  <2>2. r \in Seq(Jobs) /\ Len(r) = Len(q) - 1
        /\ \A i \in 1 .. Len(q) - 1 : r[i] = q[i + 1]
    BY <1>2
  <2> HIDE DEF r
  <2>3. /\ Line(v, r) \in Seq(MaybeSegment) /\ Len(Line(v, r)) = Ahead(v) + Len(r)
        /\ Ahead(v) = 1 => Line(v, r)[1] = v.job.seg
        /\ \A i \in 1 .. Len(r) : Line(v, r)[Ahead(v) + i] = r[i].seg
    BY <2>2, LineIsASeq
  <2>4. Len(Line(v, r)) = Len(q) /\ Line(v, r)[1] = q[1].seg
    BY <1>1, <1>2, <2>2, <2>3
  <2>5. \A i \in 1 .. Len(q) - 1 : Line(v, r)[1 + i] = r[i].seg
    BY <1>1, <2>2, <2>3
  <2>6. \A i \in 1 .. Len(q) - 1 : Line(v, r)[1 + i] = q[i + 1].seg
    BY <2>2, <2>5
  <2> QED
    BY <1>2, <2>1, <2>3, <2>4, <2>6 DEF r
<1>4. ASSUME NEW i \in 1 .. Len(q)  PROVE Line(v, Tail(q))[i] = Line(w, q)[i]
  <2>1. CASE i = 1
    BY <1>3, <2>1
  <2>2. CASE i # 1
    <3>1. i - 1 \in 1 .. Len(q) - 1 /\ 1 + (i - 1) = i /\ (i - 1) + 1 = i
      BY <1>2, <2>2
    <3> QED
      BY <1>3, <3>1
  <2> QED
    BY <2>1, <2>2
<1> QED
  BY <1>3, <1>4, SeqEqual

(* A job sent on the channel waits last. *)
LEMMA LineSend ==
  ASSUME NEW w \in WorkerStates, NEW q \in Seq(Jobs), NEW j \in Jobs
  PROVE  Line(w, Append(q, j)) = Append(Line(w, q), j.seg)
<1>1. Ahead(w) \in {0, 1} /\ j.seg \in MaybeSegment
  BY DEF Ahead, Jobs
<1>2. /\ Append(q, j) \in Seq(Jobs) /\ Len(Append(q, j)) = Len(q) + 1
      /\ \A i \in 1 .. Len(q) : Append(q, j)[i] = q[i]
      /\ Append(q, j)[Len(q) + 1] = j
      /\ Len(q) \in Nat
  BY Appended
<1> DEFINE a == Line(w, Append(q, j))
           b == Append(Line(w, q), j.seg)
<1>3. /\ a \in Seq(MaybeSegment) /\ Len(a) = Ahead(w) + Len(q) + 1
      /\ Ahead(w) = 1 => a[1] = w.job.seg
      /\ \A i \in 1 .. Len(q) + 1 : a[Ahead(w) + i] = Append(q, j)[i].seg
  <2> DEFINE r == Append(q, j)
  <2>1. r \in Seq(Jobs) /\ Len(r) = Len(q) + 1
    BY <1>2
  <2> HIDE DEF r
  <2>2. /\ Line(w, r) \in Seq(MaybeSegment) /\ Len(Line(w, r)) = Ahead(w) + Len(r)
        /\ Ahead(w) = 1 => Line(w, r)[1] = w.job.seg
        /\ \A i \in 1 .. Len(r) : Line(w, r)[Ahead(w) + i] = r[i].seg
    BY <2>1, LineIsASeq
  <2>3. Len(Line(w, r)) = Ahead(w) + Len(q) + 1
    BY <1>1, <1>2, <2>1, <2>2
  <2> QED
    BY <2>1, <2>2, <2>3 DEF r
<1>4. /\ Line(w, q) \in Seq(MaybeSegment) /\ Len(Line(w, q)) = Ahead(w) + Len(q)
      /\ Ahead(w) = 1 => Line(w, q)[1] = w.job.seg
      /\ \A i \in 1 .. Len(q) : Line(w, q)[Ahead(w) + i] = q[i].seg
  BY LineIsASeq
<1>5. /\ b \in Seq(MaybeSegment) /\ Len(b) = Ahead(w) + Len(q) + 1
      /\ \A i \in 1 .. Ahead(w) + Len(q) : b[i] = Line(w, q)[i]
      /\ b[Ahead(w) + Len(q) + 1] = j.seg
  BY <1>1, <1>2, <1>4
<1> HIDE DEF a, b
<1>6. ASSUME NEW i \in 1 .. Len(a)  PROVE a[i] = b[i]
  <2>1. CASE i \in 1 .. Ahead(w)
    BY <1>1, <1>2, <1>3, <1>4, <1>5, <2>1
  <2>2. CASE i = Ahead(w) + Len(q) + 1
    <3>1. Len(q) + 1 \in 1 .. Len(q) + 1 /\ Ahead(w) + (Len(q) + 1) = i
      BY <1>1, <1>2, <2>2
    <3> QED
      BY <1>2, <1>3, <1>5, <2>2, <3>1
  <2>3. CASE i \notin 1 .. Ahead(w) /\ i # Ahead(w) + Len(q) + 1
    <3> DEFINE k == i - Ahead(w)
    <3>1. /\ k \in 1 .. Len(q) /\ k \in 1 .. Len(q) + 1 /\ Ahead(w) + k = i
          /\ i \in 1 .. Ahead(w) + Len(q)
      BY <1>1, <1>2, <1>3, <2>3
    <3> HIDE DEF k
    <3>2. a[i] = q[k].seg
      BY <1>2, <1>3, <3>1
    <3>3. b[i] = q[k].seg
      BY <1>4, <1>5, <3>1
    <3> QED
      BY <3>2, <3>3
  <2> QED
    BY <2>1, <2>2, <2>3
<1>7. a = b
  BY <1>3, <1>5, <1>6, SeqEqual
<1> QED
  BY <1>7 DEF a, b

(* The job in hand waits first; when it is typed or dropped the rest waits. *)
LEMMA LineLeave ==
  ASSUME NEW w \in WorkerStates, NEW v \in WorkerStates, NEW q \in Seq(Jobs),
         w.pc \in {"load", "work"}, v.pc \notin {"load", "work"}
  PROVE  /\ Line(w, q) # <<>> /\ Head(Line(w, q)) = w.job.seg
         /\ Line(v, q) = Tail(Line(w, q))
<1>1. Ahead(w) = 1 /\ Ahead(v) = 0
  BY DEF Ahead
<1>2. /\ Line(w, q) \in Seq(MaybeSegment) /\ Len(Line(w, q)) = 1 + Len(q)
      /\ Len(q) \in Nat /\ Line(w, q)[1] = w.job.seg
      /\ \A i \in 1 .. Len(q) : Line(w, q)[1 + i] = q[i].seg
      /\ Line(v, q) \in Seq(MaybeSegment) /\ Len(Line(v, q)) = Len(q)
      /\ \A i \in 1 .. Len(q) : Line(v, q)[i] = q[i].seg
  BY <1>1, LineIsASeq
<1>3. Line(w, q) # <<>> /\ Head(Line(w, q)) = w.job.seg
  BY <1>2
<1>4. /\ Tail(Line(w, q)) \in Seq(MaybeSegment) /\ Len(Tail(Line(w, q))) = Len(q)
      /\ \A i \in 1 .. Len(q) : Tail(Line(w, q))[i] = Line(w, q)[i + 1]
  BY <1>2, <1>3, HeadTailProperties
<1>5. \A i \in 1 .. Len(q) : Line(v, q)[i] = Tail(Line(w, q))[i]
  BY <1>2, <1>4
<1> QED
  BY <1>2, <1>3, <1>4, <1>5, SeqEqual

LEMMA WaitingIsLine ==
  Waiting = Line(worker, queue) /\ Waiting' = Line(worker', queue')
BY DEF Waiting, Line, Segs

(* Until it is sent a segment is not accepted yet. *)
LEMMA EnqueueStutters ==
  ASSUME NEW t \in Threads,
         \/ Record(t) \/ Prepare(t) \/ Spill(t) \/ Replay
         \/ Admit(t) \/ RefuseQueueFull(t) \/ Count(t)
  PROVE  UNCHANGED Delivery!vars
<1>1. UNCHANGED <<queue, worker, inserted>>
  BY DEF Record, Prepare, Spill, Replay, PrepareInMemory, PrepareOnDisk,
     RefuseDiskFull, Hold, TakeNumber, WriteWav, WriteJson, SpillFails, ReplayNext,
     ReplayDone, Admit, RefuseQueueFull, Count, workerVars
<1> QED
  BY <1>1 DEF Delivery!vars, Waiting

(* What is sent waits nowhere, and from then on it waits last. *)
LEMMA SendAccepts ==
  ASSUME TypeOK, NEW t \in Threads, Fresh(t), Send(t)
  PROVE  \E s \in Segments : Delivery!Accept(s)
<1> DEFINE job == [seg |-> thread[t].seg, seq |-> thread[t].seq]
           s == thread[t].seg
<1>1. /\ worker \in WorkerStates /\ queue \in Seq(Jobs) /\ job \in Jobs /\ job.seg = s
      /\ recorded \in 0 .. MaxSegments
  BY DEF TypeOK, ThreadStates, Jobs
<1>2. /\ thread[t].pc = "send" /\ queue' = Append(queue, job)
      /\ UNCHANGED <<worker, inserted>>
  BY DEF Send, workerVars
<1>3. /\ s \in 1 .. recorded
      /\ \A i \in 1 .. Len(queue) : queue[i].seg # s
      /\ Untyped => worker.job.seg # s
  BY DEF Fresh, NotWaiting
<1>4. s \in Segments
  BY <1>1, <1>3, QueueAssumption DEF Segments
<1> HIDE DEF job, s
<1>5. Waiting' = Append(Waiting, s)
  <2>1. Line(worker, Append(queue, job)) = Append(Line(worker, queue), job.seg)
    BY <1>1, LineSend
  <2> QED
    BY <1>1, <1>2, <2>1, WaitingIsLine
<1>6. \A i \in 1 .. Len(Waiting) : Waiting[i] # s
  <2> SUFFICES ASSUME NEW i \in 1 .. Len(Line(worker, queue))
               PROVE  Line(worker, queue)[i] # s
    BY WaitingIsLine
  <2>1. /\ Ahead(worker) = 1 => Line(worker, queue)[1] = worker.job.seg
        /\ \A k \in 1 .. Len(queue) :
             Line(worker, queue)[Ahead(worker) + k] = queue[k].seg
        /\ (i = 1 /\ Ahead(worker) = 1) \/ i - Ahead(worker) \in 1 .. Len(queue)
        /\ Ahead(worker) \in {0, 1}
        /\ Ahead(worker) = 1 => Untyped
    <3>1. Ahead(worker) \in {0, 1} /\ (Ahead(worker) = 1 => Untyped)
      BY DEF Ahead, Untyped
    <3>2. Len(queue) \in Nat
      BY <1>1
    <3> QED
      BY <1>1, <3>1, <3>2, LineIsASeq
  <2>2. CASE i = 1 /\ Ahead(worker) = 1
    BY <1>3, <2>1, <2>2
  <2>3. CASE i - Ahead(worker) \in 1 .. Len(queue)
    <3> DEFINE k == i - Ahead(worker)
    <3>1. k \in 1 .. Len(queue) /\ Ahead(worker) + k = i
      BY <2>1, <2>3
    <3> HIDE DEF k
    <3> QED
      BY <1>3, <2>1, <3>1
  <2> QED
    BY <2>1, <2>2, <2>3
<1>7. Delivery!Accept(s)
  BY <1>2, <1>5, <1>6 DEF Delivery!Accept
<1> QED
  BY <1>4, <1>7

(* The worker types the segment it received, drops it, or does neither. *)
LEMMA WorkerDelivers ==
  ASSUME TypeOK, PendingExact, WorkerStep
  PROVE  Delivery!Type \/ Delivery!Drop \/ UNCHANGED Delivery!vars
<1> USE DEF workerVars
<1>0. worker \in WorkerStates /\ queue \in Seq(Jobs) /\ worker' \in WorkerStates
  BY WorkerStepType DEF TypeOK
<1>1. CASE Receive
  <2>1. /\ worker.pc \notin {"load", "work"} /\ queue # <<>>
        /\ worker'.pc = "load" /\ worker'.job = Head(queue)
        /\ queue' = Tail(queue) /\ inserted' = inserted
    BY <1>1 DEF Receive
  <2>2. Line(worker', queue') = Line(worker, queue)
    BY <1>0, <2>1, LineReceive
  <2> QED
    BY <2>1, <2>2, WaitingIsLine DEF Delivery!vars
<1>2. CASE Load
  <2>1. /\ worker.pc = "load" /\ worker'.pc = "work" /\ worker'.job = worker.job
        /\ UNCHANGED <<queue, inserted>>
    BY <1>0, <1>2 DEF Load, WorkerStates
  <2> QED
    BY <2>1 DEF Waiting, Delivery!vars
<1>3. CASE worker.pc = "work"
  <2>1. Discard \/ Insert \/ Fail
    BY <1>3 DEF WorkerStep, Receive, Load, Release, RemoveJson, Settle, Recover
  <2>2. worker'.pc \notin {"load", "work"} /\ UNCHANGED queue
    BY <1>0, <2>1 DEF Discard, Insert, Fail, GiveBack, WorkerStates
  <2>3. /\ Waiting # <<>> /\ Head(Waiting) = worker.job.seg
        /\ Waiting' = Tail(Waiting)
    <3>1. /\ Line(worker, queue) # <<>>
          /\ Head(Line(worker, queue)) = worker.job.seg
          /\ Line(worker', queue) = Tail(Line(worker, queue))
      BY <1>0, <1>3, <2>2, LineLeave
    <3> QED
      BY <2>2, <3>1, WaitingIsLine
  <2>4. CASE Insert
    <3>1. inserted' = Append(inserted, worker.job.seg)
      BY <1>3, <2>4 DEF Insert
    <3> QED
      BY <2>3, <3>1 DEF Delivery!Type
  <2>5. CASE Discard \/ Fail
    <3>1. UNCHANGED inserted
      BY <2>5 DEF Discard, Fail, GiveBack
    <3> QED
      BY <2>3, <3>1 DEF Delivery!Drop
  <2> QED
    BY <2>1, <2>4, <2>5
<1>4. CASE worker.pc \notin {"load", "work"} /\ ~Receive
  <2>1. Release \/ RemoveJson \/ Fail \/ Settle \/ Recover
    BY <1>4 DEF WorkerStep, Load, Discard, Insert
  <2>2. UNCHANGED <<queue, inserted>>
    BY <2>1 DEF Release, RemoveJson, Fail, Settle, Recover, GiveBack
  <2>3. worker'.pc \notin {"load", "work"}
    <3>1. CASE Release \/ RemoveJson \/ Fail
      BY <1>0, <3>1 DEF Release, RemoveJson, Fail, GiveBack, WorkerStates
    <3>2. CASE Settle \/ Recover
      BY <1>0, <3>2 DEF Settle, Recover, AtRest, WorkerStates
    <3> QED
      BY <2>1, <3>1, <3>2
  <2> QED
    BY <1>4, <2>2, <2>3 DEF Waiting, Delivery!vars
<1>5. CASE worker.pc = "load" /\ ~Load
  BY <1>5 DEF WorkerStep, Receive, Discard, Insert, Release, RemoveJson, Fail, Settle,
     Recover
<1> QED
  BY <1>1, <1>2, <1>3, <1>4, <1>5

LEMMA CrashRestarts ==
  ASSUME Crash
  PROVE  Delivery!Restart
<1>1. /\ queue' = <<>> /\ worker'.pc = "recv" /\ inserted' = inserted
  BY DEF Crash, AtRest
<1>2. Waiting' = <<>>
  BY <1>1 DEF Waiting
<1> QED
  BY <1>1, <1>2 DEF Delivery!Restart

LEMMA StepDelivers ==
  ASSUME TypeOK, PendingExact,
         \A t \in Threads : thread[t].pc = "send" => Fresh(t),
         [Next]_vars
  PROVE  [Delivery!Next]_(Delivery!vars)
<1>1. CASE ClearSpill
  BY <1>1 DEF ClearSpill, ClearBegins, ClearFile, ClearEnds, workerVars,
     Delivery!vars, Waiting
<1>2. CASE UNCHANGED vars
  BY <1>2 DEF vars, workerVars, Delivery!vars, Waiting
<1>3. CASE \E p \in Producers : Record(p) \/ Prepare(p) \/ Spill(p)
  BY <1>3, EnqueueStutters DEF Threads
<1>4. CASE \E t \in Threads : SendJob(t)
  BY <1>4, EnqueueStutters, SendAccepts DEF SendJob, Send, Delivery!Next
<1>5. CASE Replay
  BY <1>5, EnqueueStutters DEF Threads
<1>6. CASE WorkerStep
  BY <1>6, WorkerDelivers DEF Delivery!Next
<1>7. CASE Crash
  BY <1>7, CrashRestarts DEF Delivery!Next
<1> QED
  BY <1>1, <1>2, <1>3, <1>4, <1>5, <1>6, <1>7 DEF Next, ThreadStep

LEMMA InitDelivers == Init => Delivery!Init
BY DEF Init, AtRest, Waiting, Delivery!Init

(* The queue delivers as SegmentDelivery says: first in, first out, each   *)
(* acceptance typed or dropped once, for any number of enqueueing threads, *)
(* with spilling, cancellations, crashes and replays (enqueue_segment,     *)
(* process_one_segment, replay_spilled_segments).  It is about jobs: which *)
(* audio a job finds is JobsKeepTheirAudio's.  That a segment is settled   *)
(* in the end is ImplementsDelivery's fairness, and is not proved.         *)
THEOREM QueueDelivers ==
  Spec => Delivery!Init /\ [][Delivery!Next]_(Delivery!vars)
<1>1. Init => Delivery!Init
  BY InitDelivers
<1>2. WaitingInv /\ [Next]_vars => [Delivery!Next]_(Delivery!vars)
  <2>1. SUFFICES ASSUME WaitingInv, [Next]_vars
                 PROVE  [Delivery!Next]_(Delivery!vars)
    OBVIOUS
  <2>2. \A t \in Threads : thread[t].pc = "send" => Fresh(t)
    BY <2>1 DEF WaitingInv, WaitKept, Carried, Carries
  <2> QED
    BY <2>1, <2>2, StepDelivers DEF WaitingInv, CountInv
<1>3. Spec => []WaitingInv
  BY WaitingInvariant
<1> QED
  BY <1>1, <1>2, <1>3, PTL DEF Spec

=============================================================================
