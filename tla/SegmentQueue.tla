---------------------------- MODULE SegmentQueue ----------------------------
(***************************************************************************)
(* The segment queue of the dictation pipeline (app/runtime.rs and         *)
(* audio/segment_queue_store.rs): a recorded segment is kept in memory or  *)
(* spilled to a WAV/JSON pair, pushed on an unbounded channel, and settled *)
(* by the single worker task.                                              *)
(*                                                                         *)
(* Several threads enqueue at once (the VAD worker and the push-to-talk    *)
(* release worker), so every atomic load, fetch_add, fetch_sub and file    *)
(* operation of enqueue_segment is a step of its own.  The replay of the   *)
(* next start (Boot) enqueues what an earlier run left on disk.            *)
(***************************************************************************)
EXTENDS Integers, Sequences, FiniteSets

CONSTANTS Producers,      \* threads that call enqueue_segment
          Boot,           \* the start-up replay in wire_audio_callbacks
          NoSegment,      \* the empty AudioSegment of a load that failed
          SpillEnabled,   \* effective_spill_enabled
          RamCap,         \* weak_pc_ram_segment_cap
          MaxPending,     \* max(MAX_PENDING_SEGMENTS, 2 * RamCap)
          DiskSlots,      \* weak_pc_max_disk_queue_mb, counted in segments
          UsizeMod,       \* number of values of a usize
          MaxSegments,    \* bound: segments ever recorded
          MaxClears,      \* bound: calls of clear_spill_queue
          MaxCrashes      \* bound: process crashes

ASSUME QueueAssumption ==
  /\ Producers # {} /\ IsFiniteSet(Producers) /\ Boot \notin Producers
  /\ SpillEnabled \in BOOLEAN
  /\ RamCap \in Nat \ {0} /\ MaxPending \in Nat /\ DiskSlots \in Nat
  /\ UsizeMod \in Nat \ {0}
  /\ MaxSegments \in Nat /\ MaxClears \in Nat /\ MaxCrashes \in Nat
  /\ NoSegment \notin Nat

Threads == Producers \cup {Boot}
Segments == 1 .. MaxSegments
MaybeSegment == Segments \cup {NoSegment}

(* The number in a spill file's name; 0 stands for a payload in memory, so *)
(* held_in_memory is seq = 0.                                              *)
Slots == 1 .. MaxSegments
Jobs == [seg : MaybeSegment, seq : Slots \cup {0}]

VARIABLES
  recorded,   \* number of segments recorded so far
  thread,     \* where each enqueueing thread is, and the payload it carries
  replay,     \* the jobs the start-up replay has still to send
  pending,    \* PipelineRuntime::pending
  memory,     \* PipelineRuntime::memory_segments, a wrapping usize
  queue,      \* the channel queue_tx -> queue_rx
  worker,     \* the worker task: its step, its job and the audio it loaded
  wav,        \* WAV files on disk: the audio each holds
  meta,       \* numbers with a JSON file on disk
  clearing,   \* a clear_spill_queue is under way
  inserted,   \* history: the jobs whose text was typed, in order
  residue,    \* history: files left behind by a failed or refused job, by
              \* a spill or a removal that failed, or by a crash
  robbed,     \* history: a finished job removed the JSON of one that waits
  shared,     \* history: a thread took its number while another had one
              \* that it had not made complete
  clears, crashes

enqueueVars == <<recorded, thread, replay>>
workerVars == <<worker, inserted>>
diskVars == <<wav, meta, residue, robbed>>
bounds == <<clearing, shared, clears, crashes>>
vars == <<enqueueVars, pending, memory, queue, workerVars, diskVars, bounds>>

-----------------------------------------------------------------------------
(* Spill files (SegmentQueueStore).                                        *)

(* list_pending: only a pair whose JSON and WAV both exist counts. *)
ListPending == {n \in meta : wav[n] # NoSegment}

(* total_bytes counts every file of the directory. *)
FilesOnDisk == {n \in Slots : wav[n] # NoSegment}

(* Variant for the checks: the largest pair's own number. *)
LastSeq(k) == IF ListPending = {} THEN k = 1
              ELSE k \in ListPending /\ \A n \in ListPending : n <= k

(* next_seq: one past the largest complete pair. *)
IsNextSeq(k) == IF ListPending = {} THEN k = 1
                ELSE k - 1 \in ListPending /\ \A n \in ListPending : n < k

(* A removal that fails is logged or ignored. *)
RemoveWav(n) ==
  \/ /\ wav' = [wav EXCEPT ![n] = NoSegment]
     /\ residue' = residue \ {n}
  \/ /\ UNCHANGED wav
     /\ residue' = residue \cup {n}

-----------------------------------------------------------------------------
(* Where a job is.                                                         *)

Idle == [pc |-> "idle", seg |-> NoSegment, seq |-> 0]
AtRest == [pc |-> "recv", job |-> [seg |-> NoSegment, seq |-> 0],
           loaded |-> NoSegment]

At(pc) == {t \in Threads : thread[t].pc = pc}

(* The worker still counts in pending until its fetch_sub. *)
WorkerBusy == worker.pc \in {"load", "work", "typed", "unlink", "settle", "fail"}

(* The spill files some thread, job or the replay still answers for. *)
Owned ==
  {job.seq : job \in replay}
  \cup {thread[t].seq : t \in {u \in Threads :
                               thread[u].pc \in {"json", "admit", "count", "send"}}}
  \cup {queue[i].seq : i \in 1 .. Len(queue)}
  \cup (IF worker.pc \in {"load", "work", "typed", "fail"}
        THEN {worker.job.seq} ELSE {})

(* A job that was numbered n is complete on disk and has not been taken. *)
Waits(n) ==
  \/ \E t \in Threads : thread[t].pc \in {"admit", "count", "send"} /\ thread[t].seq = n
  \/ \E i \in 1 .. Len(queue) : queue[i].seq = n

GoTo(t, pc) == thread' = [thread EXCEPT ![t].pc = pc]

-----------------------------------------------------------------------------
(* Enqueueing a segment.                                                   *)

(* A thread has a segment to enqueue.  Callbacks are wired only after the  *)
(* replay, so nothing is recorded while it runs.                           *)
Record(p) ==
  /\ thread[p].pc = "idle" /\ thread[Boot].pc = "idle"
  /\ recorded < MaxSegments
  /\ recorded' = recorded + 1
  /\ thread' = [thread EXCEPT ![p] =
                  [pc |-> "prepare", seg |-> recorded + 1, seq |-> 0]]
  /\ UNCHANGED <<replay, pending, memory, queue, workerVars, diskVars, bounds>>

(* prepare_payload loads memory_segments and decides. *)
MustSpill == SpillEnabled /\ memory >= RamCap

PrepareInMemory(p) ==
  /\ thread[p].pc = "prepare" /\ ~MustSpill
  /\ GoTo(p, "hold")
  /\ UNCHANGED <<recorded, replay, pending, memory, queue, workerVars,
                 diskVars, bounds>>

PrepareOnDisk(p) ==
  /\ thread[p].pc = "prepare" /\ MustSpill
  /\ Cardinality(FilesOnDisk) < DiskSlots
  /\ GoTo(p, "number")
  /\ UNCHANGED <<recorded, replay, pending, memory, queue, workerVars,
                 diskVars, bounds>>

(* The disk quota is used up: EnqueueResult::DiskQueueFull. *)
RefuseDiskFull(p) ==
  /\ thread[p].pc = "prepare" /\ MustSpill
  /\ Cardinality(FilesOnDisk) >= DiskSlots
  /\ thread' = [thread EXCEPT ![p] = Idle]
  /\ UNCHANGED <<recorded, replay, pending, memory, queue, workerVars,
                 diskVars, bounds>>

(* spill: look for the next number, without a lock or a reservation, ... *)
TakeNumber(p) ==
  /\ thread[p].pc = "number"
  /\ \E k \in Slots :
       /\ IsNextSeq(k)
       /\ thread' = [thread EXCEPT ![p].pc = "wav", ![p].seq = k]
  /\ shared' = (shared \/ At("wav") \cup At("json") # {})
  /\ UNCHANGED <<recorded, replay, pending, memory, queue, workerVars, diskVars,
                 clearing, clears, crashes>>

(* ... write the WAV of that number, over what is there, ... *)
WriteWav(p) ==
  /\ thread[p].pc = "wav"
  /\ wav' = [wav EXCEPT ![thread[p].seq] = thread[p].seg]
  /\ residue' = residue \ {thread[p].seq}
  /\ GoTo(p, "json")
  /\ UNCHANGED <<recorded, replay, pending, memory, queue, workerVars, meta,
                 robbed, bounds>>

(* ... and its JSON, which makes the pair visible to list_pending. *)
WriteJson(p) ==
  /\ thread[p].pc = "json"
  /\ meta' = meta \cup {thread[p].seq}
  /\ GoTo(p, "admit")
  /\ UNCHANGED <<recorded, replay, pending, memory, queue, workerVars, wav,
                 residue, robbed, bounds>>

(* Variant for the checks: the job is given the file that was not finished. *)
SpillFailsKeepsPath(p) ==
  /\ thread[p].pc \in {"wav", "json"}
  /\ residue' = residue
  /\ GoTo(p, "admit")
  /\ UNCHANGED <<recorded, replay, pending, memory, queue, workerVars, wav,
                 meta, robbed, bounds>>

(* Opening the store or writing either file failed: the segment stays in   *)
(* memory, and a WAV already written stays on disk.                        *)
SpillFails(p) ==
  /\ \/ thread[p].pc = "prepare" /\ MustSpill
     \/ thread[p].pc \in {"wav", "json"}
  /\ residue' = IF thread[p].pc = "json" THEN residue \cup {thread[p].seq}
                ELSE residue
  /\ thread' = [thread EXCEPT ![p].pc = "hold", ![p].seq = 0]
  /\ UNCHANGED <<recorded, replay, pending, memory, queue, workerVars, wav,
                 meta, robbed, bounds>>

(* memory_segments.fetch_add(1). *)
Hold(p) ==
  /\ thread[p].pc = "hold"
  /\ memory' = (memory + 1) % UsizeMod
  /\ GoTo(p, "admit")
  /\ UNCHANGED <<recorded, replay, pending, queue, workerVars, diskVars, bounds>>

(* Variant for the checks: one job too many is let in. *)
AdmitOneMore(t) ==
  /\ thread[t].pc = "admit" /\ pending <= MaxPending
  /\ GoTo(t, "count")
  /\ UNCHANGED <<recorded, replay, pending, memory, queue, workerVars,
                 diskVars, bounds>>

(* send_job loads pending ... *)
Admit(t) ==
  /\ thread[t].pc = "admit" /\ pending < MaxPending
  /\ GoTo(t, "count")
  /\ UNCHANGED <<recorded, replay, pending, memory, queue, workerVars,
                 diskVars, bounds>>

AfterSend(t) == IF t = Boot THEN [Idle EXCEPT !.pc = "list"] ELSE Idle

(* ... and refuses when it is full: PendingQueueFull.  Neither the memory  *)
(* count nor the spill file of the payload is undone.                      *)
RefuseQueueFull(t) ==
  /\ thread[t].pc = "admit" /\ pending >= MaxPending
  /\ residue' = IF thread[t].seq = 0 THEN residue
                ELSE residue \cup {thread[t].seq}
  /\ thread' = [thread EXCEPT ![t] = AfterSend(t)]
  /\ UNCHANGED <<recorded, replay, pending, memory, queue, workerVars, wav,
                 meta, robbed, bounds>>

(* pending.fetch_add(1): not atomic with the load that admitted the job. *)
Count(t) ==
  /\ thread[t].pc = "count"
  /\ pending' = pending + 1
  /\ GoTo(t, "send")
  /\ UNCHANGED <<recorded, replay, memory, queue, workerVars, diskVars, bounds>>

(* Variant for the checks: the newest job goes first. *)
SendFirst(t) ==
  /\ thread[t].pc = "send"
  /\ queue' = <<[seg |-> thread[t].seg, seq |-> thread[t].seq]>> \o queue
  /\ thread' = [thread EXCEPT ![t] = AfterSend(t)]
  /\ UNCHANGED <<recorded, replay, pending, memory, workerVars, diskVars, bounds>>

Send(t) ==
  /\ thread[t].pc = "send"
  /\ queue' = Append(queue, [seg |-> thread[t].seg, seq |-> thread[t].seq])
  /\ thread' = [thread EXCEPT ![t] = AfterSend(t)]
  /\ UNCHANGED <<recorded, replay, pending, memory, workerVars, diskVars, bounds>>

(* replay_spilled_segments: the pairs found at the start, in order. *)
ReplayNext ==
  /\ thread[Boot].pc = "list" /\ replay # {}
  /\ \E job \in replay :
       /\ \A other \in replay : job.seq <= other.seq
       /\ replay' = replay \ {job}
       /\ thread' = [thread EXCEPT ![Boot] =
                       [pc |-> "admit", seg |-> job.seg, seq |-> job.seq]]
  /\ UNCHANGED <<recorded, pending, memory, queue, workerVars, diskVars, bounds>>

ReplayDone ==
  /\ thread[Boot].pc = "list" /\ replay = {}
  /\ thread' = [thread EXCEPT ![Boot] = Idle]
  /\ UNCHANGED <<recorded, replay, pending, memory, queue, workerVars,
                 diskVars, bounds>>

-----------------------------------------------------------------------------
(* The worker task: process_one_segment for one job after another.         *)

Receive ==
  /\ worker.pc = "recv" /\ queue # <<>>
  /\ worker' = [pc |-> "load", job |-> Head(queue), loaded |-> NoSegment]
  /\ queue' = Tail(queue)
  /\ UNCHANGED <<enqueueVars, pending, memory, inserted, diskVars, bounds>>

(* A spill file that cannot be read becomes an empty segment. *)
Load ==
  /\ worker.pc = "load"
  /\ worker' = [worker EXCEPT !.pc = "work",
                  !.loaded = IF worker.job.seq = 0 THEN worker.job.seg
                             ELSE wav[worker.job.seq]]
  /\ UNCHANGED <<enqueueVars, pending, memory, queue, inserted, diskVars, bounds>>

(* Variants for the checks: memory is given back for a job on disk too; the *)
(* spill file of a finished job stays.                                     *)
GiveBackMemory ==
  /\ memory' = (memory - 1) % UsizeMod
  /\ worker' = [worker EXCEPT !.pc = IF worker.job.seq = 0 THEN "settle" ELSE "unlink"]
  /\ IF worker.job.seq = 0 THEN UNCHANGED <<wav, residue>>
     ELSE RemoveWav(worker.job.seq)
  /\ UNCHANGED <<enqueueVars, pending, queue, inserted, meta, robbed, bounds>>

GiveBackKeepsFile ==
  /\ worker' = [worker EXCEPT !.pc = "settle"]
  /\ memory' = IF worker.job.seq = 0 THEN (memory - 1) % UsizeMod ELSE memory
  /\ UNCHANGED <<diskVars, enqueueVars, pending, queue, inserted, bounds>>

(* The first half of finish: the payload's place in memory is given back,   *)
(* or delete_pair_for_wav removes its WAV ...                              *)
GiveBack ==
  /\ IF worker.job.seq = 0
     THEN /\ worker' = [worker EXCEPT !.pc = "settle"]
          /\ memory' = (memory - 1) % UsizeMod
          /\ UNCHANGED <<wav, residue>>
     ELSE /\ worker' = [worker EXCEPT !.pc = "unlink"]
          /\ RemoveWav(worker.job.seq)
          /\ UNCHANGED memory
  /\ UNCHANGED <<enqueueVars, pending, queue, inserted, meta, robbed, bounds>>

(* ... and then the JSON of that number, whosever it is by now. *)
RemoveJson ==
  /\ worker.pc = "unlink"
  /\ worker' = [worker EXCEPT !.pc = "settle"]
  /\ \/ /\ meta' = meta \ {worker.job.seq}
        /\ robbed' = (robbed \/ Waits(worker.job.seq))
     \/ UNCHANGED <<meta, robbed>>
  /\ UNCHANGED <<enqueueVars, pending, memory, queue, inserted, wav, residue, bounds>>

(* The early returns that call finish: the job is aborted or cancelled, or *)
(* its audio is empty, silent, without text, deferred, or could not be     *)
(* transcribed after retries.                                              *)
Discard ==
  /\ worker.pc = "work"
  /\ GiveBack

(* insert_text succeeded. *)
Insert ==
  /\ worker.pc = "work" /\ worker.loaded # NoSegment
  /\ inserted' = Append(inserted, worker.job.seg)
  /\ worker' = [worker EXCEPT !.pc = "typed"]
  /\ UNCHANGED <<enqueueVars, pending, memory, queue, diskVars, bounds>>

(* finish after an insertion. *)
Release ==
  /\ worker.pc = "typed"
  /\ GiveBack

(* handle_pipeline_error: before the insertion (a fatal transcription, text *)
(* or insertion error) or after it (send_enter failed).  The payload is not *)
(* given back.                                                              *)
Fail ==
  /\ worker.pc \in {"work", "typed"} /\ worker.loaded # NoSegment
  /\ worker' = [worker EXCEPT !.pc = "fail"]
  /\ UNCHANGED <<enqueueVars, pending, memory, queue, inserted, diskVars, bounds>>

(* Variant for the checks: an error path that forgets the fetch_sub. *)
SettleUnlessFailed ==
  /\ worker.pc \in {"settle", "fail"}
  /\ pending' = IF worker.pc = "fail" THEN pending ELSE pending - 1
  /\ worker' = IF pending = 1 THEN [worker EXCEPT !.pc = "recover"] ELSE AtRest
  /\ residue' = IF worker.pc = "fail" /\ worker.job.seq # 0
                THEN residue \cup {worker.job.seq} ELSE residue
  /\ UNCHANGED <<enqueueVars, memory, queue, inserted, wav, meta, robbed, bounds>>

(* pending.fetch_sub(1); the caller that took it to zero also recovers the *)
(* controller before the next recv.                                        *)
Settle ==
  /\ worker.pc \in {"settle", "fail"}
  /\ pending' = pending - 1
  /\ worker' = IF pending = 1 THEN [worker EXCEPT !.pc = "recover"] ELSE AtRest
  /\ residue' = IF worker.pc = "fail" /\ worker.job.seq # 0
                THEN residue \cup {worker.job.seq} ELSE residue
  /\ UNCHANGED <<enqueueVars, memory, queue, inserted, wav, meta, robbed, bounds>>

Recover ==
  /\ worker.pc = "recover"
  /\ worker' = AtRest
  /\ UNCHANGED <<enqueueVars, pending, memory, queue, inserted, diskVars, bounds>>

-----------------------------------------------------------------------------
(* clear_spill_queue, called by cancel_pending from a command or the focus *)
(* watch at any moment, but only with the controller's lock, so once at a   *)
(* time.  The jobs that own the files stay on the channel.                 *)
ClearBegins ==
  /\ ~clearing /\ clears < MaxClears
  /\ clearing' = TRUE /\ clears' = clears + 1
  /\ UNCHANGED <<enqueueVars, pending, memory, queue, workerVars, diskVars,
                 shared, crashes>>

(* clear_all removes file after file of what read_dir finds, in any order;  *)
(* it may miss one that comes meanwhile, and ignores errors.               *)
ClearFile ==
  /\ clearing
  /\ \E n \in Slots :
       \/ /\ wav[n] # NoSegment
          /\ wav' = [wav EXCEPT ![n] = NoSegment]
          /\ residue' = residue \ {n}
          /\ UNCHANGED meta
       \/ /\ n \in meta
          /\ meta' = meta \ {n}
          /\ UNCHANGED <<wav, residue>>
  /\ UNCHANGED <<enqueueVars, pending, memory, queue, workerVars, robbed, bounds>>

ClearEnds ==
  /\ clearing
  /\ clearing' = FALSE
  /\ memory' = 0
  /\ UNCHANGED <<enqueueVars, pending, queue, workerVars, diskVars, shared,
                 clears, crashes>>

ClearSpill == ClearBegins \/ ClearFile \/ ClearEnds

(* The process dies and starts again: only the files are left. *)
Crash ==
  /\ crashes < MaxCrashes
  /\ crashes' = crashes + 1
  /\ thread' = [t \in Threads |-> IF t = Boot THEN [Idle EXCEPT !.pc = "list"]
                                  ELSE Idle]
  /\ replay' = {[seg |-> wav[n], seq |-> n] : n \in ListPending}
  /\ pending' = 0 /\ memory' = 0 /\ queue' = <<>>
  /\ worker' = AtRest
  /\ residue' = FilesOnDisk \ ListPending
  /\ clearing' = FALSE
  /\ UNCHANGED <<recorded, inserted, wav, meta, robbed, shared, clears>>

-----------------------------------------------------------------------------
Init ==
  /\ recorded = 0
  /\ thread = [t \in Threads |-> Idle]
  /\ replay = {}
  /\ pending = 0 /\ memory = 0 /\ queue = <<>>
  /\ worker = AtRest
  /\ wav = [n \in Slots |-> NoSegment] /\ meta = {}
  /\ inserted = <<>> /\ residue = {} /\ robbed = FALSE
  /\ clearing = FALSE /\ shared = FALSE /\ clears = 0 /\ crashes = 0

Spill(p) == TakeNumber(p) \/ WriteWav(p) \/ WriteJson(p) \/ SpillFails(p)

Prepare(p) ==
  PrepareInMemory(p) \/ PrepareOnDisk(p) \/ RefuseDiskFull(p) \/ Hold(p)

SendJob(t) == Admit(t) \/ RefuseQueueFull(t) \/ Count(t) \/ Send(t)

Replay == ReplayNext \/ ReplayDone

ThreadStep == \/ \E p \in Producers : Prepare(p) \/ Spill(p)
              \/ \E t \in Threads : SendJob(t)
              \/ Replay

WorkerStep == Receive \/ Load \/ Discard \/ Insert \/ Release \/ RemoveJson
              \/ Fail \/ Settle \/ Recover

Next == \/ \E p \in Producers : Record(p)
        \/ ThreadStep
        \/ WorkerStep
        \/ ClearSpill
        \/ Crash

Spec == Init /\ [][Next]_vars

(* Threads and the worker task keep running; recordings, cancellations and *)
(* crashes may never come.                                                 *)
FairSpec ==
  /\ Spec
  /\ \A p \in Producers : WF_vars(Prepare(p) \/ Spill(p))
  /\ \A t \in Threads : WF_vars(SendJob(t))
  /\ WF_vars(Replay)
  /\ WF_vars(WorkerStep)

-----------------------------------------------------------------------------
(* Properties.                                                             *)

ThreadStates == [pc : {"idle", "prepare", "number", "wav", "json", "hold",
                       "admit", "count", "send", "list"},
                 seg : MaybeSegment, seq : Slots \cup {0}]
WorkerStates == [pc : {"recv", "load", "work", "typed", "unlink", "settle",
                       "fail", "recover"},
                 job : Jobs, loaded : MaybeSegment]

(* Every variable keeps its type; pending and the worker's job never leave *)
(* the values the code can represent (PipelineRuntime, SegmentJob).        *)
TypeOK ==
  /\ recorded \in 0 .. MaxSegments
  /\ thread \in [Threads -> ThreadStates]
  /\ replay \subseteq [seg : Segments, seq : Slots]
  /\ pending \in Nat
  /\ memory \in 0 .. UsizeMod - 1
  /\ queue \in Seq(Jobs)
  /\ worker \in WorkerStates
  /\ inserted \in Seq(MaybeSegment)
  /\ wav \in [Slots -> MaybeSegment]
  /\ meta \subseteq Slots /\ residue \subseteq Slots
  /\ clearing \in BOOLEAN /\ robbed \in BOOLEAN /\ shared \in BOOLEAN
  /\ clears \in 0 .. MaxClears /\ crashes \in 0 .. MaxCrashes

(* pending counts exactly the jobs between their fetch_add and their       *)
(* fetch_sub, whatever enqueues while the worker settles: the fetch_sub    *)
(* never wraps, and only the last job out sees 1 and recovers the          *)
(* controller (send_job, the finish closure, handle_pipeline_error).       *)
PendingExact ==
  pending = Len(queue) + Cardinality(At("send")) + (IF WorkerBusy THEN 1 ELSE 0)

(* The load of pending and its fetch_add are two steps, so the limit can   *)
(* be passed, but by at most one job for each further producer.            *)
BacklogBound == pending <= MaxPending + Cardinality(Producers) - 1

(* No spill file is forgotten: whatever takes up the disk quota belongs to *)
(* a thread, a queued job, the worker or the replay, or was left behind by *)
(* one of the known exits that keep it (send_job refusing, spill failing,  *)
(* a removal failing, handle_pipeline_error, a crash in between).          *)
FilesAccounted == FilesOnDisk \subseteq Owned \cup residue

(* What can mix the spill files of two jobs: a cancellation that empties   *)
(* the directory under the jobs on the channel, two threads that number at *)
(* once, and a finished job that removes the JSON of a number in use again. *)
FilesUndisturbed == clears = 0 /\ ~shared /\ ~robbed

(* The audio a job is processed with is the audio it was queued for: short *)
(* of those three nobody overwrites or deletes its spill file first         *)
(* (next_seq, spill, delete_pair_for_wav), however many threads enqueue,   *)
(* and across crashes and replays.                                         *)
OwnAudio ==
  FilesUndisturbed /\ worker.pc = "work" => worker.loaded = worker.job.seg

(* "Lossless segment queue: VAD/PTT segments are queued instead of dropped" *)
(* (CHANGELOG): a job may find its file gone after a cancellation, but it   *)
(* is never given the audio of another segment.                            *)
NoOthersAudio ==
  worker.pc = "work" => worker.loaded \in {worker.job.seg, NoSegment}

(* In one run of the program no two live jobs share a spill file, and the  *)
(* file of each is complete on disk until its own worker deletes it, short *)
(* of the same three.                                                      *)
DiskJobs == {i \in 1 .. Len(queue) : queue[i].seq # 0}
JobsHaveTheirFile ==
  FilesUndisturbed =>
    /\ \A i \in DiskJobs : queue[i].seq \in ListPending
    /\ \A i, j \in DiskJobs : queue[i].seq = queue[j].seq => i = j

(* The payloads in memory that memory_segments has been told of and not of *)
(* their end.                                                              *)
HeldInMemory ==
  Cardinality({i \in 1 .. Len(queue) : queue[i].seq = 0})
  + Cardinality({t \in Threads : thread[t].pc \in {"admit", "count", "send"}
                                /\ thread[t].seq = 0})
  + (IF worker.pc \in {"load", "work", "typed", "fail"} /\ worker.job.seq = 0
     THEN 1 ELSE 0)

(* memory_segments never counts less than is held, whatever is spilled,     *)
(* refused or fails: only clear_spill_queue, which zeroes it under the jobs *)
(* that stay on the channel, can make it wrap or let prepare_payload keep   *)
(* more in memory than the setting allows.                                 *)
MemoryCovered == clears = 0 => memory >= HeldInMemory

(* A segment is spilled only while RamCap segments wait in memory, which   *)
(* is what the setting says ("In-RAM segments before disk spill").         *)
SpillOnlyAtRamCap ==
  [][\A p \in Producers :
       thread[p].pc = "prepare" /\ thread'[p].pc = "number"
         => HeldInMemory >= RamCap]_vars

(* The queue keeps what SegmentDelivery promises, its fairness included:   *)
(* first in, first out, at most one insertion for each acceptance.         *)
Waiting ==
  (IF worker.pc \in {"load", "work"} THEN <<worker.job.seg>> ELSE <<>>)
  \o [i \in 1 .. Len(queue) |-> queue[i].seg]

Delivery == INSTANCE SegmentDelivery WITH waiting <- Waiting, typed <- inserted

ImplementsDelivery == Delivery!Spec

=============================================================================
