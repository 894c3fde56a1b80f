----------------------------- MODULE LlmEngine -----------------------------
(***************************************************************************)
(* The local language model (llm/engine.rs).  An engine is a mutex around   *)
(* its state, shared by those who have a handle; while it is ready a thread  *)
(* of its own has the model in memory and serves a channel.  The engine in   *)
(* use is in a cell behind a read-write lock, shared by the context and the  *)
(* pipeline.  Who wants a text rewritten makes sure that there is an engine, *)
(* takes a handle and asks; others take the engine out and shut it down.     *)
(* The last to drop a handle shuts the engine down too, wherever that is:    *)
(* in an assignment to the cell it is under the cell's lock.                 *)
(*                                                                         *)
(* Engines without a thread are all alike: NoEngine.  Every process has one  *)
(* record: where it is, the handle it works with, and the one it is dropping *)
(* (with where it goes on then).                                            *)
(***************************************************************************)
EXTENDS Naturals, Sequences

CONSTANTS Procs, Nobody,
          Engines, NoEngine,
          MayFail     \* the model may turn out not to load

ASSUME EngineAssumption ==
  /\ Nobody \notin Procs /\ NoEngine \notin Engines
  /\ MayFail \in BOOLEAN

VARIABLES
  cell, cellLock,  \* llm_engine, and who assigns to it
  ready, inner,    \* the state of each engine, and who has its mutex
  thread, box,     \* worker_main of each, and its channel
  llm              \* the processes

llmVars == <<cell, cellLock, ready, inner, thread, box, llm>>

UserPcs == {"ensure", "load", "store", "take", "ask", "send", "wait", "leave"}
UnloadPcs == {"look", "swap", "sync", "reread", "write", "defer", "again"}
DropPcs == {"shut", "join", "release"}
LlmPcs == {"idle"} \cup UserPcs \cup UnloadPcs \cup DropPcs
Replies == {"none", "text", "error", "dropped"}

Resting == [pc |-> "idle", then |-> "idle", eng |-> NoEngine, old |-> NoEngine,
            reply |-> "none"]

LlmInit ==
  /\ cell = NoEngine /\ cellLock = Nobody
  /\ ready = [e \in Engines |-> FALSE]
  /\ inner = [e \in Engines |-> Nobody]
  /\ thread = [e \in Engines |-> "ended"]
  /\ box = [e \in Engines |-> <<>>]
  /\ llm = [p \in Procs |-> Resting]

LlmAt(p, pc) == llm[p].pc = pc
LlmIdle(p) == LlmAt(p, "idle")
LlmGoes(p, pc) == llm' = [llm EXCEPT ![p].pc = pc]
KeepEngines == UNCHANGED <<ready, inner, thread, box>>

Has(p, e) == llm[p].eng = e \/ llm[p].old = e
Held(e) == cell = e \/ \E p \in Procs : Has(p, e)
OthersHold(p, e) == \E q \in Procs \ {p} : Has(q, e)

IsReady(e) == e # NoEngine /\ ready[e]

(* Whoever reads the cell waits for an assignment to it, and is_ready for   *)
(* the engine's mutex.                                                     *)
CellFree == cellLock = Nobody
Unlocked(e) == e # NoEngine => inner[e] = Nobody

-----------------------------------------------------------------------------
(* The thread of an engine: worker_main.                                   *)

Command(kind, p) == [kind |-> kind, from |-> p]

Build(e) ==
  /\ thread[e] = "building"
  /\ thread' = [thread EXCEPT ![e] = "serving"]
  /\ UNCHANGED <<cell, cellLock, ready, inner, box, llm>>

(* It goes on, and answers everything with the error.                       *)
BuildFails(e) ==
  /\ MayFail
  /\ thread[e] = "building"
  /\ thread' = [thread EXCEPT ![e] = "deaf"]
  /\ UNCHANGED <<cell, cellLock, ready, inner, box, llm>>

Complete(e) ==
  /\ thread[e] \in {"serving", "deaf"}
  /\ box[e] # <<>> /\ Head(box[e]).kind = "complete"
  /\ box' = [box EXCEPT ![e] = Tail(@)]
  /\ \E r \in IF thread[e] = "deaf" THEN {"error"} ELSE {"text", "error"} :
       llm' = [llm EXCEPT ![Head(box[e]).from].reply = r]
  /\ UNCHANGED <<cell, cellLock, ready, inner, thread>>

InBox(e, p) == \E i \in DOMAIN box[e] : box[e][i] = Command("complete", p)

(* What is behind a shutdown is dropped with the channel, and its sender    *)
(* told so.                                                                *)
DropBox(e) ==
  llm' = [p \in Procs |-> IF InBox(e, p) THEN [llm[p] EXCEPT !.reply = "dropped"]
                          ELSE llm[p]]

(* Variant for the checks: nobody is told. *)
ShutDownSilently(e) ==
  /\ thread[e] = "serving"
  /\ box[e] # <<>> /\ Head(box[e]).kind = "shutdown"
  /\ thread' = [thread EXCEPT ![e] = "ended"]
  /\ box' = [box EXCEPT ![e] = <<>>]
  /\ UNCHANGED <<cell, cellLock, ready, inner, llm>>

ShutDown(e) ==
  /\ thread[e] = "serving"
  /\ box[e] # <<>> /\ Head(box[e]).kind = "shutdown"
  /\ thread' = [thread EXCEPT ![e] = "ended"]
  /\ box' = [box EXCEPT ![e] = <<>>]
  /\ DropBox(e)
  /\ UNCHANGED <<cell, cellLock, ready, inner>>

(* A thread whose model did not load takes no notice of it. *)
IgnoreShutdown(e) ==
  /\ thread[e] = "deaf"
  /\ box[e] # <<>> /\ Head(box[e]).kind = "shutdown"
  /\ box' = [box EXCEPT ![e] = Tail(@)]
  /\ UNCHANGED <<cell, cellLock, ready, inner, thread, llm>>

(* Nobody has the channel any more; the name is free again. *)
HangUp(e) ==
  /\ thread[e] \in {"serving", "deaf"} /\ box[e] = <<>> /\ ~Held(e)
  /\ thread' = [thread EXCEPT ![e] = "ended"]
  /\ ready' = [ready EXCEPT ![e] = FALSE]
  /\ UNCHANGED <<cell, cellLock, inner, box, llm>>

ThreadStep(e) ==
  Build(e) \/ BuildFails(e) \/ Complete(e) \/ ShutDown(e) \/ IgnoreShutdown(e) \/ HangUp(e)

-----------------------------------------------------------------------------
(* Dropping a handle, and shutting an engine down.                          *)

(* Drop: the last handle to a ready engine shuts it down first.  Two that    *)
(* drop the last two may each find that it is not the last.                 *)
DropGoes(p, e) == IF OthersHold(p, e) \/ ~IsReady(e) THEN "release" ELSE "shut"

Release(p) ==
  /\ LlmAt(p, "release")
  /\ llm' = [llm EXCEPT ![p].pc = llm[p].then, ![p].then = "idle", ![p].old = NoEngine]
  /\ cellLock' = IF cellLock = p THEN Nobody ELSE cellLock
  /\ UNCHANGED cell /\ KeepEngines

(* unload, with the mutex.  The answer to the shutdown is waited for (120   *)
(* seconds at most), and then the end of the thread in any case.            *)
SendShutdown(p) ==
  /\ LlmAt(p, "shut")
  /\ LET e == llm[p].old
     IN /\ inner[e] = Nobody
        /\ IF ready[e]
           THEN /\ LlmGoes(p, "join")
                /\ inner' = [inner EXCEPT ![e] = p]
                /\ box' = [box EXCEPT ![e] = Append(@, Command("shutdown", p))]
           ELSE LlmGoes(p, "release") /\ UNCHANGED <<inner, box>>
  /\ UNCHANGED <<cell, cellLock, ready, thread>>

(* Variant for the checks: the thread is not waited for. *)
JoinUnwaited(p) ==
  /\ LlmAt(p, "join")
  /\ LlmGoes(p, "release")
  /\ ready' = [ready EXCEPT ![llm[p].old] = FALSE]
  /\ inner' = [inner EXCEPT ![llm[p].old] = Nobody]
  /\ UNCHANGED <<cell, cellLock, thread, box>>

Join(p) ==
  /\ LlmAt(p, "join") /\ thread[llm[p].old] = "ended"
  /\ LlmGoes(p, "release")
  /\ ready' = [ready EXCEPT ![llm[p].old] = FALSE]
  /\ inner' = [inner EXCEPT ![llm[p].old] = Nobody]
  /\ UNCHANGED <<cell, cellLock, thread, box>>

(* An assignment to the cell drops what was in it before it lets the lock   *)
(* go.                                                                     *)
Assign(p, e, then) ==
  /\ CellFree
  /\ cell' = e
  /\ IF cell = NoEngine
     THEN /\ llm' = [llm EXCEPT ![p].pc = then, ![p].eng = NoEngine]
          /\ UNCHANGED cellLock
     ELSE /\ llm' = [llm EXCEPT ![p].pc = IF e = cell THEN "release" ELSE DropGoes(p, cell),
                                ![p].then = then, ![p].eng = NoEngine, ![p].old = cell]
          /\ cellLock' = p
  /\ KeepEngines

-----------------------------------------------------------------------------
(* Rewriting.                                                              *)

(* ensure_loaded looks ... *)
Ensure(p) ==
  /\ LlmAt(p, "ensure") /\ CellFree /\ Unlocked(cell)
  /\ LlmGoes(p, IF IsReady(cell) THEN "take" ELSE "load")
  /\ UNCHANGED <<cell, cellLock>> /\ KeepEngines

(* ... loads, that is, starts a thread that will ...                        *)
Fresh == {e \in Engines : ~Held(e) /\ thread[e] = "ended"}

Load(p) ==
  /\ LlmAt(p, "load")
  /\ \E e \in Fresh :
       /\ llm' = [llm EXCEPT ![p].pc = "store", ![p].eng = e]
       /\ ready' = [ready EXCEPT ![e] = TRUE]
       /\ thread' = [thread EXCEPT ![e] = "building"]
  /\ UNCHANGED <<cell, cellLock, inner, box>>

(* (there is no file) *)
LoadRefused(p) ==
  /\ LlmAt(p, "load") /\ LlmGoes(p, "idle")
  /\ UNCHANGED <<cell, cellLock>> /\ KeepEngines

(* ... and stores. *)
Store(p) == LlmAt(p, "store") /\ Assign(p, llm[p].eng, "take")

Take(p) ==
  /\ LlmAt(p, "take") /\ CellFree
  /\ llm' = [llm EXCEPT ![p].pc = IF cell = NoEngine THEN "idle" ELSE "ask", ![p].eng = cell]
  /\ UNCHANGED <<cell, cellLock>> /\ KeepEngines

(* complete: the handle of the thread is taken with the mutex, the command  *)
(* sent without it.                                                        *)
Ask(p) ==
  /\ LlmAt(p, "ask") /\ Unlocked(llm[p].eng)
  /\ LlmGoes(p, IF IsReady(llm[p].eng) THEN "send" ELSE "leave")
  /\ UNCHANGED <<cell, cellLock>> /\ KeepEngines

Send(p) ==
  /\ LlmAt(p, "send")
  /\ LET e == llm[p].eng
     IN IF thread[e] = "ended" THEN LlmGoes(p, "leave") /\ UNCHANGED box
        ELSE LlmGoes(p, "wait") /\ box' = [box EXCEPT ![e] = Append(@, Command("complete", p))]
  /\ UNCHANGED <<cell, cellLock, ready, inner, thread>>

(* A text may be asked for once more, from the same handle. *)
Answered(p) ==
  /\ LlmAt(p, "wait") /\ llm[p].reply # "none"
  /\ \E pc \in IF llm[p].reply = "text" THEN {"ask", "leave"} ELSE {"leave"} :
       llm' = [llm EXCEPT ![p].pc = pc, ![p].reply = "none"]
  /\ UNCHANGED <<cell, cellLock>> /\ KeepEngines

Leave(p) ==
  /\ LlmAt(p, "leave")
  /\ LET e == llm[p].eng
     IN llm' = [llm EXCEPT ![p].pc = IF cell = e THEN "release" ELSE DropGoes(p, e),
                           ![p].eng = NoEngine, ![p].old = e]
  /\ UNCHANGED <<cell, cellLock>> /\ KeepEngines

-----------------------------------------------------------------------------
(* Taking the engine out.                                                  *)

(* unload_local_llm_for_idle looks first, sync_llm_engine_owned does not. *)
Look(p) ==
  /\ LlmAt(p, "look") /\ CellFree /\ Unlocked(cell)
  /\ LlmGoes(p, IF IsReady(cell) THEN "swap" ELSE "idle")
  /\ UNCHANGED <<cell, cellLock>> /\ KeepEngines

TakeOut(p, then) ==
  /\ CellFree
  /\ cell' = NoEngine
  /\ llm' = [llm EXCEPT ![p].pc = IF cell = NoEngine THEN then ELSE "shut",
                        ![p].then = IF cell = NoEngine THEN "idle" ELSE then,
                        ![p].old = cell]
  /\ UNCHANGED cellLock /\ KeepEngines

Swap(p) == LlmAt(p, "swap") /\ TakeOut(p, "reread")
Sync(p) == LlmAt(p, "sync") /\ TakeOut(p, "defer")

(* What is in the cell by now is read and written back, for the pipeline,   *)
(* whose cell it is as well.                                               *)
Reread(p) ==
  /\ LlmAt(p, "reread") /\ CellFree
  /\ llm' = [llm EXCEPT ![p].pc = "write", ![p].eng = cell]
  /\ UNCHANGED <<cell, cellLock>> /\ KeepEngines

Write(p) == LlmAt(p, "write") /\ Assign(p, llm[p].eng, "idle")

(* With a new model still needed the cell is written, twice, without one:   *)
(* it is loaded when it is first asked for.                                *)
Defer(p) == LlmAt(p, "defer") /\ Assign(p, NoEngine, "again")
DeferAgain(p) == LlmAt(p, "again") /\ Assign(p, NoEngine, "idle")

LlmStep(p) ==
  \/ Release(p) \/ SendShutdown(p) \/ Join(p)
  \/ Ensure(p) \/ Load(p) \/ LoadRefused(p) \/ Store(p) \/ Take(p) \/ Ask(p) \/ Send(p)
  \/ Answered(p) \/ Leave(p)
  \/ Look(p) \/ Swap(p) \/ Sync(p) \/ Reread(p) \/ Write(p) \/ Defer(p) \/ DeferAgain(p)

-----------------------------------------------------------------------------
(* Properties.                                                             *)

Alive(e) == thread[e] \in {"building", "serving", "deaf"}

(* An engine somebody can reach says that it is ready if and only if its    *)
(* thread is there, but for the moment somebody shuts it down: nobody is    *)
(* sent to a model that has gone, and no model stays in memory that has     *)
(* been unloaded.                                                          *)
ReadyIffAlive ==
  \A e \in Engines : Held(e) /\ inner[e] = Nobody => (ready[e] <=> Alive(e))

(* Who waits for an answer has a question in the channel of a thread that   *)
(* reads it, whoever unloads the engine and whether the model has loaded.   *)
NobodyWaitsInVain ==
  \A p \in Procs : LlmAt(p, "wait") /\ llm[p].reply = "none" =>
    Alive(llm[p].eng) /\ InBox(llm[p].eng, p)

=============================================================================
