--------------------------- MODULE ModelIdle_proofs ---------------------------
(***************************************************************************)
(* Theorems about the language model's engines and about the transcriber in *)
(* ModelIdle, for every number of engines and whatever is local, and        *)
(* without any of the bounds.                                              *)
(***************************************************************************)
EXTENDS ModelIdle, SequenceTheorems, TLAPS

-----------------------------------------------------------------------------
(* The inductive invariant, in parts.                                      *)

ChannelCommands == [kind : {"complete", "shutdown"}, from : Procs]
Handles == Engines \cup {NoEngine}
Resumptions == {"idle", "take", "reread", "defer", "again"}
LlmStates == [pc : LlmPcs, then : Resumptions, eng : Handles, old : Handles,
              reply : Replies]

EngineTypeOK ==
  /\ cell \in Handles
  /\ ready \in [Engines -> BOOLEAN]
  /\ inner \in [Engines -> Procs \cup {Nobody}]
  /\ thread \in [Engines -> {"building", "serving", "deaf", "ended"}]
  /\ box \in [Engines -> Seq(ChannelCommands)]
  /\ llm \in [Procs -> LlmStates]

(* Who works with an engine, or drops one, has one. *)
HandleInv ==
  \A p \in Procs :
    /\ llm[p].pc \in {"store", "ask", "send", "wait", "leave"} => llm[p].eng \in Engines
    /\ llm[p].pc \in DropPcs => llm[p].old \in Engines

(* The mutex is kept over a step only by who waits for the thread to end.   *)
MutexInv ==
  /\ \A e \in Engines : inner[e] # Nobody =>
       LlmAt(inner[e], "join") /\ llm[inner[e]].old = e /\ ready[e]
  /\ \A p \in Procs : LlmAt(p, "join") => inner[llm[p].old] = p

(* A shutdown that has not been read is that of who has the mutex, and a    *)
(* thread that has ended has no channel.                                   *)
BoxInv ==
  /\ \A e \in Engines : \A i \in DOMAIN box[e] :
       box[e][i].kind = "shutdown" => inner[e] = box[e][i].from
  /\ \A e \in Engines : thread[e] = "ended" => box[e] = <<>>

EngineInv ==
  EngineTypeOK /\ HandleInv /\ MutexInv /\ BoxInv /\ ReadyIffAlive /\ NobodyWaitsInVain

-----------------------------------------------------------------------------
(* Channels.                                                               *)

LEMMA AppendFacts ==
  ASSUME NEW S, NEW s \in Seq(S), NEW x \in S
  PROVE  /\ Append(s, x) \in Seq(S)
         /\ DOMAIN Append(s, x) = 1 .. Len(s) + 1
         /\ DOMAIN s = 1 .. Len(s)
         /\ \A i \in 1 .. Len(s) : Append(s, x)[i] = s[i]
         /\ Append(s, x)[Len(s) + 1] = x
         /\ Append(s, x) # <<>>
BY AppendProperties

LEMMA TailFacts ==
  ASSUME NEW S, NEW s \in Seq(S), s # <<>>
  PROVE  /\ Tail(s) \in Seq(S)
         /\ DOMAIN Tail(s) = 1 .. Len(s) - 1
         /\ DOMAIN s = 1 .. Len(s)
         /\ Len(s) \in Nat \ {0}
         /\ \A i \in 1 .. Len(s) - 1 : Tail(s)[i] = s[i + 1]
         /\ Head(s) = s[1] /\ Head(s) \in S
BY HeadTailProperties, EmptySeq

-----------------------------------------------------------------------------
(* A process that goes on without touching an engine: it is not one that    *)
(* waits for the end of a thread, does not begin to wait for anything, and   *)
(* holds afterwards only what it held or was in the cell.                   *)
Moves(p, r) ==
  /\ llm' = [llm EXCEPT ![p] = r]
  /\ KeepEngines
  /\ r \in LlmStates /\ cell' \in Handles
  /\ llm[p].pc # "join" /\ r.pc \notin {"join", "wait"}
  /\ r.pc \in {"store", "ask", "send", "leave"} => r.eng \in Engines
  /\ r.pc \in DropPcs => r.old \in Engines
  /\ {r.eng, r.old, cell'} \subseteq {NoEngine, cell, llm[p].eng, llm[p].old}

LEMMA MovesOn ==
  ASSUME EngineInv, NEW p \in Procs, NEW r, Moves(p, r)
  PROVE  EngineInv'
<1>1. /\ llm'[p] = r
      /\ \A q \in Procs \ {p} : llm'[q] = llm[q]
      /\ UNCHANGED <<ready, inner, thread, box>>
  BY DEF Moves, EngineInv, EngineTypeOK, KeepEngines
<1>2. EngineTypeOK'
  BY <1>1 DEF Moves, EngineInv, EngineTypeOK
<1>3. HandleInv'
  BY <1>1 DEF Moves, EngineInv, HandleInv
<1>4. MutexInv'
  BY <1>1 DEF Moves, EngineInv, EngineTypeOK, MutexInv, LlmAt
<1>5. BoxInv'
  BY <1>1 DEF EngineInv, BoxInv
<1>6. \A e \in Engines : Held(e)' => Held(e)
  BY <1>1, EngineAssumption DEF Moves, Held, Has
<1>7. ReadyIffAlive'
  BY <1>1, <1>6 DEF EngineInv, ReadyIffAlive, Alive
<1>8. NobodyWaitsInVain'
  BY <1>1 DEF Moves, EngineInv, NobodyWaitsInVain, Alive, InBox, LlmAt
<1> QED
  BY <1>2, <1>3, <1>4, <1>5, <1>7, <1>8 DEF EngineInv

(* The forms in which the actions write it.                                 *)
LEMMA GoesOn ==
  ASSUME EngineInv, NEW p \in Procs, NEW pc \in LlmPcs, LlmGoes(p, pc), KeepEngines,
         UNCHANGED cell, llm[p].pc # "join", pc \notin {"join", "wait"} \cup DropPcs,
         pc \in {"store", "ask", "send", "leave"} => llm[p].eng \in Engines
  PROVE  EngineInv'
<1> DEFINE r == [llm[p] EXCEPT !.pc = pc]
<1>1. llm[p] \in LlmStates
  BY DEF EngineInv, EngineTypeOK
<1>2. r \in LlmStates /\ r.pc = pc /\ r.eng = llm[p].eng /\ r.old = llm[p].old
  BY <1>1 DEF LlmStates
<1>3. llm' = [llm EXCEPT ![p] = r]
  BY <1>1 DEF LlmGoes, EngineInv, EngineTypeOK
<1>4. Moves(p, r)
  BY <1>2, <1>3 DEF Moves, EngineInv, EngineTypeOK
<1> QED
  BY <1>4, MovesOn

LEMMA AssignKeeps ==
  ASSUME EngineInv, NEW p \in Procs, NEW e \in Handles, e \in {NoEngine, llm[p].eng},
         NEW then \in Resumptions, Assign(p, e, then), llm[p].pc # "join"
  PROVE  EngineInv'
<1> DEFINE r == IF cell = NoEngine THEN [llm[p] EXCEPT !.pc = then, !.eng = NoEngine]
                ELSE [llm[p] EXCEPT !.pc = IF e = cell THEN "release" ELSE DropGoes(p, cell),
                                    !.then = then, !.eng = NoEngine, !.old = cell]
<1>1. llm[p] \in LlmStates /\ then \in LlmPcs /\ cell \in Handles
  BY DEF EngineInv, EngineTypeOK, Resumptions, LlmPcs, UserPcs, UnloadPcs
<1>2. /\ r \in LlmStates /\ r.eng = NoEngine
      /\ r.old \in {cell, llm[p].old}
      /\ r.pc \in {then, "release", "shut"}
      /\ r.pc \in DropPcs => r.old \in Engines
  BY <1>1 DEF LlmStates, LlmPcs, DropPcs, DropGoes, Handles, Resumptions
<1>3. llm' = [llm EXCEPT ![p] = r] /\ cell' = e /\ KeepEngines
  BY <1>1 DEF Assign, EngineInv, EngineTypeOK
<1>4. Moves(p, r)
  BY <1>2, <1>3 DEF Moves, Resumptions, DropPcs
<1> QED
  BY <1>4, MovesOn

LEMMA TakeOutKeeps ==
  ASSUME EngineInv, NEW p \in Procs, NEW then \in Resumptions, TakeOut(p, then),
         llm[p].pc # "join"
  PROVE  EngineInv'
<1> DEFINE r == [llm[p] EXCEPT !.pc = IF cell = NoEngine THEN then ELSE "shut",
                               !.then = IF cell = NoEngine THEN "idle" ELSE then,
                               !.old = cell]
<1>1. llm[p] \in LlmStates /\ then \in LlmPcs /\ cell \in Handles
  BY DEF EngineInv, EngineTypeOK, Resumptions, LlmPcs, UserPcs, UnloadPcs
<1>2. /\ r \in LlmStates /\ r.eng = llm[p].eng /\ r.old = cell
      /\ r.pc \in {then, "shut"}
      /\ r.pc \in DropPcs => r.old \in Engines
  BY <1>1 DEF LlmStates, LlmPcs, DropPcs, Handles, Resumptions
<1>3. llm' = [llm EXCEPT ![p] = r] /\ cell' = NoEngine /\ KeepEngines
  BY <1>1 DEF TakeOut, EngineInv, EngineTypeOK
<1>4. Moves(p, r)
  BY <1>2, <1>3 DEF Moves, Resumptions, DropPcs, Handles
<1> QED
  BY <1>4, MovesOn

-----------------------------------------------------------------------------
(* One lemma for each kind of step.  First those that touch no engine.      *)

LEMMA HandleSteps ==
  ASSUME EngineInv, NEW p \in Procs,
         \/ Release(p) \/ Ensure(p) \/ LoadRefused(p) \/ Store(p) \/ Take(p) \/ Ask(p)
         \/ Answered(p) \/ Leave(p) \/ Look(p) \/ Swap(p) \/ Sync(p) \/ Reread(p)
         \/ Write(p) \/ Defer(p) \/ DeferAgain(p)
  PROVE  EngineInv'
<1>0. /\ llm[p] \in LlmStates /\ cell \in Handles
      /\ llm \in [Procs -> LlmStates]
  BY DEF EngineInv, EngineTypeOK
<1> USE DEF LlmAt
<1>1. CASE Release(p)
  <2> DEFINE r == [llm[p] EXCEPT !.pc = llm[p].then, !.then = "idle", !.old = NoEngine]
  <2>1. /\ r \in LlmStates /\ r.pc = llm[p].then /\ r.eng = llm[p].eng /\ r.old = NoEngine
        /\ r.pc \in Resumptions
    BY <1>0 DEF LlmStates, Resumptions, LlmPcs, UserPcs, UnloadPcs, Handles
  <2>2. llm' = [llm EXCEPT ![p] = r] /\ cell' = cell /\ KeepEngines
    BY <1>0, <1>1 DEF Release
  <2>3. Moves(p, r)
    BY <1>0, <1>1, <2>1, <2>2 DEF Release, Moves, Resumptions, DropPcs
  <2> QED
    BY <2>3, MovesOn
<1>2. CASE Ensure(p)
  BY <1>2, GoesOn DEF Ensure, LlmPcs, UserPcs, DropPcs
<1>3. CASE LoadRefused(p)
  BY <1>3, GoesOn DEF LoadRefused, LlmPcs, DropPcs
<1>4. CASE Store(p)
  <2>1. llm[p].eng \in Handles /\ Assign(p, llm[p].eng, "take")
    BY <1>0, <1>4 DEF Store, LlmStates
  <2> QED
    BY <1>4, <2>1, AssignKeeps DEF Store, Resumptions
<1>5. CASE Take(p)
  <2> DEFINE r == [llm[p] EXCEPT !.pc = IF cell = NoEngine THEN "idle" ELSE "ask", !.eng = cell]
  <2>1. /\ r \in LlmStates /\ r.eng = cell /\ r.old = llm[p].old
        /\ r.pc = "idle" \/ (r.pc = "ask" /\ cell \in Engines)
    BY <1>0 DEF LlmStates, LlmPcs, UserPcs, Handles
  <2>2. llm' = [llm EXCEPT ![p] = r] /\ cell' = cell /\ KeepEngines
    BY <1>0, <1>5 DEF Take
  <2>3. Moves(p, r)
    BY <1>0, <1>5, <2>1, <2>2 DEF Take, Moves, DropPcs, Handles
  <2> QED
    BY <2>3, MovesOn
<1>6. CASE Ask(p)
  <2>1. llm[p].eng \in Engines
    BY <1>6 DEF Ask, EngineInv, HandleInv
  <2> QED
    BY <1>6, <2>1, GoesOn DEF Ask, LlmPcs, UserPcs, DropPcs
<1>7. CASE Answered(p)
  <2>1. PICK pc \in {"ask", "leave"} :
          llm' = [llm EXCEPT ![p].pc = pc, ![p].reply = "none"]
    BY <1>7 DEF Answered
  <2>2. llm[p].eng \in Engines
    BY <1>7 DEF Answered, EngineInv, HandleInv
  <2> DEFINE r == [llm[p] EXCEPT !.pc = pc, !.reply = "none"]
  <2>3. r \in LlmStates /\ r.pc = pc /\ r.eng = llm[p].eng /\ r.old = llm[p].old
    BY <1>0 DEF LlmStates, LlmPcs, UserPcs, Replies
  <2>4. llm' = [llm EXCEPT ![p] = r] /\ cell' = cell /\ KeepEngines
    BY <1>0, <1>7, <2>1 DEF Answered
  <2>5. Moves(p, r)
    BY <1>0, <1>7, <2>2, <2>3, <2>4 DEF Answered, Moves, DropPcs
  <2> QED
    BY <2>5, MovesOn
<1>8. CASE Leave(p)
  <2>1. llm[p].eng \in Engines
    BY <1>8 DEF Leave, EngineInv, HandleInv
  <2> DEFINE r == [llm[p] EXCEPT !.pc = IF cell = llm[p].eng THEN "release"
                                        ELSE DropGoes(p, llm[p].eng),
                                 !.eng = NoEngine, !.old = llm[p].eng]
  <2>2. /\ r \in LlmStates /\ r.eng = NoEngine /\ r.old = llm[p].eng
        /\ r.pc \in {"release", "shut"}
    BY <1>0, <2>1 DEF LlmStates, LlmPcs, DropPcs, DropGoes, Handles
  <2>3. llm' = [llm EXCEPT ![p] = r] /\ cell' = cell /\ KeepEngines
    BY <1>0, <1>8 DEF Leave
  <2>4. Moves(p, r)
    BY <1>0, <1>8, <2>1, <2>2, <2>3 DEF Leave, Moves, DropPcs
  <2> QED
    BY <2>4, MovesOn
<1>9. CASE Look(p)
  BY <1>9, GoesOn DEF Look, LlmPcs, UnloadPcs, DropPcs
<1>10. CASE Swap(p)
  BY <1>10, TakeOutKeeps DEF Swap, Resumptions
<1>11. CASE Sync(p)
  BY <1>11, TakeOutKeeps DEF Sync, Resumptions
<1>12. CASE Reread(p)
  <2> DEFINE r == [llm[p] EXCEPT !.pc = "write", !.eng = cell]
  <2>1. r \in LlmStates /\ r.eng = cell /\ r.old = llm[p].old /\ r.pc = "write"
    BY <1>0 DEF LlmStates, LlmPcs, UnloadPcs
  <2>2. llm' = [llm EXCEPT ![p] = r] /\ cell' = cell /\ KeepEngines
    BY <1>0, <1>12 DEF Reread
  <2>3. Moves(p, r)
    BY <1>0, <1>12, <2>1, <2>2 DEF Reread, Moves, DropPcs
  <2> QED
    BY <2>3, MovesOn
<1>13. CASE Write(p)
  <2>1. llm[p].eng \in Handles /\ Assign(p, llm[p].eng, "idle")
    BY <1>0, <1>13 DEF Write, LlmStates
  <2> QED
    BY <1>13, <2>1, AssignKeeps DEF Write, Resumptions
<1>14. CASE Defer(p)
  BY <1>14, AssignKeeps DEF Defer, Resumptions, Handles
<1>15. CASE DeferAgain(p)
  BY <1>15, AssignKeeps DEF DeferAgain, Resumptions, Handles
<1> QED
  BY <1>1, <1>2, <1>3, <1>4, <1>5, <1>6, <1>7, <1>8, <1>9, <1>10, <1>11, <1>12, <1>13,
     <1>14, <1>15

LEMMA StartKeeps ==
  ASSUME EngineInv, NEW p \in Procs, NEW pc \in {"ensure", "look", "swap", "sync"},
         StartLlm(p, pc)
  PROVE  EngineInv'
BY GoesOn DEF StartLlm, LlmIdle, LlmAt, LlmPcs, UserPcs, UnloadPcs, DropPcs

-----------------------------------------------------------------------------
(* Steps that touch an engine.                                             *)

(* Who sends the shutdown takes the mutex and finds a thread that reads.    *)
LEMMA SendShutdownKeeps ==
  ASSUME EngineInv, NEW p \in Procs, SendShutdown(p)
  PROVE  EngineInv'
<1> DEFINE e == llm[p].old
<1>1. /\ llm[p] \in LlmStates /\ e \in Engines /\ llm[p].pc = "shut" /\ inner[e] = Nobody
      /\ llm \in [Procs -> LlmStates]
  BY DEF SendShutdown, LlmAt, EngineInv, EngineTypeOK, HandleInv, DropPcs
<1>2. CASE ~ready[e]
  <2> DEFINE r == [llm[p] EXCEPT !.pc = "release"]
  <2>1. r \in LlmStates /\ r.eng = llm[p].eng /\ r.old = e /\ r.pc = "release"
    BY <1>1 DEF LlmStates, LlmPcs, DropPcs
  <2>2. llm' = [llm EXCEPT ![p] = r] /\ cell' = cell /\ KeepEngines
    BY <1>1, <1>2 DEF SendShutdown, LlmGoes, KeepEngines
  <2>3. Moves(p, r)
    BY <1>1, <2>1, <2>2 DEF Moves, DropPcs, EngineInv, EngineTypeOK
  <2> QED
    BY <2>3, MovesOn
<1>3. CASE ready[e]
  <2> DEFINE c == Command("shutdown", p)
  <2>1. /\ llm' = [llm EXCEPT ![p].pc = "join"]
        /\ inner' = [inner EXCEPT ![e] = p]
        /\ box' = [box EXCEPT ![e] = Append(@, c)]
        /\ UNCHANGED <<cell, cellLock, ready, thread>>
    BY <1>3 DEF SendShutdown, LlmGoes
  <2>2. /\ llm'[p] = [llm[p] EXCEPT !.pc = "join"] /\ llm'[p] \in LlmStates
        /\ llm'[p].pc = "join" /\ llm'[p].old = e /\ llm'[p].eng = llm[p].eng
        /\ \A q \in Procs \ {p} : llm'[q] = llm[q]
        /\ llm' \in [Procs -> LlmStates]
    BY <1>1, <2>1 DEF LlmStates, LlmPcs, DropPcs
  <2>0. c \in ChannelCommands /\ c.kind = "shutdown" /\ c.from = p
    BY DEF Command, ChannelCommands
  <2>3. /\ c \in ChannelCommands /\ c.kind = "shutdown" /\ c.from = p
        /\ box[e] \in Seq(ChannelCommands) /\ box \in [Engines -> Seq(ChannelCommands)]
        /\ inner \in [Engines -> Procs \cup {Nobody}]
    BY <1>1, <2>0 DEF EngineInv, EngineTypeOK
  <2>4. /\ box'[e] = Append(box[e], c) /\ inner'[e] = p
        /\ \A x \in Engines \ {e} : box'[x] = box[x] /\ inner'[x] = inner[x]
    BY <1>1, <2>1, <2>3
  <2>5. /\ box'[e] \in Seq(ChannelCommands)
        /\ DOMAIN box'[e] = 1 .. Len(box[e]) + 1 /\ DOMAIN box[e] = 1 .. Len(box[e])
        /\ \A i \in 1 .. Len(box[e]) : box'[e][i] = box[e][i]
        /\ box'[e][Len(box[e]) + 1] = c /\ Len(box[e]) \in Nat
    BY <2>3, <2>4, AppendFacts
  <2>6. EngineTypeOK'
    <3>1. box' \in [Engines -> Seq(ChannelCommands)]
      BY <1>1, <2>1, <2>3, <2>5
    <3>2. inner' \in [Engines -> Procs \cup {Nobody}]
      BY <1>1, <2>1, <2>3
    <3> QED
      BY <2>1, <2>2, <3>1, <3>2 DEF EngineInv, EngineTypeOK
  <2>7. HandleInv'
    BY <1>1, <2>2 DEF EngineInv, HandleInv, DropPcs
  <2>8. MutexInv'
    BY <1>1, <1>3, <2>1, <2>2, <2>4, EngineAssumption DEF EngineInv, MutexInv, LlmAt
  <2>9. thread[e] # "ended"
    BY <1>1, <1>3 DEF EngineInv, ReadyIffAlive, Alive, Held, Has
  <2>10. BoxInv'
    <3>1. ASSUME NEW x \in Engines, NEW i \in DOMAIN box'[x], box'[x][i].kind = "shutdown"
          PROVE  inner'[x] = box'[x][i].from
      <4>1. CASE x # e
        BY <2>4, <3>1, <4>1 DEF EngineInv, BoxInv
      <4>2. CASE x = e /\ i = Len(box[e]) + 1
        BY <2>3, <2>4, <2>5, <4>2
      <4>3. CASE x = e /\ i # Len(box[e]) + 1
        <5>1. i \in DOMAIN box[e] /\ box[e][i].kind = "shutdown"
          BY <2>5, <3>1, <4>3
        <5>2. box[e][i] \in ChannelCommands
          BY <2>3, <2>5, <5>1, ElementOfSeq
        <5>3. box[e][i].from \in Procs /\ inner[e] = box[e][i].from
          BY <1>1, <5>1, <5>2 DEF ChannelCommands, EngineInv, BoxInv
        <5> QED
          BY <1>1, <5>3, EngineAssumption
      <4> QED
        BY <4>1, <4>2, <4>3
    <3>2. \A x \in Engines : thread'[x] = "ended" => box'[x] = <<>>
      BY <2>1, <2>4, <2>9 DEF EngineInv, BoxInv
    <3> QED
      BY <3>1, <3>2 DEF BoxInv
  <2>11. \A x \in Engines : Held(x)' => Held(x)
    BY <1>1, <2>1, <2>2 DEF Held, Has
  <2>12. ReadyIffAlive'
    BY <2>1, <2>4, <2>11, EngineAssumption DEF EngineInv, ReadyIffAlive, Alive
  <2>13. NobodyWaitsInVain'
    <3>1. ASSUME NEW q \in Procs, LlmAt(q, "wait")', llm'[q].reply = "none"
          PROVE  (Alive(llm[q].eng) /\ InBox(llm[q].eng, q))'
      <4>1. q # p /\ llm'[q] = llm[q]
        BY <2>2, <3>1 DEF LlmAt
      <4>2. Alive(llm[q].eng) /\ InBox(llm[q].eng, q) /\ llm[q].eng \in Engines
        BY <3>1, <4>1 DEF LlmAt, EngineInv, NobodyWaitsInVain, HandleInv
      <4> QED
        BY <2>1, <2>4, <2>5, <4>1, <4>2 DEF Alive, InBox
    <3> QED
      BY <3>1 DEF NobodyWaitsInVain
  <2> QED
    BY <2>6, <2>7, <2>8, <2>10, <2>12, <2>13 DEF EngineInv
<1> QED
  BY <1>1, <1>2, <1>3 DEF EngineInv, EngineTypeOK

(* Whoever joins goes on when the thread has ended, and takes its word back. *)
LEMMA JoinKeeps ==
  ASSUME EngineInv, NEW p \in Procs, Join(p)
  PROVE  EngineInv'
<1> DEFINE e == llm[p].old
<1>1. /\ llm[p] \in LlmStates /\ e \in Engines /\ llm[p].pc = "join" /\ thread[e] = "ended"
      /\ llm \in [Procs -> LlmStates] /\ inner[e] = p /\ box[e] = <<>>
      /\ inner \in [Engines -> Procs \cup {Nobody}] /\ ready \in [Engines -> BOOLEAN]
  BY DEF Join, LlmAt, EngineInv, EngineTypeOK, HandleInv, MutexInv, BoxInv, DropPcs
<1>2. /\ llm' = [llm EXCEPT ![p].pc = "release"]
      /\ ready' = [ready EXCEPT ![e] = FALSE] /\ inner' = [inner EXCEPT ![e] = Nobody]
      /\ UNCHANGED <<cell, cellLock, thread, box>>
  BY DEF Join, LlmGoes
<1>3. /\ llm'[p] \in LlmStates /\ llm'[p].pc = "release" /\ llm'[p].old = e
      /\ llm'[p].eng = llm[p].eng
      /\ \A q \in Procs \ {p} : llm'[q] = llm[q]
      /\ llm' \in [Procs -> LlmStates]
  BY <1>1, <1>2 DEF LlmStates, LlmPcs, DropPcs
<1>4. /\ ready'[e] = FALSE /\ inner'[e] = Nobody
      /\ \A x \in Engines \ {e} : ready'[x] = ready[x] /\ inner'[x] = inner[x]
  BY <1>1, <1>2
<1>5. EngineTypeOK'
  BY <1>1, <1>2, <1>3 DEF EngineInv, EngineTypeOK
<1>6. HandleInv'
  BY <1>1, <1>3 DEF EngineInv, HandleInv, DropPcs
<1>7. MutexInv'
  <2>1. ASSUME NEW x \in Engines, inner'[x] # Nobody
        PROVE  llm'[inner'[x]].pc = "join" /\ llm'[inner'[x]].old = x /\ ready'[x]
    <3>1. x # e /\ inner'[x] = inner[x] /\ ready'[x] = ready[x]
      BY <1>4, <2>1
    <3>2. llm[inner[x]].pc = "join" /\ llm[inner[x]].old = x /\ ready[x] /\ inner[x] \in Procs
      BY <1>1, <2>1, <3>1 DEF EngineInv, MutexInv, LlmAt
    <3>3. inner[x] # p
      BY <3>1, <3>2
    <3> QED
      BY <1>3, <3>1, <3>2, <3>3
  <2>2. ASSUME NEW q \in Procs, llm'[q].pc = "join"
        PROVE  inner'[llm'[q].old] = q
    <3>1. q # p /\ llm'[q] = llm[q]
      BY <1>3, <2>2
    <3>2. inner[llm[q].old] = q /\ llm[q].old \in Engines
      BY <2>2, <3>1 DEF EngineInv, MutexInv, HandleInv, LlmAt, DropPcs
    <3> QED
      BY <1>1, <1>4, <3>1, <3>2
  <2> QED
    BY <2>1, <2>2 DEF MutexInv, LlmAt
<1>8. BoxInv'
  BY <1>1, <1>2, <1>4 DEF EngineInv, BoxInv
<1>9. \A x \in Engines : Held(x)' => Held(x)
  BY <1>1, <1>2, <1>3 DEF Held, Has
<1>10. ReadyIffAlive'
  BY <1>1, <1>2, <1>4, <1>9 DEF EngineInv, ReadyIffAlive, Alive
<1>11. NobodyWaitsInVain'
  BY <1>1, <1>2, <1>3 DEF EngineInv, NobodyWaitsInVain, Alive, InBox, LlmAt
<1> QED
  BY <1>5, <1>6, <1>7, <1>8, <1>10, <1>11 DEF EngineInv

(* Nobody has a fresh engine, so nobody has its mutex. *)
LEMMA LoadKeeps ==
  ASSUME EngineInv, NEW p \in Procs, Load(p)
  PROVE  EngineInv'
<1>1. PICK e \in Fresh :
        /\ llm' = [llm EXCEPT ![p].pc = "store", ![p].eng = e]
        /\ ready' = [ready EXCEPT ![e] = TRUE]
        /\ thread' = [thread EXCEPT ![e] = "building"]
  BY DEF Load
<1>2. /\ llm[p] \in LlmStates /\ llm[p].pc = "load" /\ llm \in [Procs -> LlmStates]
      /\ e \in Engines /\ ~Held(e) /\ thread[e] = "ended" /\ box[e] = <<>>
      /\ UNCHANGED <<cell, cellLock, inner, box>>
      /\ ready \in [Engines -> BOOLEAN]
      /\ thread \in [Engines -> {"building", "serving", "deaf", "ended"}]
      /\ inner \in [Engines -> Procs \cup {Nobody}]
  BY DEF Load, LlmAt, Fresh, EngineInv, EngineTypeOK, BoxInv
<1>3. /\ llm'[p] \in LlmStates /\ llm'[p].pc = "store" /\ llm'[p].eng = e
      /\ llm'[p].old = llm[p].old
      /\ \A q \in Procs \ {p} : llm'[q] = llm[q]
      /\ llm' \in [Procs -> LlmStates]
  BY <1>1, <1>2 DEF LlmStates, LlmPcs, UserPcs, Handles
<1>4. /\ ready'[e] = TRUE /\ thread'[e] = "building"
      /\ \A x \in Engines \ {e} : ready'[x] = ready[x] /\ thread'[x] = thread[x]
  BY <1>1, <1>2
<1>5. inner[e] = Nobody
  BY <1>2 DEF EngineInv, MutexInv, Held, Has
<1>6. EngineTypeOK'
  BY <1>1, <1>2, <1>3 DEF EngineInv, EngineTypeOK
<1>7. HandleInv'
  BY <1>2, <1>3 DEF EngineInv, HandleInv, DropPcs
<1>8. MutexInv'
  <2>1. ASSUME NEW x \in Engines, inner[x] # Nobody
        PROVE  llm'[inner[x]].pc = "join" /\ llm'[inner[x]].old = x /\ ready'[x]
    <3>1. llm[inner[x]].pc = "join" /\ llm[inner[x]].old = x /\ ready[x] /\ inner[x] \in Procs
      BY <1>2, <2>1 DEF EngineInv, MutexInv, LlmAt
    <3> QED
      BY <1>2, <1>3, <1>4, <1>5, <2>1, <3>1
  <2>2. ASSUME NEW q \in Procs, llm'[q].pc = "join"
        PROVE  inner[llm'[q].old] = q
    BY <1>3, <2>2 DEF EngineInv, MutexInv, LlmAt
  <2> QED
    BY <1>2, <2>1, <2>2 DEF MutexInv, LlmAt
<1>9. BoxInv'
  BY <1>2, <1>4 DEF EngineInv, BoxInv
<1>10. \A x \in Engines \ {e} : Held(x)' => Held(x)
  BY <1>2, <1>3 DEF Held, Has
<1>11. ReadyIffAlive'
  BY <1>2, <1>4, <1>10 DEF EngineInv, ReadyIffAlive, Alive
<1>12. NobodyWaitsInVain'
  <2>1. ASSUME NEW q \in Procs, LlmAt(q, "wait")', llm'[q].reply = "none"
        PROVE  (Alive(llm[q].eng) /\ InBox(llm[q].eng, q))'
    <3>1. q # p /\ llm'[q] = llm[q]
      BY <1>3, <2>1 DEF LlmAt
    <3>2. Alive(llm[q].eng) /\ InBox(llm[q].eng, q) /\ llm[q].eng \in Engines
      BY <2>1, <3>1 DEF LlmAt, EngineInv, NobodyWaitsInVain, HandleInv
    <3> QED
      BY <1>2, <1>4, <3>1, <3>2 DEF Alive, InBox
  <2> QED
    BY <2>1 DEF NobodyWaitsInVain
<1> QED
  BY <1>6, <1>7, <1>8, <1>9, <1>11, <1>12 DEF EngineInv

(* A question goes behind what is in the channel. *)
LEMMA SendKeeps ==
  ASSUME EngineInv, NEW p \in Procs, Send(p)
  PROVE  EngineInv'
<1> DEFINE e == llm[p].eng
<1>1. /\ llm[p] \in LlmStates /\ e \in Engines /\ llm[p].pc = "send"
      /\ llm \in [Procs -> LlmStates]
  BY DEF Send, LlmAt, EngineInv, EngineTypeOK, HandleInv
<1>2. CASE thread[e] = "ended"
  BY <1>1, <1>2, GoesOn DEF Send, LlmPcs, UserPcs, DropPcs, KeepEngines
<1>3. CASE thread[e] # "ended"
  <2> DEFINE c == Command("complete", p)
  <2>1. /\ llm' = [llm EXCEPT ![p].pc = "wait"]
        /\ box' = [box EXCEPT ![e] = Append(@, c)]
        /\ UNCHANGED <<cell, cellLock, ready, inner, thread>>
    BY <1>3 DEF Send, LlmGoes
  <2>2. /\ llm'[p] \in LlmStates /\ llm'[p].pc = "wait" /\ llm'[p].eng = e
        /\ llm'[p].old = llm[p].old
        /\ \A q \in Procs \ {p} : llm'[q] = llm[q]
        /\ llm' \in [Procs -> LlmStates]
    BY <1>1, <2>1 DEF LlmStates, LlmPcs, UserPcs
  <2>3. c \in ChannelCommands /\ c.kind = "complete" /\ c = Command("complete", p)
    BY DEF Command, ChannelCommands
  <2>4. /\ box[e] \in Seq(ChannelCommands) /\ box'[e] = Append(box[e], c)
        /\ \A x \in Engines \ {e} : box'[x] = box[x]
        /\ box \in [Engines -> Seq(ChannelCommands)]
    BY <1>1, <2>1 DEF EngineInv, EngineTypeOK
  <2>5. /\ box'[e] \in Seq(ChannelCommands)
        /\ DOMAIN box'[e] = 1 .. Len(box[e]) + 1 /\ DOMAIN box[e] = 1 .. Len(box[e])
        /\ \A i \in 1 .. Len(box[e]) : box'[e][i] = box[e][i]
        /\ box'[e][Len(box[e]) + 1] = c /\ Len(box[e]) \in Nat
    BY <2>3, <2>4, AppendFacts
  <2>6. EngineTypeOK'
    <3>1. box' \in [Engines -> Seq(ChannelCommands)]
      BY <1>1, <2>1, <2>4, <2>5
    <3> QED
      BY <2>1, <2>2, <3>1 DEF EngineInv, EngineTypeOK
  <2>7. HandleInv'
    BY <1>1, <2>2 DEF EngineInv, HandleInv, DropPcs
  <2>8. MutexInv'
    BY <1>1, <2>1, <2>2 DEF EngineInv, EngineTypeOK, MutexInv, LlmAt
  <2>9. BoxInv'
    <3>1. ASSUME NEW x \in Engines, NEW i \in DOMAIN box'[x], box'[x][i].kind = "shutdown"
          PROVE  inner[x] = box'[x][i].from
      <4>1. CASE x # e
        BY <2>4, <3>1, <4>1 DEF EngineInv, BoxInv
      <4>2. CASE x = e
        <5>0. i # Len(box[e]) + 1
          <6>1. "complete" # "shutdown"
            OBVIOUS
          <6> QED
            BY <2>3, <2>5, <3>1, <4>2, <6>1
        <5>1. i \in DOMAIN box[e] /\ box'[e][i] = box[e][i]
          BY <2>5, <3>1, <4>2, <5>0
        <5> QED
          BY <1>1, <3>1, <4>2, <5>1 DEF EngineInv, BoxInv
      <4> QED
        BY <4>1, <4>2
    <3>2. \A x \in Engines : thread'[x] = "ended" => box'[x] = <<>>
      BY <1>3, <2>1, <2>4 DEF EngineInv, BoxInv
    <3> QED
      BY <2>1, <3>1, <3>2 DEF BoxInv
  <2>10. \A x \in Engines : Held(x)' => Held(x)
    BY <1>1, <2>1, <2>2 DEF Held, Has
  <2>11. ReadyIffAlive'
    BY <2>1, <2>10 DEF EngineInv, ReadyIffAlive, Alive
  <2>12. NobodyWaitsInVain'
    <3>1. ASSUME NEW q \in Procs, LlmAt(q, "wait")', llm'[q].reply = "none"
          PROVE  (Alive(llm[q].eng) /\ InBox(llm[q].eng, q))'
      <4>1. CASE q = p
        <5>1. thread[e] \in {"building", "serving", "deaf"}
          BY <1>1, <1>3 DEF EngineInv, EngineTypeOK
        <5>2. Len(box[e]) + 1 \in DOMAIN box'[e]
          BY <2>5
        <5> QED
          BY <2>1, <2>2, <2>3, <2>5, <4>1, <5>1, <5>2 DEF Alive, InBox
      <4>2. CASE q # p
        <5>1. llm'[q] = llm[q]
          BY <2>2, <4>2
        <5>2. Alive(llm[q].eng) /\ InBox(llm[q].eng, q) /\ llm[q].eng \in Engines
          BY <3>1, <5>1 DEF LlmAt, EngineInv, NobodyWaitsInVain, HandleInv
        <5>3. \E i \in DOMAIN box'[llm[q].eng] : box'[llm[q].eng][i] = Command("complete", q)
          <6>1. CASE llm[q].eng = e
            BY <2>5, <5>2, <6>1 DEF InBox
          <6>2. CASE llm[q].eng # e
            BY <2>4, <5>2, <6>2 DEF InBox
          <6> QED
            BY <6>1, <6>2
        <5> QED
          BY <2>1, <5>1, <5>2, <5>3 DEF Alive, InBox
      <4> QED
        BY <4>1, <4>2
    <3> QED
      BY <3>1 DEF NobodyWaitsInVain
  <2> QED
    BY <2>6, <2>7, <2>8, <2>9, <2>11, <2>12 DEF EngineInv
<1> QED
  BY <1>2, <1>3

LEMMA ProcessSteps ==
  ASSUME EngineInv, NEW p \in Procs, LlmStep(p)
  PROVE  EngineInv'
BY HandleSteps, SendShutdownKeeps, JoinKeeps, LoadKeeps, SendKeeps DEF LlmStep

-----------------------------------------------------------------------------
(* The threads of the engines.                                             *)

LEMMA BuildKeeps ==
  ASSUME EngineInv, NEW e \in Engines, Build(e) \/ BuildFails(e)
  PROVE  EngineInv'
<1>1. PICK t \in {"serving", "deaf"} : thread' = [thread EXCEPT ![e] = t]
  BY DEF Build, BuildFails
<1>2. thread[e] = "building" /\ UNCHANGED <<cell, cellLock, ready, inner, box, llm>>
  BY DEF Build, BuildFails
<1>3. /\ thread \in [Engines -> {"building", "serving", "deaf", "ended"}]
      /\ thread'[e] = t /\ \A x \in Engines \ {e} : thread'[x] = thread[x]
  BY <1>1 DEF EngineInv, EngineTypeOK
<1>4. \A x \in Engines : Alive(x)' = Alive(x)
  BY <1>2, <1>3 DEF Alive
<1>5. EngineTypeOK' /\ HandleInv' /\ MutexInv'
  BY <1>1, <1>2, <1>3 DEF EngineInv, EngineTypeOK, HandleInv, MutexInv, LlmAt
<1>6. BoxInv'
  BY <1>2, <1>3 DEF EngineInv, BoxInv
<1>7. ReadyIffAlive'
  BY <1>2, <1>4 DEF EngineInv, ReadyIffAlive, Held, Has
<1>8. NobodyWaitsInVain'
  BY <1>2, <1>4 DEF EngineInv, NobodyWaitsInVain, HandleInv, InBox, LlmAt
<1> QED
  BY <1>5, <1>6, <1>7, <1>8 DEF EngineInv

LEMMA HangUpKeeps ==
  ASSUME EngineInv, NEW e \in Engines, HangUp(e)
  PROVE  EngineInv'
<1>1. /\ ~Held(e) /\ box[e] = <<>>
      /\ thread' = [thread EXCEPT ![e] = "ended"] /\ ready' = [ready EXCEPT ![e] = FALSE]
      /\ UNCHANGED <<cell, cellLock, inner, box, llm>>
  BY DEF HangUp
<1>2. /\ thread \in [Engines -> {"building", "serving", "deaf", "ended"}]
      /\ ready \in [Engines -> BOOLEAN] /\ inner \in [Engines -> Procs \cup {Nobody}]
      /\ thread'[e] = "ended" /\ ready'[e] = FALSE
      /\ \A x \in Engines \ {e} : thread'[x] = thread[x] /\ ready'[x] = ready[x]
  BY <1>1 DEF EngineInv, EngineTypeOK
<1>3. inner[e] = Nobody
  BY <1>1, <1>2 DEF EngineInv, MutexInv, Held, Has
<1>4. EngineTypeOK' /\ HandleInv'
  BY <1>1, <1>2 DEF EngineInv, EngineTypeOK, HandleInv
<1>5. MutexInv'
  BY <1>1, <1>2, <1>3 DEF EngineInv, MutexInv, LlmAt
<1>6. BoxInv'
  BY <1>1, <1>2 DEF EngineInv, BoxInv
<1>7. ReadyIffAlive'
  BY <1>1, <1>2 DEF EngineInv, ReadyIffAlive, Alive, Held, Has
<1>8. NobodyWaitsInVain'
  <2>1. ASSUME NEW q \in Procs, LlmAt(q, "wait"), llm[q].reply = "none"
        PROVE  llm[q].eng \in Engines \ {e}
    BY <1>1, <2>1 DEF EngineInv, HandleInv, LlmAt, Held, Has
  <2> QED
    BY <1>1, <1>2, <2>1 DEF EngineInv, NobodyWaitsInVain, Alive, InBox, LlmAt
<1> QED
  BY <1>4, <1>5, <1>6, <1>7, <1>8 DEF EngineInv

(* The first command of a channel is taken out: what is behind it stays.    *)
LEMMA TakesFirst ==
  ASSUME EngineInv, NEW e \in Engines, box[e] # <<>>, box' = [box EXCEPT ![e] = Tail(@)]
  PROVE  /\ box' \in [Engines -> Seq(ChannelCommands)]
         /\ \A x \in Engines \ {e} : box'[x] = box[x]
         /\ Head(box[e]) \in ChannelCommands /\ 1 \in DOMAIN box[e] /\ Head(box[e]) = box[e][1]
         /\ \A x \in Engines : \A i \in DOMAIN box'[x] : \E j \in DOMAIN box[x] :
              box'[x][i] = box[x][j]
         /\ \A q \in Procs : InBox(e, q) /\ Command("complete", q) # Head(box[e]) => InBox(e, q)'
<1>1. /\ box \in [Engines -> Seq(ChannelCommands)] /\ box[e] \in Seq(ChannelCommands)
      /\ box'[e] = Tail(box[e]) /\ \A x \in Engines \ {e} : box'[x] = box[x]
  BY DEF EngineInv, EngineTypeOK
<1>2. /\ box'[e] \in Seq(ChannelCommands)
      /\ DOMAIN box'[e] = 1 .. Len(box[e]) - 1
      /\ DOMAIN box[e] = 1 .. Len(box[e])
      /\ Len(box[e]) \in Nat \ {0}
      /\ \A i \in 1 .. Len(box[e]) - 1 : box'[e][i] = box[e][i + 1]
      /\ Head(box[e]) = box[e][1] /\ Head(box[e]) \in ChannelCommands
  BY <1>1, TailFacts
<1>3. box' \in [Engines -> Seq(ChannelCommands)] /\ 1 \in DOMAIN box[e]
  BY <1>1, <1>2
<1>4. ASSUME NEW x \in Engines, NEW i \in DOMAIN box'[x]
      PROVE  \E j \in DOMAIN box[x] : box'[x][i] = box[x][j]
  <2>1. CASE x = e
    <3>1. i + 1 \in DOMAIN box[e] /\ box'[e][i] = box[e][i + 1]
      BY <1>2, <1>4, <2>1
    <3> QED
      BY <2>1, <3>1
  <2>2. CASE x # e
    BY <1>1, <1>4, <2>2
  <2> QED
    BY <2>1, <2>2
<1>5. ASSUME NEW q \in Procs, InBox(e, q), Command("complete", q) # Head(box[e])
      PROVE  InBox(e, q)'
  <2>1. PICK i \in DOMAIN box[e] : box[e][i] = Command("complete", q)
    BY <1>5 DEF InBox
  <2>2. i - 1 \in DOMAIN box'[e] /\ i - 1 + 1 = i
    BY <1>2, <1>5, <2>1
  <2>3. box'[e][i - 1] = Command("complete", q)
    BY <1>2, <2>1, <2>2
  <2> QED
    BY <2>2, <2>3 DEF InBox
<1> QED
  BY <1>1, <1>2, <1>3, <1>4, <1>5

LEMMA CompleteKeeps ==
  ASSUME EngineInv, NEW e \in Engines, Complete(e)
  PROVE  EngineInv'
<1> DEFINE from == Head(box[e]).from
<1>1. PICK r \in {"text", "error"} : llm' = [llm EXCEPT ![from].reply = r]
  BY DEF Complete
<1>2. /\ thread[e] # "ended" /\ box[e] # <<>> /\ Head(box[e]).kind = "complete"
      /\ box' = [box EXCEPT ![e] = Tail(@)]
      /\ UNCHANGED <<cell, cellLock, ready, inner, thread>>
  BY DEF Complete
<1>3. /\ box' \in [Engines -> Seq(ChannelCommands)]
      /\ \A x \in Engines \ {e} : box'[x] = box[x]
      /\ Head(box[e]) \in ChannelCommands
      /\ \A x \in Engines : \A i \in DOMAIN box'[x] : \E j \in DOMAIN box[x] :
           box'[x][i] = box[x][j]
      /\ \A q \in Procs : InBox(e, q) /\ Command("complete", q) # Head(box[e]) => InBox(e, q)'
  BY <1>2, TakesFirst
<1>4. from \in Procs /\ llm \in [Procs -> LlmStates] /\ llm[from] \in LlmStates
  BY <1>3 DEF ChannelCommands, EngineInv, EngineTypeOK
<1>5. /\ llm'[from] \in LlmStates /\ llm'[from].reply = r
      /\ \A q \in Procs : /\ llm'[q].pc = llm[q].pc /\ llm'[q].eng = llm[q].eng
                           /\ llm'[q].old = llm[q].old
      /\ \A q \in Procs \ {from} : llm'[q] = llm[q]
      /\ llm' \in [Procs -> LlmStates]
  BY <1>1, <1>4 DEF LlmStates, Replies
<1>6. EngineTypeOK'
  BY <1>2, <1>3, <1>5 DEF EngineInv, EngineTypeOK
<1>7. HandleInv'
  BY <1>5 DEF EngineInv, HandleInv
<1>8. MutexInv'
  <2>1. ASSUME NEW x \in Engines, inner[x] # Nobody
        PROVE  llm'[inner[x]].pc = "join" /\ llm'[inner[x]].old = x /\ ready[x]
    <3>1. /\ inner[x] \in Procs
          /\ llm[inner[x]].pc = "join" /\ llm[inner[x]].old = x /\ ready[x]
      BY <2>1 DEF EngineInv, EngineTypeOK, MutexInv, LlmAt
    <3> QED
      BY <1>5, <3>1
  <2>2. ASSUME NEW q \in Procs, llm'[q].pc = "join"
        PROVE  inner[llm'[q].old] = q
    BY <1>5, <2>2 DEF EngineInv, MutexInv, LlmAt
  <2> QED
    BY <1>2, <2>1, <2>2 DEF MutexInv, LlmAt
<1>9. BoxInv'
  BY <1>2, <1>3 DEF EngineInv, BoxInv
<1>10. ReadyIffAlive'
  BY <1>2, <1>5 DEF EngineInv, ReadyIffAlive, Alive, Held, Has
<1>11. NobodyWaitsInVain'
  <2>1. ASSUME NEW q \in Procs, LlmAt(q, "wait")', llm'[q].reply = "none"
        PROVE  (Alive(llm[q].eng) /\ InBox(llm[q].eng, q))'
    <3>1. q # from /\ llm'[q] = llm[q]
      BY <1>5, <2>1
    <3>2. Alive(llm[q].eng) /\ InBox(llm[q].eng, q) /\ llm[q].eng \in Engines
      BY <2>1, <3>1 DEF LlmAt, EngineInv, NobodyWaitsInVain, HandleInv
    <3>3. Command("complete", q) # Head(box[e])
      BY <3>1 DEF Command
    <3>4. InBox(llm[q].eng, q)'
      <4>1. CASE llm[q].eng = e
        BY <1>3, <3>1, <3>2, <3>3, <4>1
      <4>2. CASE llm[q].eng # e
        BY <1>3, <3>1, <3>2, <4>2 DEF InBox
      <4> QED
        BY <4>1, <4>2
    <3> QED
      BY <1>2, <3>1, <3>2, <3>4 DEF Alive
  <2> QED
    BY <2>1 DEF NobodyWaitsInVain
<1> QED
  BY <1>6, <1>7, <1>8, <1>9, <1>10, <1>11 DEF EngineInv

LEMMA IgnoreShutdownKeeps ==
  ASSUME EngineInv, NEW e \in Engines, IgnoreShutdown(e)
  PROVE  EngineInv'
<1>2. /\ thread[e] = "deaf" /\ box[e] # <<>> /\ Head(box[e]).kind = "shutdown"
      /\ box' = [box EXCEPT ![e] = Tail(@)]
      /\ UNCHANGED <<cell, cellLock, ready, inner, thread, llm>>
  BY DEF IgnoreShutdown
<1>3. /\ box' \in [Engines -> Seq(ChannelCommands)]
      /\ \A x \in Engines \ {e} : box'[x] = box[x]
      /\ \A x \in Engines : \A i \in DOMAIN box'[x] : \E j \in DOMAIN box[x] :
           box'[x][i] = box[x][j]
      /\ \A q \in Procs : InBox(e, q) /\ Command("complete", q) # Head(box[e]) => InBox(e, q)'
  BY <1>2, TakesFirst
<1>4. EngineTypeOK' /\ HandleInv' /\ MutexInv'
  BY <1>2, <1>3 DEF EngineInv, EngineTypeOK, HandleInv, MutexInv, LlmAt
<1>5. BoxInv'
  BY <1>2, <1>3 DEF EngineInv, BoxInv
<1>6. ReadyIffAlive'
  BY <1>2 DEF EngineInv, ReadyIffAlive, Alive, Held, Has
<1>7. NobodyWaitsInVain'
  <2>1. ASSUME NEW q \in Procs, LlmAt(q, "wait"), llm[q].reply = "none"
        PROVE  (Alive(llm[q].eng) /\ InBox(llm[q].eng, q))'
    <3>1. Alive(llm[q].eng) /\ InBox(llm[q].eng, q) /\ llm[q].eng \in Engines
      BY <2>1 DEF LlmAt, EngineInv, NobodyWaitsInVain, HandleInv
    <3>2. Command("complete", q) # Head(box[e])
      <4>1. Command("complete", q).kind = "complete" /\ "complete" # "shutdown"
        BY DEF Command
      <4> QED
        BY <1>2, <4>1
    <3>3. InBox(llm[q].eng, q)'
      <4>1. CASE llm[q].eng = e
        BY <1>2, <1>3, <3>1, <3>2, <4>1
      <4>2. CASE llm[q].eng # e
        BY <1>2, <1>3, <3>1, <4>2 DEF InBox
      <4> QED
        BY <4>1, <4>2
    <3> QED
      BY <1>2, <3>1, <3>3 DEF Alive
  <2> QED
    BY <1>2, <2>1 DEF NobodyWaitsInVain, LlmAt
<1> QED
  BY <1>4, <1>5, <1>6, <1>7 DEF EngineInv

(* The thread that ends tells everyone whose question it drops, and the      *)
(* engine's mutex is taken until it is known to have ended.                 *)
LEMMA ShutDownKeeps ==
  ASSUME EngineInv, NEW e \in Engines, ShutDown(e)
  PROVE  EngineInv'
<1>1. /\ thread[e] = "serving" /\ box[e] # <<>> /\ Head(box[e]).kind = "shutdown"
      /\ thread' = [thread EXCEPT ![e] = "ended"] /\ box' = [box EXCEPT ![e] = <<>>]
      /\ DropBox(e)
      /\ UNCHANGED <<cell, cellLock, ready, inner>>
  BY DEF ShutDown
<1>2. /\ thread \in [Engines -> {"building", "serving", "deaf", "ended"}]
      /\ box \in [Engines -> Seq(ChannelCommands)] /\ box[e] \in Seq(ChannelCommands)
      /\ llm \in [Procs -> LlmStates]
      /\ thread'[e] = "ended" /\ box'[e] = <<>> /\ <<>> \in Seq(ChannelCommands)
      /\ \A x \in Engines \ {e} : thread'[x] = thread[x] /\ box'[x] = box[x]
  BY <1>1 DEF EngineInv, EngineTypeOK
<1>3. /\ \A q \in Procs : llm'[q] = IF InBox(e, q) THEN [llm[q] EXCEPT !.reply = "dropped"]
                                    ELSE llm[q]
      /\ \A q \in Procs : llm[q] \in LlmStates
  BY <1>1, <1>2 DEF DropBox
<1>4. ASSUME NEW q \in Procs
      PROVE  /\ llm'[q] \in LlmStates /\ llm'[q].pc = llm[q].pc /\ llm'[q].eng = llm[q].eng
             /\ llm'[q].old = llm[q].old
             /\ llm'[q].reply = "none" => ~InBox(e, q) /\ llm[q].reply = "none"
  BY <1>3 DEF LlmStates, Replies
<1>5. llm' \in [Procs -> LlmStates]
  BY <1>1, <1>4 DEF DropBox
<1>6. EngineTypeOK'
  BY <1>1, <1>2, <1>5 DEF EngineInv, EngineTypeOK
<1>7. HandleInv'
  BY <1>4 DEF EngineInv, HandleInv
<1>8. MutexInv'
  <2>1. ASSUME NEW x \in Engines, inner[x] # Nobody
        PROVE  llm'[inner[x]].pc = "join" /\ llm'[inner[x]].old = x /\ ready[x]
    <3>1. /\ inner[x] \in Procs
          /\ llm[inner[x]].pc = "join" /\ llm[inner[x]].old = x /\ ready[x]
      BY <2>1 DEF EngineInv, EngineTypeOK, MutexInv, LlmAt
    <3> QED
      BY <1>4, <3>1
  <2>2. ASSUME NEW q \in Procs, llm'[q].pc = "join"
        PROVE  inner[llm'[q].old] = q
    BY <1>4, <2>2 DEF EngineInv, MutexInv, LlmAt
  <2> QED
    BY <1>1, <2>1, <2>2 DEF MutexInv, LlmAt
<1>9. inner[e] # Nobody
  <2>1. 1 \in DOMAIN box[e] /\ Head(box[e]) = box[e][1] /\ box[e][1] \in ChannelCommands
    BY <1>1, <1>2, TailFacts
  <2>2. inner[e] = box[e][1].from /\ box[e][1].from \in Procs
    BY <1>1, <2>1 DEF ChannelCommands, EngineInv, BoxInv
  <2> QED
    BY <2>2, EngineAssumption
<1>10. BoxInv'
  BY <1>1, <1>2 DEF EngineInv, BoxInv
<1>11. ReadyIffAlive'
  BY <1>1, <1>2, <1>4, <1>9 DEF EngineInv, ReadyIffAlive, Alive, Held, Has
<1>12. NobodyWaitsInVain'
  <2>1. ASSUME NEW q \in Procs, LlmAt(q, "wait")', llm'[q].reply = "none"
        PROVE  (Alive(llm[q].eng) /\ InBox(llm[q].eng, q))'
    <3>1. llm[q].pc = "wait" /\ llm[q].reply = "none" /\ ~InBox(e, q) /\ llm'[q].eng = llm[q].eng
      BY <1>4, <2>1 DEF LlmAt
    <3>2. Alive(llm[q].eng) /\ InBox(llm[q].eng, q) /\ llm[q].eng \in Engines
      BY <3>1 DEF LlmAt, EngineInv, NobodyWaitsInVain, HandleInv
    <3>3. llm[q].eng # e
      BY <3>1, <3>2
    <3> QED
      BY <1>2, <3>1, <3>2, <3>3 DEF Alive, InBox
  <2> QED
    BY <2>1 DEF NobodyWaitsInVain
<1> QED
  BY <1>6, <1>7, <1>8, <1>10, <1>11, <1>12 DEF EngineInv

LEMMA ThreadSteps ==
  ASSUME EngineInv, NEW e \in Engines, ThreadStep(e)
  PROVE  EngineInv'
BY BuildKeeps, CompleteKeeps, ShutDownKeeps, IgnoreShutdownKeeps, HangUpKeeps DEF ThreadStep

-----------------------------------------------------------------------------
(* Every step of ModelIdle is one of those, or touches no engine.           *)

LEMMA NothingHappens ==
  ASSUME EngineInv, UNCHANGED llmVars
  PROVE  EngineInv'
BY DEF EngineInv, EngineTypeOK, HandleInv, MutexInv, BoxInv, ReadyIffAlive,
       NobodyWaitsInVain, Alive, InBox, Held, Has, LlmAt, llmVars

LEMMA OtherSteps ==
  ASSUME TimePasses \/ Users \/ Watch \/ Commands
  PROVE  \/ UNCHANGED llmVars
         \/ \E p \in Procs, pc \in {"ensure", "look", "swap", "sync"} : StartLlm(p, pc)
<1> {Job, Tool, Watchdog, Task, Settings} = Procs
  BY IdleAssumption
<1>1. CASE TimePasses
  BY <1>1 DEF TimePasses
<1>2. CASE Users
  <2>1. CASE JobRewrites
    BY <2>1 DEF JobRewrites
  <2>2. CASE ToolBegins
    BY <2>2 DEF ToolBegins
  <2>3. CASE PrewarmGoesOn
    BY <2>3 DEF PrewarmGoesOn
  <2>4. CASE JobBegins \/ JobEnds \/ PrewarmBegins \/ ToolEnds
    BY <2>4 DEF JobBegins, JobEnds, PrewarmBegins, ToolEnds
  <2> QED
    BY <1>2, <2>1, <2>2, <2>3, <2>4 DEF Users
<1>3. CASE Watch
  <2>1. CASE LlmAge
    BY <2>1 DEF LlmAge
  <2>2. CASE WatchLlm \/ WatchStt \/ SttAge \/ UnloadStt(Task, "spawned") \/ Done(Task)
    BY <2>2 DEF WatchLlm, WatchStt, SttAge, UnloadStt, Done
  <2> QED
    BY <1>3, <2>1, <2>2 DEF Watch
<1>4. CASE Commands
  <2>1. CASE UpdateLlm
    BY <2>1 DEF UpdateLlm
  <2>2. CASE UpdateGoesOn
    BY <2>2 DEF UpdateGoesOn
  <2>3. CASE ForceUnload
    BY <2>3 DEF ForceUnload
  <2>4. CASE UpdateStt \/ Recover \/ UnloadStt(Settings, "force") \/ Done(Settings)
    BY <2>4 DEF UpdateStt, Recover, UnloadStt, Done
  <2> QED
    BY <1>4, <2>1, <2>2, <2>3, <2>4 DEF Commands
<1> QED
  BY <1>1, <1>2, <1>3, <1>4

LEMMA EngineInvInit ==
  ASSUME Init
  PROVE  EngineInv
<1> USE DEF Init, LlmInit, Resting
<1>1. EngineTypeOK
  <2>1. <<>> \in Seq(ChannelCommands)
    OBVIOUS
  <2>2. Resting \in LlmStates
    BY DEF LlmStates, LlmPcs, Resumptions, Handles, Replies
  <2> QED
    BY <2>1, <2>2 DEF EngineTypeOK, Handles
<1>2. HandleInv
  BY DEF HandleInv, DropPcs
<1>3. MutexInv
  BY DEF MutexInv, LlmAt
<1>4. BoxInv
  <2>1. DOMAIN <<>> = {}
    OBVIOUS
  <2> QED
    BY <2>1 DEF BoxInv
<1>5. ReadyIffAlive /\ NobodyWaitsInVain
  BY DEF ReadyIffAlive, NobodyWaitsInVain, Alive, LlmAt
<1> QED
  BY <1>1, <1>2, <1>3, <1>4, <1>5 DEF EngineInv

LEMMA EngineInvNext ==
  ASSUME EngineInv, [Next]_vars
  PROVE  EngineInv'
<1>1. ASSUME NEW p \in Procs, Steps(p)
      PROVE  EngineInv'
  BY <1>1, ProcessSteps, NothingHappens DEF Steps
<1>2. ASSUME NEW e \in Engines, ThreadStep(e)
      PROVE  EngineInv'
  BY <1>2, ThreadSteps
<1>3. CASE TimePasses \/ Users \/ Watch \/ Commands
  BY <1>3, OtherSteps, StartKeeps, NothingHappens
<1>4. CASE UNCHANGED vars
  BY <1>4, NothingHappens DEF vars
<1> QED
  BY <1>1, <1>2, <1>3, <1>4 DEF Next

-----------------------------------------------------------------------------
(* The theorems.                                                           *)

(* The invariant of the engines: types, who has which engine, who has its   *)
(* mutex, and what is in its channel.                                      *)
THEOREM EngineInvariant == Spec => []EngineInv
<1>1. Init => EngineInv
  BY EngineInvInit
<1>2. EngineInv /\ [Next]_vars => EngineInv'
  BY EngineInvNext
<1> QED
  BY <1>1, <1>2, PTL DEF Spec

(* However many use, unload and reload the language model, an engine that   *)
(* can be reached says that it is ready exactly while its thread is there    *)
(* (LocalLlmEngine::load and unload).                                      *)
THEOREM ReadyMeansAlive == Spec => []ReadyIffAlive
<1>1. EngineInv => ReadyIffAlive
  BY DEF EngineInv
<1> QED
  BY <1>1, EngineInvariant, PTL

(* Whoever waits for an answer of the model will be given one as long as     *)
(* its thread goes on: the question is still in a channel that is read       *)
(* (complete, worker_main).                                                *)
THEOREM NobodyWaitsForNothing == Spec => []NobodyWaitsInVain
<1>1. EngineInv => NobodyWaitsInVain
  BY DEF EngineInv
<1> QED
  BY <1>1, EngineInvariant, PTL

-----------------------------------------------------------------------------
(* The transcriber: its inductive invariant, in parts.                     *)

SttStates == [pc : SttPcs, inst : Instances \cup {NoInstance}, result : Results]

Phases == {"idle", "stt", "llm", "tool", "prewarm", "prewarmed", "llmAge", "sttAge",
           "spawned", "update", "force", "done"}

SttTypeOK ==
  /\ token \in BOOLEAN /\ sttCell \in Instances
  /\ live \in [Instances -> BOOLEAN] /\ loaded \in [Instances -> BOOLEAN]
  /\ user \in [Instances -> Procs \cup {Nobody}]
  /\ stt \in [Procs -> SttStates]
  /\ phase \in [Procs -> Phases]
  /\ pending \in BOOLEAN /\ recent \in BOOLEAN
  /\ disturbed \in BOOLEAN /\ crossed \in BOOLEAN

(* Who works with an instance has one. *)
InstanceInv ==
  \A p \in Procs :
    stt[p].pc \in {"check", "ensure", "lock", "run", "replace", "unload"}
      => stt[p].inst \in Instances

(* Only the watchdog's task and the commands reload.  Where the last reload *)
(* began alone it is alone, makes an instance that is good, and leaves a     *)
(* good one in the cell.                                                   *)
ReloadInv ==
  /\ token
  /\ \A p \in Procs : stt[p].pc \in Reloading => p \in {Task, Settings}
  /\ ~crossed =>
       /\ \A p, q \in Procs : stt[p].pc \in Reloading /\ stt[q].pc \in Reloading => p = q
       /\ \A p \in Procs : stt[p].pc = "replace" => live[stt[p].inst]
       /\ (\A p \in Procs : stt[p].pc \notin {"rotate", "create", "replace"})
            => live[sttCell]

(* A job that is not disturbed works with the transcriber in the cell,      *)
(* which nobody takes away or empties.                                     *)
JobInv ==
  /\ pending <=> phase[Job] # "idle"
  /\ ~pending => SttIdle(Job)
  /\ pending /\ ~disturbed =>
       /\ \A p \in Procs : stt[p].pc \notin Reloading
       /\ stt[Job].pc \in {"check", "ensure", "lock", "run"} => stt[Job].inst = sttCell
       /\ stt[Job].pc = "lock" => loaded[sttCell]

SttInv == SttTypeOK /\ InstanceInv /\ ReloadInv /\ JobInv /\ FailsOnlyUnderReload

(* A process that goes on: what its record becomes, and that the others      *)
(* stay as they are.                                                        *)
LEMMA SttRecord ==
  ASSUME SttTypeOK, NEW p \in Procs, NEW r \in SttStates, stt' = [stt EXCEPT ![p] = r]
  PROVE  /\ stt' \in [Procs -> SttStates] /\ stt'[p] = r
         /\ \A q \in Procs \ {p} : stt'[q] = stt[q]
BY DEF SttTypeOK

(* The forms in which the actions write it. *)
LEMMA SttGoing ==
  ASSUME SttTypeOK, NEW p \in Procs, NEW pc \in SttPcs,
         SttGoes(p, pc)
  PROVE  /\ stt' \in [Procs -> SttStates]
         /\ stt'[p].pc = pc /\ stt'[p].inst = stt[p].inst /\ stt'[p].result = stt[p].result
         /\ \A q \in Procs \ {p} : stt'[q] = stt[q]
<1> DEFINE r == [stt[p] EXCEPT !.pc = pc]
<1>1. stt[p] \in SttStates
  BY DEF SttTypeOK
<1>2. /\ r \in SttStates
      /\ r.pc = pc /\ r.inst = stt[p].inst /\ r.result = stt[p].result
  BY <1>1 DEF SttStates, SttPcs, Results
<1>3. stt' = [stt EXCEPT ![p] = r]
  BY DEF SttGoes, SttTypeOK
<1> HIDE DEF r
<1> QED
  BY <1>2, <1>3, SttRecord

LEMMA SttEnding ==
  ASSUME SttTypeOK, NEW p \in Procs, NEW result \in Results,
         SttEnds(p, result)
  PROVE  /\ stt' \in [Procs -> SttStates]
         /\ stt'[p].pc = "idle" /\ stt'[p].inst = NoInstance /\ stt'[p].result = result
         /\ \A q \in Procs \ {p} : stt'[q] = stt[q]
<1> DEFINE r == [pc |-> "idle", inst |-> NoInstance, result |-> result]
<1>1. stt[p] \in SttStates
  BY DEF SttTypeOK
<1>2. /\ r \in SttStates
      /\ r.pc = "idle" /\ r.inst = NoInstance /\ r.result = result
  BY <1>1 DEF SttStates, SttPcs, Results
<1>3. stt' = [stt EXCEPT ![p] = r]
  BY DEF SttEnds
<1> HIDE DEF r
<1> QED
  BY <1>2, <1>3, SttRecord

LEMMA SttTaking ==
  ASSUME SttTypeOK, NEW p \in Procs, NEW pc \in SttPcs, NEW i \in Instances,
         stt' = [stt EXCEPT ![p].pc = pc, ![p].inst = i]
  PROVE  /\ stt' \in [Procs -> SttStates]
         /\ stt'[p].pc = pc /\ stt'[p].inst = i /\ stt'[p].result = stt[p].result
         /\ \A q \in Procs \ {p} : stt'[q] = stt[q]
<1> DEFINE r == [stt[p] EXCEPT !.pc = pc, !.inst = i]
<1>1. stt[p] \in SttStates
  BY DEF SttTypeOK
<1>2. /\ r \in SttStates
      /\ r.pc = pc /\ r.inst = i /\ r.result = stt[p].result
  BY <1>1 DEF SttStates, SttPcs, Results
<1>3. stt' = [stt EXCEPT ![p] = r]
  BY DEF SttTypeOK
<1> HIDE DEF r
<1> QED
  BY <1>2, <1>3, SttRecord

LEMMA SttStarting ==
  ASSUME SttTypeOK, NEW p \in Procs, NEW pc \in SttPcs, StartStt(p, pc)
  PROVE  /\ stt' \in [Procs -> SttStates]
         /\ stt'[p].pc = pc /\ stt'[p].inst = stt[p].inst /\ stt'[p].result = "none"
         /\ \A q \in Procs \ {p} : stt'[q] = stt[q]
<1> DEFINE r == [stt[p] EXCEPT !.pc = pc, !.result = "none"]
<1>1. stt[p] \in SttStates
  BY DEF SttTypeOK
<1>2. /\ r \in SttStates
      /\ r.pc = pc /\ r.inst = stt[p].inst /\ r.result = "none"
  BY <1>1 DEF SttStates, SttPcs, Results
<1>3. stt' = [stt EXCEPT ![p] = r]
  BY DEF StartStt, SttTypeOK
<1> HIDE DEF r
<1> QED
  BY <1>2, <1>3, SttRecord

LEMMA SttAnswering ==
  ASSUME SttTypeOK, NEW p \in Procs, NEW result \in Results,
         stt' = [stt EXCEPT ![p].result = result]
  PROVE  /\ stt' \in [Procs -> SttStates]
         /\ stt'[p].pc = stt[p].pc /\ stt'[p].inst = stt[p].inst /\ stt'[p].result = result
         /\ \A q \in Procs \ {p} : stt'[q] = stt[q]
<1> DEFINE r == [stt[p] EXCEPT !.result = result]
<1>1. stt[p] \in SttStates
  BY DEF SttTypeOK
<1>2. /\ r \in SttStates
      /\ r.pc = stt[p].pc /\ r.inst = stt[p].inst /\ r.result = result
  BY <1>1 DEF SttStates, SttPcs, Results
<1>3. stt' = [stt EXCEPT ![p] = r]
  BY DEF SttTypeOK
<1> HIDE DEF r
<1> QED
  BY <1>2, <1>3, SttRecord

LEMMA JobIsAlone ==
  /\ Job \in Procs /\ Tool \in Procs /\ Watchdog \in Procs /\ Task \in Procs
  /\ Settings \in Procs /\ Job \notin {Tool, Watchdog, Task, Settings}
  /\ Tool \notin {Task, Settings}
BY IdleAssumption DEF IdleAssumption

(* Transcribing: a process that is no reload goes on, and whatever it does  *)
(* with the weights leaves loaded what is.                                 *)
LEMMA TranscribeSteps ==
  ASSUME SttInv, NEW p \in Procs, UNCHANGED idleVars,
         \/ TakeTranscriber(p) \/ CheckToken(p) \/ EnsureWeights(p) \/ EnsureFails(p)
         \/ LockWeights(p) \/ RunEnds(p)
  PROVE  SttInv'
<1> USE DEF SttInv, SttAt
<1>0. UNCHANGED <<local, phase, pending, recent, disturbed, crossed>>
  BY DEF idleVars, reloads
<1>1. CASE TakeTranscriber(p)
  <2>1. /\ stt' \in [Procs -> SttStates] /\ stt[p].pc = "take"
        /\ stt'[p].pc = "check" /\ stt'[p].inst = sttCell
        /\ stt'[p].result = stt[p].result
        /\ \A q \in Procs \ {p} : stt'[q] = stt[q]
    <3>1. sttCell \in Instances /\ "check" \in SttPcs
      BY DEF SttTypeOK, SttPcs
    <3>2. stt[p].pc = "take" /\ stt' = [stt EXCEPT ![p].pc = "check", ![p].inst = sttCell]
      BY <1>1 DEF TakeTranscriber
    <3> QED
      BY <3>1, <3>2, SttTaking
  <2>2. UNCHANGED <<token, sttCell, live, loaded, user>>
    BY <1>1 DEF TakeTranscriber
  <2>3. SttTypeOK'
    BY <1>0, <2>1, <2>2 DEF SttTypeOK
  <2>4. InstanceInv'
    BY <2>1, <2>2 DEF InstanceInv, SttTypeOK
  <2>5. ReloadInv'
    BY <1>0, <2>1, <2>2 DEF ReloadInv, Reloading
  <2>6. JobInv' /\ FailsOnlyUnderReload'
    BY <1>0, <2>1, <2>2, JobIsAlone DEF JobInv, FailsOnlyUnderReload, Reloading, SttIdle
  <2> QED
    BY <2>3, <2>4, <2>5, <2>6
<1>2. CASE CheckToken(p)
  <2>1. /\ stt[p].pc = "check" /\ UNCHANGED <<token, sttCell, live, loaded, user>>
        /\ \A q \in Procs \ {p} : stt'[q] = stt[q]
        /\ stt' \in [Procs -> SttStates]
        /\ \/ /\ stt'[p].pc = "ensure" /\ stt'[p].inst = stt[p].inst
              /\ stt'[p].result = stt[p].result
           \/ /\ stt'[p].pc = "idle" /\ stt'[p].result = "cancelled"
              /\ ~live[stt[p].inst]
    BY <1>2, SttGoing, SttEnding DEF CheckToken, SttPcs, Results
  <2>3. SttTypeOK'
    BY <1>0, <2>1 DEF SttTypeOK
  <2>4. InstanceInv'
    BY <2>1 DEF InstanceInv
  <2>5. ReloadInv'
    BY <1>0, <2>1 DEF ReloadInv, Reloading
  <2>6. p = Job => stt'[p].pc = "ensure" \/ disturbed \/ crossed
    <3>1. p = Job /\ ~disturbed => pending
      BY <2>1 DEF JobInv, SttIdle
    <3>2. p = Job /\ ~disturbed /\ ~crossed => live[stt[p].inst]
      BY <2>1, <3>1 DEF JobInv, ReloadInv, Reloading
    <3> QED
      BY <2>1, <3>2
  <2>7. JobInv' /\ FailsOnlyUnderReload'
    BY <1>0, <2>1, <2>6, JobIsAlone DEF JobInv, FailsOnlyUnderReload, Reloading, SttIdle
  <2> QED
    BY <2>3, <2>4, <2>5, <2>7
<1>3. CASE EnsureWeights(p)
  <2>1. /\ stt[p].pc = "ensure" /\ UNCHANGED <<token, sttCell, live, user>>
        /\ \A q \in Procs \ {p} : stt'[q] = stt[q]
        /\ stt' \in [Procs -> SttStates]
        /\ stt'[p].pc = "lock" /\ stt'[p].inst = stt[p].inst
        /\ stt'[p].result = stt[p].result
    BY <1>3, SttGoing DEF EnsureWeights, SttPcs
  <2>2. /\ loaded' = [loaded EXCEPT ![stt[p].inst] = TRUE]
        /\ stt[p].inst \in Instances
    BY <1>3 DEF EnsureWeights, InstanceInv
  <2>3. SttTypeOK'
    BY <1>0, <2>1, <2>2 DEF SttTypeOK
  <2>4. InstanceInv'
    BY <2>1 DEF InstanceInv
  <2>5. ReloadInv'
    BY <1>0, <2>1 DEF ReloadInv, Reloading
  <2>6. /\ loaded[sttCell] => loaded'[sttCell]
        /\ loaded'[stt[p].inst]
    BY <2>2 DEF SttTypeOK
  <2>7. JobInv' /\ FailsOnlyUnderReload'
    BY <1>0, <2>1, <2>6, JobIsAlone DEF JobInv, FailsOnlyUnderReload, Reloading, SttIdle
  <2> QED
    BY <2>3, <2>4, <2>5, <2>7
<1>4. CASE EnsureFails(p)
  <2>1. /\ stt[p].pc = "ensure" /\ UNCHANGED <<token, sttCell, live, loaded, user>>
        /\ \A q \in Procs \ {p} : stt'[q] = stt[q]
        /\ stt' \in [Procs -> SttStates]
        /\ stt'[p].pc = "idle" /\ stt'[p].result = "error"
    BY <1>4, SttEnding DEF EnsureFails, Results
  <2>3. SttTypeOK'
    BY <1>0, <2>1 DEF SttTypeOK
  <2>4. InstanceInv'
    BY <2>1 DEF InstanceInv
  <2>5. ReloadInv'
    BY <1>0, <2>1 DEF ReloadInv, Reloading
  <2>6. JobInv' /\ FailsOnlyUnderReload'
    BY <1>0, <2>1, JobIsAlone DEF JobInv, FailsOnlyUnderReload, Reloading, SttIdle
  <2> QED
    BY <2>3, <2>4, <2>5, <2>6
<1>5. CASE LockWeights(p)
  <2>1. /\ stt[p].pc = "lock" /\ UNCHANGED <<token, sttCell, live, loaded>>
        /\ \A q \in Procs \ {p} : stt'[q] = stt[q]
        /\ stt' \in [Procs -> SttStates]
        /\ \/ /\ stt'[p].pc = "run" /\ stt'[p].inst = stt[p].inst
              /\ stt'[p].result = stt[p].result
           \/ /\ stt'[p].pc = "idle" /\ stt'[p].result = "notLoaded"
              /\ ~loaded[stt[p].inst]
    BY <1>5, SttGoing, SttEnding DEF LockWeights, SttPcs, Results
  <2>2. user' \in [Instances -> Procs \cup {Nobody}]
    BY <1>5 DEF LockWeights, SttTypeOK
  <2>3. SttTypeOK'
    BY <1>0, <2>1, <2>2 DEF SttTypeOK
  <2>4. InstanceInv'
    BY <2>1 DEF InstanceInv
  <2>5. ReloadInv'
    BY <1>0, <2>1 DEF ReloadInv, Reloading
  <2>6. p = Job => stt'[p].pc = "run" \/ disturbed
    <3>1. p = Job /\ ~disturbed => pending
      BY <2>1 DEF JobInv, SttIdle
    <3>2. p = Job /\ ~disturbed => loaded[stt[p].inst]
      BY <2>1, <3>1 DEF JobInv
    <3> QED
      BY <2>1, <3>2
  <2>7. JobInv' /\ FailsOnlyUnderReload'
    BY <1>0, <2>1, <2>6, JobIsAlone DEF JobInv, FailsOnlyUnderReload, Reloading, SttIdle
  <2> QED
    BY <2>3, <2>4, <2>5, <2>7
<1>6. CASE RunEnds(p)
  <2>1. /\ stt[p].pc = "run" /\ UNCHANGED <<token, sttCell, live, loaded>>
        /\ \A q \in Procs \ {p} : stt'[q] = stt[q]
        /\ stt' \in [Procs -> SttStates]
        /\ \/ /\ stt'[p].pc = "check" /\ stt'[p].inst = stt[p].inst
              /\ stt'[p].result = stt[p].result
           \/ stt'[p].pc = "idle" /\ stt'[p].result \in {"text", "error"}
    <3>1. CASE SttGoes(p, "check")
      BY <1>6, <3>1, SttGoing DEF RunEnds, SttPcs
    <3>2. ASSUME NEW r \in {"text", "error"}, SttEnds(p, r)
          PROVE  /\ stt' \in [Procs -> SttStates]
                 /\ \A q \in Procs \ {p} : stt'[q] = stt[q]
                 /\ stt'[p].pc = "idle" /\ stt'[p].result \in {"text", "error"}
      BY <3>2, SttEnding DEF Results
    <3> QED
      BY <1>6, <3>1, <3>2 DEF RunEnds
  <2>2. user' \in [Instances -> Procs \cup {Nobody}]
    BY <1>6 DEF RunEnds, SttTypeOK
  <2>3. SttTypeOK'
    BY <1>0, <2>1, <2>2 DEF SttTypeOK
  <2>4. InstanceInv'
    BY <2>1 DEF InstanceInv
  <2>5. ReloadInv'
    BY <1>0, <2>1 DEF ReloadInv, Reloading
  <2>6. JobInv' /\ FailsOnlyUnderReload'
    BY <1>0, <2>1, JobIsAlone DEF JobInv, FailsOnlyUnderReload, Reloading, SttIdle
  <2> QED
    BY <2>3, <2>4, <2>5, <2>6
<1> QED
  BY <1>1, <1>2, <1>3, <1>4, <1>5, <1>6

(* Reloading: only while no job is undisturbed. *)
LEMMA ReloadSteps ==
  ASSUME SttInv, NEW p \in Procs, UNCHANGED idleVars,
         Rotate(p) \/ Create(p) \/ Replace(p) \/ UnloadWeights(p)
  PROVE  SttInv'
<1> USE DEF SttInv, SttAt
<1>0. UNCHANGED <<local, phase, pending, recent, disturbed, crossed>>
  BY DEF idleVars, reloads
<1>1. stt[p].pc \in Reloading
  BY DEF Rotate, Create, Replace, UnloadWeights, Reloading
<1>2. /\ ~crossed => \A q \in Procs : stt[q].pc \in Reloading => q = p
      /\ ~pending \/ disturbed
  BY <1>1 DEF ReloadInv, JobInv
<1>3. p = Job => pending /\ disturbed
  BY <1>1, <1>2, JobIsAlone DEF JobInv, SttIdle, Reloading
<1>4. CASE Rotate(p)
  <2>1. /\ stt[p].pc = "rotate" /\ UNCHANGED <<sttCell, loaded, user>>
        /\ token' = TRUE /\ live' = [i \in Instances |-> FALSE]
        /\ \A q \in Procs \ {p} : stt'[q] = stt[q]
        /\ stt' \in [Procs -> SttStates]
        /\ stt'[p].pc = "create" /\ stt'[p].result = stt[p].result
    BY <1>4, SttGoing DEF Rotate, SttPcs
  <2>2. SttTypeOK'
    BY <1>0, <2>1 DEF SttTypeOK
  <2>3. InstanceInv'
    BY <2>1 DEF InstanceInv
  <2>4. ReloadInv'
    BY <1>0, <1>2, <2>1 DEF ReloadInv, Reloading
  <2>5. JobInv' /\ FailsOnlyUnderReload'
    BY <1>0, <1>2, <1>3, <2>1, JobIsAlone DEF JobInv, FailsOnlyUnderReload, SttIdle
  <2> QED
    BY <2>2, <2>3, <2>4, <2>5
<1>5. CASE Create(p)
  <2> DEFINE i == CHOOSE i \in Instances : ~SttHeld(i)
  <2>1. /\ i \in Instances /\ "replace" \in SttPcs
        /\ stt' = [stt EXCEPT ![p].pc = "replace", ![p].inst = i]
        /\ live' = [live EXCEPT ![i] = token]
        /\ loaded' = [loaded EXCEPT ![i] = FALSE]
    BY <1>5 DEF Create, SttPcs
  <2> HIDE DEF i
  <2>2. /\ stt[p].pc = "create" /\ UNCHANGED <<token, sttCell, user>>
        /\ \A q \in Procs \ {p} : stt'[q] = stt[q]
        /\ stt' \in [Procs -> SttStates]
        /\ stt'[p].pc = "replace" /\ stt'[p].inst = i /\ stt'[p].result = stt[p].result
    <3>1. stt[p].pc = "create" /\ UNCHANGED <<token, sttCell, user>>
      BY <1>5 DEF Create
    <3> QED
      BY <2>1, <3>1, SttTaking
  <2>3. SttTypeOK'
    BY <1>0, <2>1, <2>2 DEF SttTypeOK
  <2>4. InstanceInv'
    BY <2>1, <2>2 DEF InstanceInv
  <2>5. live'[i] /\ token'
    BY <2>1, <2>2 DEF SttTypeOK, ReloadInv
  <2>6. ReloadInv'
    BY <1>0, <1>2, <2>2, <2>5 DEF ReloadInv, Reloading
  <2>7. JobInv' /\ FailsOnlyUnderReload'
    BY <1>0, <1>2, <1>3, <2>2, JobIsAlone DEF JobInv, FailsOnlyUnderReload, SttIdle
  <2> QED
    BY <2>3, <2>4, <2>6, <2>7
<1>6. CASE Replace(p)
  <2>1. stt[p].pc = "replace" /\ sttCell' = stt[p].inst
        /\ UNCHANGED <<token, live, loaded, user>> /\ stt[p].inst \in Instances
        /\ sttCell \in Instances
    BY <1>6 DEF Replace, InstanceInv, SttTypeOK
  <2>2. /\ \A q \in Procs \ {p} : stt'[q] = stt[q]
        /\ stt' \in [Procs -> SttStates]
        /\ stt'[p].pc = "unload" /\ stt'[p].inst = sttCell
        /\ stt'[p].result = stt[p].result
    <3>1. /\ "unload" \in SttPcs
          /\ stt' = [stt EXCEPT ![p].pc = "unload", ![p].inst = sttCell]
      BY <1>6 DEF Replace, SttPcs
    <3> QED
      BY <2>1, <3>1, SttTaking
  <2>3. SttTypeOK'
    BY <1>0, <2>1, <2>2 DEF SttTypeOK
  <2>4. InstanceInv'
    BY <2>1, <2>2 DEF InstanceInv
  <2>5. ReloadInv'
    BY <1>0, <1>2, <2>1, <2>2 DEF ReloadInv, Reloading
  <2>6. JobInv' /\ FailsOnlyUnderReload'
    BY <1>0, <1>2, <1>3, <2>2, JobIsAlone DEF JobInv, FailsOnlyUnderReload, SttIdle
  <2> QED
    BY <2>3, <2>4, <2>5, <2>6
<1>7. CASE UnloadWeights(p)
  <2>1. /\ stt[p].pc = "unload" /\ UNCHANGED <<token, sttCell, live, user>>
        /\ loaded' = [loaded EXCEPT ![stt[p].inst] = FALSE]
        /\ \A q \in Procs \ {p} : stt'[q] = stt[q]
        /\ stt' \in [Procs -> SttStates]
        /\ stt'[p].pc = "idle" /\ stt'[p].result = "none"
    BY <1>7, SttEnding DEF UnloadWeights, Results
  <2>2. SttTypeOK'
    BY <1>0, <2>1 DEF SttTypeOK, InstanceInv
  <2>3. InstanceInv'
    BY <2>1 DEF InstanceInv
  <2>4. ReloadInv'
    BY <1>0, <1>2, <2>1 DEF ReloadInv, Reloading
  <2>5. JobInv' /\ FailsOnlyUnderReload'
    BY <1>0, <1>2, <1>3, <2>1, JobIsAlone DEF JobInv, FailsOnlyUnderReload, SttIdle
  <2> QED
    BY <2>2, <2>3, <2>4, <2>5
<1> QED
  BY <1>4, <1>5, <1>6, <1>7

(* Starting: a transcription at its beginning, or a reload, whatever else   *)
(* runs; the job's own phases apart.                                       *)
LEMMA StartKeepsStt ==
  ASSUME SttInv, NEW p \in Procs \ {Job}, UNCHANGED pending, recent' \in BOOLEAN,
         phase' \in [Procs -> Phases], phase'[Job] = phase[Job],
         \/ StartStt(p, "take") /\ stt[p].pc \notin Reloading /\ UNCHANGED reloads
         \/ /\ p \in {Task, Settings}
            /\ \E pc \in {"rotate", "create"} : StartReload(p, pc)
         \/ UNCHANGED <<sttVars, reloads>>
  PROVE  SttInv'
<1> USE DEF SttInv, SttAt, SttIdle
<1>1. CASE StartStt(p, "take") /\ stt[p].pc \notin Reloading /\ UNCHANGED reloads
  <2>1. /\ stt' \in [Procs -> SttStates] /\ stt'[p].pc = "take"
        /\ \A q \in Procs \ {p} : stt'[q] = stt[q]
        /\ UNCHANGED <<token, sttCell, live, loaded, user>>
    BY <1>1, SttStarting DEF SttPcs, StartStt
  <2>2. SttTypeOK'
    BY <1>1, <2>1 DEF SttTypeOK, reloads
  <2>3. InstanceInv' /\ ReloadInv'
    BY <1>1, <2>1 DEF InstanceInv, reloads, ReloadInv, Reloading
  <2>4. JobInv' /\ FailsOnlyUnderReload'
    BY <1>1, <2>1, JobIsAlone DEF JobInv, reloads, FailsOnlyUnderReload, Reloading
  <2> QED
    BY <2>2, <2>3, <2>4
<1>2. CASE p \in {Task, Settings} /\ \E pc \in {"rotate", "create"} : StartReload(p, pc)
  <2>1. PICK pc \in {"rotate", "create"} : StartReload(p, pc)
    BY <1>2
  <2>2. /\ disturbed' = (disturbed \/ pending) /\ StartStt(p, pc)
        /\ crossed' = ReloadRuns
    BY <2>1 DEF StartReload
  <2>3. /\ stt' \in [Procs -> SttStates] /\ stt'[p].pc = pc
        /\ \A q \in Procs \ {p} : stt'[q] = stt[q]
        /\ UNCHANGED <<token, sttCell, live, loaded, user>>
    BY <2>2, SttStarting DEF SttPcs, StartStt
  <2>4. crossed' \in BOOLEAN /\ (~crossed' => \A q \in Procs : stt[q].pc \notin Reloading)
    BY <2>2 DEF ReloadRuns
  <2>5. SttTypeOK'
    BY <2>2, <2>3, <2>4 DEF SttTypeOK
  <2>6. InstanceInv' /\ ReloadInv'
    BY <1>2, <2>3, <2>4 DEF InstanceInv, ReloadInv, Reloading
  <2>7. pending => disturbed'
    BY <2>2 DEF SttTypeOK
  <2>8. JobInv' /\ FailsOnlyUnderReload'
    BY <2>3, <2>7, JobIsAlone DEF JobInv, FailsOnlyUnderReload
  <2> QED
    BY <2>5, <2>6, <2>8
<1>3. CASE UNCHANGED <<sttVars, reloads>>
  BY <1>3, JobIsAlone
  DEF sttVars, reloads, SttTypeOK, InstanceInv, ReloadInv, JobInv, FailsOnlyUnderReload
<1> QED
  BY <1>1, <1>2, <1>3

(* The job itself. *)
LEMMA JobSteps ==
  ASSUME SttInv, JobBegins \/ JobRewrites \/ JobEnds
  PROVE  SttInv'
<1> USE JobIsAlone DEF SttInv, SttAt, SttIdle
<1>1. CASE JobBegins
  <2>1. /\ phase[Job] = "idle" /\ pending' /\ pending' \in BOOLEAN /\ recent' \in BOOLEAN
        /\ UNCHANGED <<token, sttCell, live, loaded, user>>
    BY <1>1 DEF JobBegins, In, StartStt, RemoteStt
  <2>2. phase' \in [Procs -> Phases] /\ phase'[Job] = "stt"
    BY <1>1 DEF JobBegins, Into, Goes, SttTypeOK, Phases
  <2>3. /\ disturbed' \in BOOLEAN /\ crossed' = crossed
        /\ disturbed' <=> \E p \in Procs : stt[p].pc \in Reloading
    BY <1>1 DEF JobBegins, ReloadRuns
  <2>4. stt[Job].pc = "idle"
    BY <2>1 DEF JobInv
  <2>5. /\ stt' \in [Procs -> SttStates] /\ stt'[Job].pc \in {"idle", "take"}
        /\ \A q \in Procs \ {Job} : stt'[q] = stt[q]
        /\ stt'[Job].result \in {"none", "text", "error"}
    <3>1. CASE StartStt(Job, "take")
      BY <3>1, SttStarting DEF SttPcs
    <3>2. CASE RemoteStt(Job)
      <4>1. PICK r \in {"text", "error"} : stt' = [stt EXCEPT ![Job].result = r]
        BY <3>2 DEF RemoteStt
      <4>2. r \in Results
        BY DEF Results
      <4> QED
        BY <2>4, <4>1, <4>2, SttAnswering
    <3> QED
      BY <1>1, <3>1, <3>2 DEF JobBegins
  <2>6. SttTypeOK'
    BY <2>1, <2>2, <2>3, <2>5 DEF SttTypeOK
  <2>7. InstanceInv' /\ ReloadInv'
    BY <2>1, <2>3, <2>4, <2>5 DEF InstanceInv, ReloadInv, Reloading
  <2>8. JobInv' /\ FailsOnlyUnderReload'
    BY <2>1, <2>2, <2>3, <2>5 DEF JobInv, FailsOnlyUnderReload, Reloading
  <2> QED
    BY <2>6, <2>7, <2>8
<1>2. CASE JobRewrites
  <2>1. /\ phase[Job] = "stt" /\ phase' \in [Procs -> Phases] /\ phase'[Job] = "llm"
    BY <1>2 DEF JobRewrites, Into, In, Goes, SttTypeOK, Phases
  <2>2. /\ UNCHANGED <<token, sttCell, live, loaded, user, stt, pending, recent>>
        /\ UNCHANGED <<disturbed, crossed>>
    BY <1>2 DEF JobRewrites, sttVars, reloads
  <2> QED
    BY <2>1, <2>2
    DEF SttTypeOK, InstanceInv, ReloadInv, JobInv, FailsOnlyUnderReload
<1>3. CASE JobEnds
  <2>1. /\ phase' \in [Procs -> Phases] /\ phase'[Job] = "idle" /\ stt[Job].pc = "idle"
    BY <1>3 DEF JobEnds, Into, Rests, Goes, SttTypeOK, Phases
  <2>2. /\ UNCHANGED <<token, sttCell, live, loaded, user, stt, disturbed, crossed>>
        /\ ~pending' /\ pending' \in BOOLEAN /\ recent' \in BOOLEAN
    BY <1>3 DEF JobEnds, sttVars, reloads
  <2> QED
    BY <2>1, <2>2
    DEF SttTypeOK, InstanceInv, ReloadInv, JobInv, FailsOnlyUnderReload
<1> QED
  BY <1>1, <1>2, <1>3

(* Everybody else: tools, the watchdog, the commands. *)
LEMMA OthersKeepStt ==
  ASSUME SttInv,
         \/ ToolBegins \/ PrewarmBegins \/ PrewarmGoesOn \/ ToolEnds
         \/ Watch \/ Commands
  PROVE  SttInv'
<1> USE JobIsAlone
<1>0. SttTypeOK /\ pending \in BOOLEAN /\ recent \in BOOLEAN
  BY DEF SttInv, SttTypeOK
<1>1. phase' \in [Procs -> Phases] /\ phase'[Job] = phase[Job]
  BY <1>0
  DEF ToolBegins, PrewarmBegins, PrewarmGoesOn, ToolEnds, Watch, WatchLlm, LlmAge,
      WatchStt, SttAge, UnloadStt, Done, Commands, UpdateStt, UpdateLlm,
      UpdateGoesOn, Recover, ForceUnload, Into, Goes, SttTypeOK, Phases
<1>2. pending' = pending /\ recent' \in BOOLEAN
  BY <1>0
  DEF ToolBegins, PrewarmBegins, PrewarmGoesOn, ToolEnds, Watch, WatchLlm, LlmAge,
      WatchStt, SttAge, UnloadStt, Done, Commands, UpdateStt, UpdateLlm,
      UpdateGoesOn, Recover, ForceUnload, KeepForWatch, KeepForCommand
<1>3. \/ UNCHANGED <<sttVars, reloads>>
      \/ \E p \in {Task, Settings}, pc \in {"rotate", "create"} : StartReload(p, pc)
      \/ PrewarmBegins
  BY DEF ToolBegins, PrewarmGoesOn, ToolEnds, Watch, WatchLlm, LlmAge,
         WatchStt, SttAge, UnloadStt, Done, Commands, UpdateStt, UpdateLlm,
         UpdateGoesOn, Recover, ForceUnload, KeepForWatch
<1>4. CASE PrewarmBegins
  <2>1. StartStt(Tool, "take") /\ UNCHANGED reloads
    BY <1>4 DEF PrewarmBegins
  <2>2. stt[Tool].pc \notin Reloading
    BY DEF SttInv, ReloadInv
  <2> QED
    BY <1>1, <1>2, <2>1, <2>2, StartKeepsStt
<1>5. CASE UNCHANGED <<sttVars, reloads>>
  BY <1>1, <1>2, <1>5, StartKeepsStt
<1>6. ASSUME NEW p \in {Task, Settings}, NEW pc \in {"rotate", "create"}, StartReload(p, pc)
      PROVE  SttInv'
  BY <1>1, <1>2, <1>6, StartKeepsStt
<1> QED
  BY <1>3, <1>4, <1>5, <1>6

(* A process inside the transcriber, inside the language model, the clock,  *)
(* and nothing at all.                                                     *)
LEMMA QuietSteps ==
  ASSUME SttInv, UNCHANGED <<sttVars, local, phase, pending, disturbed, crossed>>, recent' \in BOOLEAN
  PROVE  SttInv'
BY DEF SttInv, sttVars, SttTypeOK, InstanceInv, ReloadInv, JobInv, FailsOnlyUnderReload, SttIdle, SttAt

LEMMA SttInvInit == Init => SttInv
<1> SUFFICES ASSUME Init PROVE SttInv
  OBVIOUS
<1>1. sttCell \in Instances
  BY InstanceAssumption DEF Init, SttInit, InstanceAssumption
<1> DEFINE r == [pc |-> "idle", inst |-> NoInstance, result |-> "none"]
<1>2. /\ r \in SttStates
      /\ r.pc = "idle" /\ r.inst = NoInstance /\ r.result = "none"
  BY DEF SttStates, SttPcs, Results
<1>3. stt = [p \in Procs |-> r]
  BY DEF Init, SttInit
<1> HIDE DEF r
<1>4. /\ stt \in [Procs -> SttStates]
      /\ \A p \in Procs : stt[p].pc = "idle" /\ stt[p].result = "none"
  BY <1>2, <1>3
<1>5. SttTypeOK
  BY <1>1, <1>4 DEF Init, SttInit, SttTypeOK, Phases
<1>6. InstanceInv /\ ReloadInv
  BY <1>1, <1>4 DEF Init, SttInit, InstanceInv, ReloadInv, Reloading
<1>7. JobInv /\ FailsOnlyUnderReload
  BY <1>4, JobIsAlone DEF Init, JobInv, FailsOnlyUnderReload, SttIdle, SttAt
<1> QED
  BY <1>5, <1>6, <1>7 DEF SttInv

LEMMA SttInvNext ==
  ASSUME SttInv, [Next]_vars
  PROVE  SttInv'
<1>0. recent \in BOOLEAN
  BY DEF SttInv, SttTypeOK
<1>1. ASSUME NEW p \in Procs, SttStep(p), UNCHANGED idleVars
      PROVE  SttInv'
  BY <1>1, TranscribeSteps, ReloadSteps DEF SttStep
<1>2. ASSUME NEW p \in Procs, Steps(p)
      PROVE  SttInv'
  <2>1. CASE UNCHANGED <<sttVars, idleVars>>
    BY <1>0, <2>1, QuietSteps DEF idleVars, reloads
  <2> QED
    BY <1>1, <1>2, <2>1 DEF Steps
<1>3. CASE TimePasses \/ UNCHANGED vars
            \/ \E e \in Engines : ThreadStep(e) /\ UNCHANGED <<sttVars, idleVars>>
  <2>1. UNCHANGED <<sttVars, local, phase, pending, disturbed, crossed>> /\ recent' \in BOOLEAN
    BY <1>0, <1>3 DEF TimePasses, vars, idleVars, reloads
  <2> QED
    BY <2>1, QuietSteps
<1>4. CASE Users \/ Watch \/ Commands
  BY <1>4, JobSteps, OthersKeepStt DEF Users
<1> QED
  BY <1>2, <1>3, <1>4 DEF Next

(* Which instance has which token and weights, who reloads, and what a job   *)
(* that runs beside a reload has seen of it, also where reloads meet.       *)
THEOREM TranscriberInvariant == Spec => []SttInv
<1>1. SttInv /\ [Next]_vars => SttInv'
  BY SttInvNext
<1> QED
  BY SttInvInit, <1>1, PTL DEF Spec

(* A job finds its weights gone only if a reload ran beside it, and is told  *)
(* that it was cancelled only then or after two reloads that met.           *)
THEOREM JobFailsOnlyUnderReload == Spec => []FailsOnlyUnderReload
<1>1. SttInv => FailsOnlyUnderReload
  BY DEF SttInv
<1> QED
  BY <1>1, TranscriberInvariant, PTL

=============================================================================
