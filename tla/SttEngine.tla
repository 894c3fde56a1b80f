----------------------------- MODULE SttEngine -----------------------------
(***************************************************************************)
(* The transcriber and its model (transcription/local.rs and its cell in    *)
(* app/runtime.rs).  An instance has a cancel token and, behind a mutex, the *)
(* weights once they have been asked for.  A reload cancels the token, makes *)
(* an instance with the new one, puts it into the cell and unloads what was  *)
(* there; who works with that has its own handle to it.                     *)
(***************************************************************************)
EXTENDS LlmEngine

CONSTANTS Instances, NoInstance

ASSUME InstanceAssumption == Instances # {} /\ NoInstance \notin Instances

VARIABLES
  token,    \* transcriber_cancel: is it still good?
  sttCell,  \* the transcriber of the runtime
  live,     \* the token of each instance: is it still good?
  loaded,   \* has it its weights?
  user,     \* who has the mutex around them
  stt       \* the processes

sttVars == <<token, sttCell, live, loaded, user, stt>>

SttPcs == {"idle", "take", "check", "ensure", "lock", "run",
           "rotate", "create", "replace", "unload"}
Results == {"none", "text", "error", "cancelled", "notLoaded"}

SttInit ==
  /\ token = TRUE /\ sttCell = (CHOOSE i \in Instances : TRUE)
  /\ live = [i \in Instances |-> TRUE]
  /\ loaded = [i \in Instances |-> FALSE]
  /\ user = [i \in Instances |-> Nobody]
  /\ stt = [p \in Procs |-> [pc |-> "idle", inst |-> NoInstance, result |-> "none"]]

SttAt(p, pc) == stt[p].pc = pc
SttIdle(p) == SttAt(p, "idle")
SttGoes(p, pc) == stt' = [stt EXCEPT ![p].pc = pc]
SttEnds(p, result) ==
  stt' = [stt EXCEPT ![p] = [pc |-> "idle", inst |-> NoInstance, result |-> result]]
SttHeld(i) == sttCell = i \/ \E p \in Procs : stt[p].inst = i

-----------------------------------------------------------------------------
(* Transcribing, or loading ahead: prewarm transcribes a little silence.    *)

TakeTranscriber(p) ==
  /\ SttAt(p, "take")
  /\ stt' = [stt EXCEPT ![p].pc = "check", ![p].inst = sttCell]
  /\ UNCHANGED <<token, sttCell, live, loaded, user>>

(* The token is looked at twice; a token that is good then was good before. *)
CheckToken(p) ==
  /\ SttAt(p, "check")
  /\ IF live[stt[p].inst] THEN SttGoes(p, "ensure") ELSE SttEnds(p, "cancelled")
  /\ UNCHANGED <<token, sttCell, live, loaded, user>>

(* ensure_loaded lets the mutex go again ... *)
EnsureWeights(p) ==
  /\ SttAt(p, "ensure") /\ user[stt[p].inst] = Nobody
  /\ SttGoes(p, "lock")
  /\ loaded' = [loaded EXCEPT ![stt[p].inst] = TRUE]
  /\ UNCHANGED <<token, sttCell, live, user>>

(* (the file is missing, or no model) *)
EnsureFails(p) ==
  /\ SttAt(p, "ensure") /\ user[stt[p].inst] = Nobody /\ ~loaded[stt[p].inst]
  /\ SttEnds(p, "error")
  /\ UNCHANGED <<token, sttCell, live, loaded, user>>

(* ... and the transcription takes it. *)
LockWeights(p) ==
  /\ SttAt(p, "lock") /\ user[stt[p].inst] = Nobody
  /\ IF loaded[stt[p].inst]
     THEN SttGoes(p, "run") /\ user' = [user EXCEPT ![stt[p].inst] = p]
     ELSE SttEnds(p, "notLoaded") /\ UNCHANGED user
  /\ UNCHANGED <<token, sttCell, live, loaded>>

(* A result that is empty is tried again, from the token on. *)
RunEnds(p) ==
  /\ SttAt(p, "run")
  /\ user' = [user EXCEPT ![stt[p].inst] = Nobody]
  /\ (\E r \in {"text", "error"} : SttEnds(p, r)) \/ SttGoes(p, "check")
  /\ UNCHANGED <<token, sttCell, live, loaded>>

-----------------------------------------------------------------------------
(* Reloading.                                                              *)

(* Variant for the checks: no new token. *)
RotateOnlyCancels(p) ==
  /\ SttAt(p, "rotate") /\ SttGoes(p, "create")
  /\ live' = [i \in Instances |-> FALSE]
  /\ token' = FALSE
  /\ UNCHANGED <<sttCell, loaded, user>>

(* rotate_transcriber_cancel: every instance has had the old token. *)
Rotate(p) ==
  /\ SttAt(p, "rotate") /\ SttGoes(p, "create")
  /\ live' = [i \in Instances |-> FALSE]
  /\ token' = TRUE
  /\ UNCHANGED <<sttCell, loaded, user>>

(* Instances nobody holds are all alike. *)
Create(p) ==
  /\ SttAt(p, "create") /\ \E i \in Instances : ~SttHeld(i)
  /\ LET i == CHOOSE i \in Instances : ~SttHeld(i)
     IN /\ stt' = [stt EXCEPT ![p].pc = "replace", ![p].inst = i]
        /\ live' = [live EXCEPT ![i] = token]
        /\ loaded' = [loaded EXCEPT ![i] = FALSE]
  /\ UNCHANGED <<token, sttCell, user>>

(* replace_transcriber *)
Replace(p) ==
  /\ SttAt(p, "replace")
  /\ sttCell' = stt[p].inst
  /\ stt' = [stt EXCEPT ![p].pc = "unload", ![p].inst = sttCell]
  /\ UNCHANGED <<token, live, loaded, user>>

UnloadWeights(p) ==
  /\ SttAt(p, "unload") /\ user[stt[p].inst] = Nobody
  /\ loaded' = [loaded EXCEPT ![stt[p].inst] = FALSE]
  /\ SttEnds(p, "none")
  /\ UNCHANGED <<token, sttCell, live, user>>

SttStep(p) ==
  \/ TakeTranscriber(p) \/ CheckToken(p) \/ EnsureWeights(p) \/ EnsureFails(p)
  \/ LockWeights(p) \/ RunEnds(p)
  \/ Rotate(p) \/ Create(p) \/ Replace(p) \/ UnloadWeights(p)

=============================================================================
