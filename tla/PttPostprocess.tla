--------------------------- MODULE PttPostprocess ---------------------------
(***************************************************************************)
(* Two-phase push-to-talk (app/ptt_postprocess.rs): the text of a take is   *)
(* typed as it comes; when the take is over and nothing is pending, the     *)
(* text is deleted again while an AI rewrites it, and the result is typed   *)
(* in its place (try_finish_ptt_postprocess of app/runtime.rs).  Three      *)
(* parties try to finish a take: the worker after the last job, a flush     *)
(* task, and the task a release starts.                                    *)
(*                                                                         *)
(* The rewritten text stands for the same segments as the text it replaces. *)
(* This module composes the rewrite with FocusDefer and has the             *)
(* specification of both.                                                  *)
(***************************************************************************)
EXTENDS FocusDefer

VARIABLES
  races,      \* history: the races the run has met, see Notes
  misdeleted  \* history: something else than the text of the take was deleted

Finishers == {"worker", "release"} \cup Flushes
NotFinishing == [by |-> "none", pc |-> "none", text |-> <<>>, deleted |-> FALSE,
                 recover |-> FALSE]

(* Where finisher c is in try_finish_ptt_postprocess. *)
At(c, pc) ==
  CASE c = "worker"  -> worker.pc = pc
    [] c = "release" -> release = pc
    [] OTHER         -> flush[c].pc = pc

Goes(c, pc) ==
  /\ worker'  = IF c = "worker" THEN [worker EXCEPT !.pc = pc] ELSE worker
  /\ release' = IF c = "release" THEN pc ELSE release
  /\ flush'   = IF c \in Flushes THEN [flush EXCEPT ![c].pc = pc] ELSE flush

KeepForFinish == UNCHANGED <<mode, ptt, takeVars, queue, pending, dropped, buffer>>
KeepFields == UNCHANGED <<userVars, fieldVars, typed, misdeleted>>

(* The checks before the guard is taken. *)
FinishLooks(c) ==
  /\ At(c, "look")
  /\ Goes(c, IF ptt \/ pending > 0 \/ buffer # <<>> THEN "end" ELSE "claim")
  /\ UNCHANGED <<state, phase1, finish, failures>> /\ KeepFields /\ KeepForFinish

(* try_begin_finish fails, or there turns out to be nothing to do. *)
FinishLeaves(c) ==
  /\ At(c, "claim") /\ Goes(c, "end")
  /\ \/ /\ finish.by # "none" \/ (mode.ai /\ pending > 0)
        /\ UNCHANGED phase1
     \/ /\ finish.by = "none"
        /\ mode.ai => pending = 0 /\ phase1.text = <<>>
        /\ phase1' = [active |-> FALSE, text |-> <<>>]
  /\ UNCHANGED <<state, finish, failures>> /\ KeepFields /\ KeepForFinish

CanClaim(c) ==
  /\ At(c, "claim")
  /\ finish.by = "none" /\ mode.ai /\ pending = 0 /\ phase1.text # <<>>

(* take_finish_snapshot, then the language model cannot be loaded. *)
FinishNoModel(c) ==
  /\ CanClaim(c) /\ Goes(c, "end")
  /\ Fails
  /\ phase1' = [active |-> FALSE, text |-> <<>>]
  /\ UNCHANGED <<state, finish>> /\ KeepFields /\ KeepForFinish

(* take_finish_snapshot, and the rewrite begins. *)
FinishClaims(c) ==
  /\ CanClaim(c) /\ Goes(c, "hold")
  /\ finish' = [by |-> c, pc |-> "delete", text |-> phase1.text, deleted |-> FALSE,
                recover |-> FALSE]
  /\ phase1' = [active |-> FALSE, text |-> <<>>]
  /\ state' = Transition(state, "Processing")
  /\ UNCHANGED failures /\ KeepFields /\ KeepForFinish

-----------------------------------------------------------------------------
(* The rewrite, in the hand of finish.by.                                  *)

FinishAt(pc) == finish.pc = pc
FinishGoes(pc) == finish' = [finish EXCEPT !.pc = pc]
FinishStays == UNCHANGED <<worker, flush, release>>

FinishEnds(s) ==
  /\ Goes(finish.by, "end") /\ finish' = NotFinishing /\ state' = s

(* As many characters as the text has are deleted at the end of the field. *)
Kept(w) == IF Len(finish.text) < Len(typed[w])
           THEN Len(typed[w]) - Len(finish.text) ELSE 0
Deleted(w) == SubSeq(typed[w], 1, Kept(w))
OtherText(w) == ToSet(SubSeq(typed[w], Kept(w) + 1, Len(typed[w]))) # ToSet(finish.text)

(* Variant for the checks: nothing is deleted. *)
DeleteNothing ==
  /\ FinishAt("delete")
  /\ finish' = [finish EXCEPT !.pc = "rewrite", !.deleted = TRUE]
  /\ Prepare
  /\ UNCHANGED <<state, phase1, typed, misdeleted, failures>>
  /\ FinishStays /\ KeepForFinish

(* The join of the rewrite and delete_injected_session_text. *)
DeleteText ==
  /\ FinishAt("delete")
  /\ finish' = [finish EXCEPT !.pc = "rewrite", !.deleted = TRUE]
  /\ Prepare
  /\ typed' = [typed EXCEPT ![focus'] = Deleted(focus')]
  /\ misdeleted' = (misdeleted \/ OtherText(focus'))
  /\ UNCHANGED <<state, phase1, failures>> /\ FinishStays /\ KeepForFinish

DeleteFails ==
  /\ FinishAt("delete") /\ FinishGoes("rewrite")
  /\ Fails /\ Prepare
  /\ UNCHANGED <<state, phase1, typed, misdeleted>> /\ FinishStays /\ KeepForFinish

(* The rewrite failed or has no text: the first text is typed again. *)
RewriteFails ==
  /\ FinishAt("rewrite")
  /\ Fails
  /\ finish' = [finish EXCEPT !.pc = "restore", !.recover = TRUE]
  /\ UNCHANGED <<state, phase1>> /\ FinishStays /\ KeepFields /\ KeepForFinish

(* It came too late: there are jobs again. *)
RewriteSkipped ==
  /\ FinishAt("rewrite") /\ pending > 0 /\ FinishGoes("restore")
  /\ UNCHANGED <<state, phase1, failures>> /\ FinishStays /\ KeepFields /\ KeepForFinish

RewriteReady ==
  /\ FinishAt("rewrite") /\ pending = 0 /\ FinishGoes("insert")
  /\ state' = Transition(state, "Injecting")
  /\ UNCHANGED <<phase1, failures>> /\ FinishStays /\ KeepFields /\ KeepForFinish

(* insert_, or replace_injected_session_text if nothing was deleted yet. *)
InsertText ==
  /\ FinishAt("insert")
  /\ Prepare
  /\ typed' = [typed EXCEPT ![focus'] =
                (IF finish.deleted THEN @ ELSE Deleted(focus')) \o finish.text]
  /\ misdeleted' = (misdeleted \/ (~finish.deleted /\ OtherText(focus')))
  /\ FinishEnds(RecoverAfterSegment(state, ptt))
  /\ UNCHANGED <<phase1, failures>> /\ KeepForFinish

(* The result cannot be typed; the controller is left as it is. *)
InsertFails ==
  /\ FinishAt("insert") /\ FinishGoes("restore")
  /\ Fails /\ Prepare
  /\ UNCHANGED <<state, phase1, typed, misdeleted>> /\ FinishStays /\ KeepForFinish

(* restore_phase1_injected_text, if the first text had been deleted. *)
RestoreText ==
  /\ FinishAt("restore")
  /\ IF finish.deleted
     THEN Prepare /\ typed' = [typed EXCEPT ![focus'] = @ \o finish.text]
     ELSE UNCHANGED <<userVars, fieldVars, typed>>
  /\ FinishEnds(IF finish.recover THEN RecoverAfterSegment(state, ptt) ELSE state)
  /\ UNCHANGED <<phase1, failures, misdeleted>> /\ KeepForFinish

RestoreTextFails ==
  /\ FinishAt("restore") /\ finish.deleted
  /\ Fails /\ Prepare
  /\ FinishEnds(IF finish.recover THEN RecoverAfterSegment(state, ptt) ELSE state)
  /\ UNCHANGED <<phase1, typed, misdeleted>> /\ KeepForFinish

(* schedule_ptt_postprocess_finish: the end of its task. *)
EndRelease ==
  /\ release = "end" /\ release' = "idle"
  /\ MaybeStopWatch(state)
  /\ UNCHANGED <<userVars, state, worker, flush, phase1, finish, typed, misdeleted,
                 failures>>
  /\ KeepForFinish

Finish ==
  \/ \E c \in Finishers : \/ FinishLooks(c) \/ FinishLeaves(c) \/ FinishNoModel(c)
                          \/ FinishClaims(c)
  \/ DeleteText \/ DeleteFails \/ RewriteFails \/ RewriteSkipped \/ RewriteReady
  \/ InsertText \/ InsertFails \/ RestoreText \/ RestoreTextFails \/ EndRelease

-----------------------------------------------------------------------------
Init ==
  /\ mode \in Modes
  /\ focus = (CHOOSE w \in Fields : TRUE) /\ moves = 0
  /\ target = NoWindow /\ watch = "off"
  /\ state = "Ready" /\ ptt = FALSE
  /\ begun = FALSE /\ capture = "closed" /\ speaking = FALSE /\ heard = 0
  /\ home = [s \in Segments |-> NoWindow] /\ spot = NoWindow
  /\ queue = <<>> /\ pending = 0 /\ worker = [pc |-> "idle", seg |-> 0]
  /\ dropped = {}
  /\ buffer = <<>>
  /\ flush = [f \in Flushes |-> [pc |-> "idle", text |-> <<>>]]
  /\ phase1 = [active |-> FALSE, text |-> <<>>]
  /\ finish = NotFinishing /\ release = "idle"
  /\ typed = [w \in Windows |-> <<>>]
  /\ failures = 0
  /\ races = {} /\ misdeleted = FALSE

FlushesBusy == {f \in Flushes : flush[f].pc # "idle"}

(* Text that waits for its field, or is on its way there. *)
Underway ==
  \/ pending > 0 \/ buffer # <<>> \/ phase1.text # <<>> \/ finish.by # "none"
  \/ FlushesBusy # {}

(* The races that take text from where it belongs: the target is changed     *)
(* while text is under way; the user is back for the second time before the *)
(* first flush is over; text is typed while older text waits in the buffer; *)
(* a take is rewritten while the next, or the rest of it, is still coming.  *)
Race(kind) ==
  CASE kind = "retarget" -> target' # target /\ Underway
    [] kind = "overlap"  -> \E f, g \in FlushesBusy' : f # g
    [] kind = "overtake" -> worker.pc = "type" /\ typed' # typed /\ buffer # <<>>
    [] kind = "straddle" -> finish'.by # "none"
                            /\ (pending' > 0 \/ buffer' # <<>>
                                \/ capture' \notin {"closed", "queued"})
    [] kind = "glance"   -> \/ Len(buffer') > Len(buffer) /\ ~ShouldDefer
                            \/ ShouldDefer /\ ~ShouldDefer' /\ buffer # <<>>
                               /\ watch # "away"
    [] kind = "restart"  -> watch' = "new" /\ watch # "new" /\ buffer # <<>>

Races == {"retarget", "overlap", "overtake", "straddle", "glance", "restart"}
Notes == races' = races \cup {k \in Races : Race(k)}

Defer == (User \/ Worker \/ Watch \/ \E f \in Flushes : Flush(f))
         /\ UNCHANGED misdeleted

Next == (Defer \/ Finish) /\ Notes

everything == <<vars, races, misdeleted>>

Spec == Init /\ [][Next]_everything

-----------------------------------------------------------------------------
TypeOK ==
  /\ mode \in Modes /\ focus \in Windows /\ moves \in 0 .. MaxMoves
  /\ target \in Fields \cup {NoWindow}
  /\ watch \in {"off", "new", "match", "away"}
  /\ state \in AppStates /\ ptt \in BOOLEAN /\ begun \in BOOLEAN
  /\ capture \in {"closed", "planned", "open", "listening", "releasing", "queued"}
  /\ speaking \in BOOLEAN
  /\ heard \in 0 .. MaxSegments
  /\ queue \in Seq(Segments) /\ pending \in Nat
  /\ worker.seg \in Segments \cup {0}
  /\ dropped \subseteq Segments
  /\ buffer \in Seq(Segments)
  /\ \A f \in Flushes : flush[f].text \in Seq(Segments)
  /\ phase1 \in [active : BOOLEAN, text : Seq(Segments)]
  /\ finish.by \in Finishers \cup {"none"} /\ finish.text \in Seq(Segments)
  /\ \A w \in Windows : typed[w] \in Seq(Segments)
  /\ failures \in 0 .. MaxFailures /\ races \subseteq Races

InWindows == UNION {ToSet(typed[w]) : w \in Windows}

(* No race has taken place that moves text; the watch may have missed one.  *)
Calm == races \subseteq {"glance", "restart"}

(* Every segment that was heard waits for the worker, is in its hand or in  *)
(* the buffer, is being rewritten, or is in some window, unless it had no   *)
(* text or could not be typed: one failure anywhere, also between deletion  *)
(* and insertion of a rewrite, loses nothing (flush_focus_defer_buffer      *)
(* consumes after success, restore_phase1_injected_text).                  *)
NothingLost ==
  Calm => \A s \in 1 .. heard :
    \/ s \in ToSet(queue) \cup ToSet(buffer) \cup ToSet(finish.text)
             \cup InWindows \cup dropped
    \/ worker.pc # "idle" /\ worker.seg = s

(* A field holds each segment once and in the order of speech, whatever went *)
(* there at once, through the buffer, or through the AI.                    *)
OnceInOrder ==
  Calm => /\ \A w \in Windows : \A i, j \in DOMAIN typed[w] :
                i < j => typed[w][i] < typed[w][j]
          /\ \A v, w \in Windows : v # w => ToSet(typed[v]) \cap ToSet(typed[w]) = {}

(* Text goes to the field its session was begun in, wherever the user is by *)
(* then (the injection target of focus_target.rs).                         *)
InItsField ==
  Calm => \A w \in Windows : \A s \in ToSet(typed[w]) : home[s] \in {w, NoWindow}

(* What is deleted to make room for the rewritten text is the text of the   *)
(* take, and nothing of what was typed before or after it.                 *)
DeletesOwnText == Calm => ~misdeleted

(* Nobody but the user has anything to do. *)
Resting ==
  /\ pending = 0 /\ worker.pc = "idle" /\ FlushesBusy = {} /\ finish.by = "none"
  /\ release = "idle" /\ capture = "closed" /\ ~speaking
  /\ watch = "off" \/ watch = Seen

(* Text waits in the buffer only while the user is away from its field: when *)
(* nothing moves any more and the user is back, it has been typed.         *)
WaitsOnlyAway ==
  Resting /\ races = {} /\ failures = 0 => buffer = <<>> \/ ShouldDefer

(* After the worker, the flushes and the rewrite, in whatever order they    *)
(* ended, the controller takes the next take, races or not.                *)
ReadyAtRest == Resting /\ failures = 0 => state = "Ready"

(* Who stays in the field has the text typed there (README.MD:40 of the     *)
(* repository: "after a pause, speech is transcribed and inserted").        *)
InsertedAutomatically ==
  Resting /\ moves = 0 /\ failures = 0 => 1 .. heard \subseteq InWindows \cup dropped

=============================================================================
