--------------------------- MODULE SegmentDelivery ---------------------------
(***************************************************************************)
(* What the segment queue promises to whoever dictates: segments wait in   *)
(* the order they were accepted, each acceptance is either typed or        *)
(* dropped, in that order, and none waits for ever.  A restart forgets     *)
(* what waits; the program may then accept again what it kept on disk.     *)
(***************************************************************************)
EXTENDS Naturals, Sequences

CONSTANT Segments

VARIABLES waiting,   \* accepted, not yet typed or dropped
          typed      \* what was typed, in order

Accept(s) ==
  /\ \A i \in 1 .. Len(waiting) : waiting[i] # s
  /\ waiting' = Append(waiting, s)
  /\ UNCHANGED typed

Type ==
  /\ waiting # <<>>
  /\ typed' = Append(typed, Head(waiting))
  /\ waiting' = Tail(waiting)

Drop ==
  /\ waiting # <<>>
  /\ waiting' = Tail(waiting)
  /\ UNCHANGED typed

Restart ==
  /\ waiting' = <<>>
  /\ UNCHANGED typed

Init == waiting = <<>> /\ typed = <<>>

Next == (\E s \in Segments : Accept(s)) \/ Type \/ Drop \/ Restart

vars == <<waiting, typed>>

Spec == Init /\ [][Next]_vars /\ WF_vars(Type \/ Drop)

=============================================================================
