------------------------------ MODULE EventLog ------------------------------
(***************************************************************************)
(* What the activity feed of the control plane promises its readers: the   *)
(* last Cap events in the order of publication, numbered without a gap.    *)
(***************************************************************************)
EXTENDS Integers, Sequences

CONSTANT Cap

VARIABLES tail, count

Init == tail = <<>> /\ count = 0

Publish ==
    /\ count' = count + 1
    /\ tail' = IF Len(tail) < Cap THEN Append(tail, count')
                                  ELSE Append(Tail(tail), count')

Spec == Init /\ [][Publish]_<<tail, count>>
=============================================================================
