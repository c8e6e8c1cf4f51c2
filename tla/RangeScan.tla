----------------------------- MODULE RangeScan -----------------------------
(***************************************************************************)
(* What a caller of fetchEvents is promised: the blocks of a range are     *)
(* handed over in pieces, in any order, none of them twice; the scan ends  *)
(* well only when no block is left, and may fail at any time before that.  *)
(***************************************************************************)
EXTENDS Integers

VARIABLES
  range,       \* the blocks asked for
  remaining,   \* those not handed over yet
  status       \* "running", "done" or "failed"

Init ==
  /\ range \subseteq Int
  /\ remaining = range
  /\ status = "running"

\* The events of some of the remaining blocks are yielded.
Deliver ==
  /\ status = "running"
  /\ remaining' \subseteq remaining
  /\ UNCHANGED <<range, status>>

Finish ==
  /\ status = "running"
  /\ remaining = {}
  /\ status' = "done"
  /\ UNCHANGED <<range, remaining>>

Fail ==
  /\ status = "running"
  /\ status' = "failed"
  /\ UNCHANGED <<range, remaining>>

Next == Deliver \/ Finish \/ Fail

Spec == Init /\ [][Next]_<<range, remaining, status>>
============================================================================
