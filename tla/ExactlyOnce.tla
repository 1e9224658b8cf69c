----------------------------- MODULE ExactlyOnce -----------------------------
(***************************************************************************)
(* What the durable job table promises about one logical action, whatever  *)
(* happens to workers and leases: once submitted it stays open until its   *)
(* business effect commits, or it is parked for an operator; the effect    *)
(* commits at most once and nothing reopens an action that committed.      *)
(***************************************************************************)
EXTENDS Naturals

CONSTANT Actions

VARIABLES
  phase,    \* "absent", "open", "parked" or "done"
  applied   \* how many times the business effect has committed

vars == <<phase, applied>>

Init ==
  /\ phase = [a \in Actions |-> "absent"]
  /\ applied = [a \in Actions |-> 0]

Move(a, from, to) ==
  /\ phase[a] = from
  /\ phase' = [phase EXCEPT ![a] = to]

Submit(a) == Move(a, "absent", "open") /\ UNCHANGED applied

Commit(a) ==
  /\ Move(a, "open", "done")
  /\ applied' = [applied EXCEPT ![a] = @ + 1]

Park(a) == Move(a, "open", "parked") /\ UNCHANGED applied

Resume(a) == Move(a, "parked", "open") /\ UNCHANGED applied

Next == \E a \in Actions : Submit(a) \/ Commit(a) \/ Park(a) \/ Resume(a)

Spec == Init /\ [][Next]_vars
=============================================================================
