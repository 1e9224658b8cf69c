------------------------------ MODULE CaseClock ------------------------------
(***************************************************************************)
(* The clocks of one application (agni.obligations) and the hold that      *)
(* pauses them (agni.cases.application.lifecycle and holds).  The policy   *)
(* gives every task a budget, so every task opens an obligation.  A pause  *)
(* with a planned end leaves the state of its obligation alone and is      *)
(* never ended by the release: it is not recorded here, so a hold with a   *)
(* planned end is one that pauses nothing.                                 *)
(***************************************************************************)
EXTENDS Naturals, Sequences, FiniteSets

CONSTANTS
  HoldScopes,   \* the command_block_scope lists a hold may be given
  MaxHolds,     \* bound: holds made on the application
  MaxPauses     \* bound: clocks one hold pauses

VARIABLES
  obligations,  \* the obligation rows in the order they were opened
  hold,         \* whether a hold is ACTIVE, and the scope it blocks
  holds         \* how many holds were made

clockVars == <<obligations, hold, holds>>

Kinds == {"CASE_TARGET", "SCRUTINY_TASK", "APPLICANT_RESPONSE", "INSPECTION_TASK",
          "REVIEW_TASK", "ISSUANCE_TASK"}
OpenState == {"ACTIVE", "PAUSED"}
NoHold == [active |-> FALSE, scope |-> {}]

Init ==
  /\ obligations = <<>>
  /\ hold = NoHold
  /\ holds = 0

InState(state) == {o \in DOMAIN obligations : obligations[o].state = state}

-----------------------------------------------------------------------------
(* What a command makes of the rows. *)

MutOpen(rows, kind) ==
  IF \E o \in DOMAIN rows : rows[o].kind = kind /\ rows[o].state \in OpenState
  THEN rows ELSE Append(rows, [kind |-> kind, state |-> "ACTIVE"])
Open(rows, kind) == Append(rows, [kind |-> kind, state |-> "ACTIVE"])

Closed(rows, which, from, state) ==
  [o \in DOMAIN rows |-> [kind |-> rows[o].kind,
     state |-> IF o \in which /\ rows[o].state \in from THEN state ELSE rows[o].state]]

OfKind(rows, kinds) == {o \in DOMAIN rows : rows[o].kind \in kinds}

\* _satisfy closes the ACTIVE obligations of a kind; a paused one stays paused.
Satisfy(rows, kind) == Closed(rows, OfKind(rows, {kind}), {"ACTIVE"}, "SATISFIED")

\* Publication satisfies the issuance task and the case target, paused or not.
SatisfyAtPublication(rows) ==
  Closed(rows, OfKind(rows, {"ISSUANCE_TASK", "CASE_TARGET"}), OpenState, "SATISFIED")

CancelOne(rows, o) == Closed(rows, {o}, {"ACTIVE"}, "CANCELLED")
CancelAll(rows) == Closed(rows, DOMAIN rows, OpenState, "CANCELLED")

-----------------------------------------------------------------------------
(* Holds. *)

MutBlocks(scope) ==
  hold.active /\ (IF scope = "decision" THEN "DECISIONS" ELSE "TRANSITIONS") \in hold.scope

\* ensure_not_on_hold: TRANSITIONS blocks decisions too, DECISIONS only those.
Blocks(scope) ==
  /\ hold.active
  /\ "TRANSITIONS" \in hold.scope \/ (scope = "decision" /\ "DECISIONS" \in hold.scope)

CreateHold(scope, pauses) ==
  /\ ~hold.active
  /\ holds < MaxHolds
  /\ pauses \subseteq InState("ACTIVE") /\ Cardinality(pauses) <= MaxPauses
  /\ hold' = [active |-> TRUE, scope |-> scope]
  /\ holds' = holds + 1
  /\ obligations' = [o \in DOMAIN obligations |->
       IF o \in pauses THEN [obligations[o] EXCEPT !.state = "PAUSED"] ELSE obligations[o]]

MutEndPauses(rows, paused) == rows

\* The obligations as ReleaseHold saves them: what it read as paused becomes
\* active, whatever was written to the row since.
EndPauses(rows, paused) ==
  [o \in DOMAIN rows |-> [kind |-> rows[o].kind,
     state |-> IF o \in paused THEN "ACTIVE" ELSE rows[o].state]]

\* The writes of ReleaseHold, from the paused obligations it read.
ReleaseHold(paused) ==
  /\ hold' = NoHold
  /\ obligations' = EndPauses(obligations, paused)
  /\ UNCHANGED holds

-----------------------------------------------------------------------------

TypeOK ==
  /\ obligations \in Seq([kind: Kinds, state: OpenState \cup {"SATISFIED", "CANCELLED"}])
  /\ hold \in [active: BOOLEAN, scope: HoldScopes \cup {{}}]
  /\ holds \in 0..MaxHolds

\* A clock stands still only while a hold is in force: the release starts
\* every clock that is still open, whatever became of the others meanwhile.
ClockStopsOnlyOnHold == InState("PAUSED") # {} => hold.active
=============================================================================
