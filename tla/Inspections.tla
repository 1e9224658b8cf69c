----------------------------- MODULE Inspections -----------------------------
(***************************************************************************)
(* The inspection attempts of one application and their assignments        *)
(* (agni.inspections.application).  Every command locks the attempt it     *)
(* changes, so each is one action; the commands that also move the case    *)
(* are composed with these in CaseLifecycle.  Who the officer is, when the *)
(* visit is booked and what the report observes are left out.              *)
(***************************************************************************)
EXTENDS Naturals, Sequences

LOCAL INSTANCE Functions

CONSTANTS
  MaxVisits,     \* bound: attempts made for the application
  MaxBookings    \* bound: assignments made for all attempts together

VARIABLE attempts   \* the attempts by attempt_number, with their assignments in order

Unstarted == {"REQUESTED", "SCHEDULED"}
OpenStatus == Unstarted \cup {"IN_PROGRESS"}
AttemptStatus == OpenStatus \cup {"COMPLETED", "FAILED", "CANCELLED"}
AssignmentState == {"ACTIVE", "SUPERSEDED", "REVOKED", "FULFILLED"}

Init == attempts = <<>>

Visits == DOMAIN attempts
InStatus(S) == {i \in Visits : attempts[i].status \in S}
OpenAttempts == InStatus(OpenStatus)

\* The current assignment is the last one made.
Assigned(a) == a.assignments # <<>> /\ a.assignments[Len(a.assignments)] = "ACTIVE"

MutRetire(a, state) == a.assignments
RetireCurrent(a, state) ==
  IF Assigned(a) THEN [a.assignments EXCEPT ![Len(a.assignments)] = state]
                 ELSE a.assignments

Ended(a, status, state) == [status |-> status, assignments |-> RetireCurrent(a, state)]
Booked(a) == [status |-> "SCHEDULED",
              assignments |-> Append(RetireCurrent(a, "SUPERSEDED"), "ACTIVE")]

MutWithNewAttempt(s) == s
WithNewAttempt(s) == Append(s, [status |-> "REQUESTED", assignments |-> <<>>])

CanRequest == Len(attempts) < MaxVisits
Request == CanRequest /\ attempts' = WithNewAttempt(attempts)

Schedule(i) ==
  /\ attempts[i].status \in Unstarted
  /\ SumFunction([k \in Visits |-> Len(attempts[k].assignments)]) < MaxBookings
  /\ attempts' = [attempts EXCEPT ![i] = Booked(@)]

\* An attempt that was never assigned cannot be reassigned.
Reassign(i) == attempts[i].assignments # <<>> /\ Schedule(i)

\* The case still needs a visit: the follow-up attempt is created with the end
\* of the one that was cancelled or failed.
Cancel(i) ==
  /\ CanRequest
  /\ attempts[i].status \in Unstarted
  /\ attempts' = WithNewAttempt([attempts EXCEPT ![i] = Ended(@, "CANCELLED", "REVOKED")])

CheckIn(i) ==
  /\ Assigned(attempts[i])
  /\ attempts[i].status = "SCHEDULED"
  /\ attempts' = [attempts EXCEPT ![i].status = "IN_PROGRESS"]

FailVisit(i) ==
  /\ CanRequest
  /\ Assigned(attempts[i])
  /\ attempts[i].status \in {"SCHEDULED", "IN_PROGRESS"}
  /\ attempts' = WithNewAttempt([attempts EXCEPT ![i] = Ended(@, "FAILED", "FULFILLED")])

\* The part of SubmitReport that ends the visit.
Complete(i) ==
  /\ Assigned(attempts[i])
  /\ attempts[i].status = "IN_PROGRESS"
  /\ attempts' = [attempts EXCEPT ![i] = Ended(@, "COMPLETED", "FULFILLED")]

\* The part of WithdrawApplication that disposes of the attempts.
CancelUnstarted ==
  attempts' = [i \in Visits |->
    IF attempts[i].status \in Unstarted THEN Ended(attempts[i], "CANCELLED", "REVOKED")
                                        ELSE attempts[i]]

Step(i) == Schedule(i) \/ Reassign(i) \/ Cancel(i) \/ CheckIn(i) \/ FailVisit(i)

-----------------------------------------------------------------------------

TypeOK ==
  /\ attempts \in Seq([status: AttemptStatus, assignments: Seq(AssignmentState)])
  /\ Len(attempts) <= MaxVisits

\* An attempt has an active assignment exactly while it is booked or under
\* way, and never two: a revoked, superseded or fulfilled officer is out.
AssignmentFollowsAttempt ==
  \A i \in Visits : LET a == attempts[i].assignments IN
    /\ Assigned(attempts[i]) <=> attempts[i].status \in {"SCHEDULED", "IN_PROGRESS"}
    /\ \A k \in DOMAIN a : a[k] = "ACTIVE" => k = Len(a)
=============================================================================
