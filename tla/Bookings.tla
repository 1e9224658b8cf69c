-------------------------------- MODULE Bookings --------------------------------
(***************************************************************************)
(* The calendar of the officers: visits booked for them, and the intervals *)
(* they are not available.                                                 *)
(*                                                                         *)
(* A command is a transaction. It takes the fence of its actor, the lock   *)
(* of its visit and the fence of the officer it is about, one after the    *)
(* other, keeps them, and what it writes is seen when it commits. Two of   *)
(* them can wait for each other (the officer's own command holds the fence *)
(* and wants the visit, a scheduler the reverse): the database rolls one   *)
(* back, as it does a command whose If-Match is stale or whose connection  *)
(* is lost, which is RollBack. The follow-up of a visit is in Inspections. *)
(***************************************************************************)
EXTENDS Naturals, Sequences

CONSTANTS
  People, Supervisors,   \* staff, any of whom may be an officer
  Attempts, Intervals,   \* visits to book, and the intervals [from, until) asked for
  MaxAssignments,        \* bound: assignments made
  MaxAbsences            \* bound: availability records

BookingsAssumption ==
  /\ Supervisors \subseteq People /\ MaxAssignments \in Nat /\ MaxAbsences \in Nat
  /\ "none" \notin Attempts \cup People
  /\ \A i \in Intervals : i.from \in Nat /\ i.until \in Nat /\ i.from < i.until

NoInterval == [from |-> 0, until |-> 0]
Times == Intervals \cup [from: {0} \cup {i.from : i \in Intervals}, until: {0} \cup {i.until : i \in Intervals}]

\* A transaction: what it is about is chosen when it is first used.
Idle == [step |-> "none", visit |-> "none", officer |-> "none", at |-> NoInterval, seen |-> {}]

VARIABLES
  eligible,      \* who has an effective OFFICER binding for the jurisdiction
  visits,        \* attempts: status and appointment
  assignments,   \* in the order they were made
  absences,      \* UNAVAILABLE records, each with the bookings it reported as affected
  working        \* the open transaction of each actor

bookingVars == <<eligible, visits, assignments, absences, working>>

Unstarted == {"REQUESTED", "SCHEDULED"}

Init ==
  /\ eligible = People
  /\ visits = [v \in Attempts |-> [status |-> "REQUESTED", at |-> NoInterval]]
  /\ assignments = <<>> /\ absences = <<>>
  /\ working = [p \in People |-> Idle]

-----------------------------------------------------------------------------
(* What the commands read.                                                 *)

Instants(i) == i.from..(i.until - 1)
Overlap(i, j) == i.from < j.until /\ j.from < i.until

UnavailableBetween(o, i) == \E k \in DOMAIN absences : absences[k].officer = o /\ Overlap(absences[k].at, i)

\* Active bookings of the officer, those of the visit itself left out.
OverlappingBookings(o, i, v) ==
  {n \in DOMAIN assignments : LET b == assignments[n] IN
     b.state = "ACTIVE" /\ b.officer = o /\ b.visit # v /\ Overlap(b.at, i)}

Current(v) == {n \in DOMAIN assignments : assignments[n].visit = v /\ assignments[n].state = "ACTIVE"}

\* The officer the visit is assigned to, if the officer role is still in force.
AssignedOfficerOnly(p, v) == p \in eligible /\ \E n \in Current(v) : assignments[n].officer = p

RetireCurrent(v, state) ==
  [n \in DOMAIN assignments |-> IF n \in Current(v) THEN [assignments[n] EXCEPT !.state = state]
                                ELSE assignments[n]]

-----------------------------------------------------------------------------
(* Locks.                                                                  *)

HoldsFence(q, o) == working[q] # Idle /\ (q = o \/ (working[q].step \in {"booking", "recording"} /\ working[q].officer = o))
FenceFree(p, o) == \A q \in People \ {p} : ~HoldsFence(q, o)
VisitFree(p, v) == \A q \in People \ {p} : working[q].visit # v

End(p) == working' = [working EXCEPT ![p] = Idle]

\* execute takes the fence of the actor before anything else.
Starts(p) == working[p] = Idle /\ FenceFree(p, p)

RollBack(p) ==
  /\ working[p] # Idle
  /\ End(p) /\ UNCHANGED <<eligible, visits, assignments, absences>>

-----------------------------------------------------------------------------
(* ScheduleInspection and ReassignInspection, by a supervisor.             *)

\* What a reassignment does not give of the interval is kept.
Given(t, old) == [from |-> IF t.from = 0 THEN old.from ELSE t.from, until |-> IF t.until = 0 THEN old.until ELSE t.until]

\* Eligibility is read before the officer's fence is taken.
LockVisit(p, v, o, at) ==
  /\ Starts(p) /\ VisitFree(p, v)
  /\ visits[v].status \in Unstarted /\ o \in eligible
  /\ working' = [working EXCEPT ![p] = [step |-> "locked", visit |-> v, officer |-> o, at |-> at, seen |-> {}]]
  /\ UNCHANGED <<eligible, visits, assignments, absences>>

ScheduleInspection(p, v, o, i) == LockVisit(p, v, o, i)

ReassignInspection(p, v, o) ==
  working[p] = Idle /\ Current(v) # {} /\ \E t \in Times : LockVisit(p, v, o, Given(t, visits[v].at))

CheckOfficer(p) ==
  LET t == working[p] IN
  /\ t.step = "locked" /\ FenceFree(p, t.officer)
  /\ ~UnavailableBetween(t.officer, t.at) /\ OverlappingBookings(t.officer, t.at, t.visit) = {}
  /\ working' = [working EXCEPT ![p].step = "booking"]
  /\ UNCHANGED <<eligible, visits, assignments, absences>>

\* The constraints of the table refuse what the queries let pass.
Book(p) ==
  LET t == working[p] IN
  /\ t.step = "booking" /\ Len(assignments) < MaxAssignments
  /\ OverlappingBookings(t.officer, t.at, t.visit) = {} /\ t.at.from < t.at.until
  /\ assignments' = Append(RetireCurrent(t.visit, "SUPERSEDED"),
                           [visit |-> t.visit, officer |-> t.officer, at |-> t.at, state |-> "ACTIVE"])
  /\ visits' = [visits EXCEPT ![t.visit] = [status |-> "SCHEDULED", at |-> t.at]]
  /\ End(p) /\ UNCHANGED <<eligible, absences>>

-----------------------------------------------------------------------------
(* The commands that begin or end a visit take no second fence:            *)
(* CancelInspection by a supervisor, CheckIn and FailVisit (or the end of  *)
(* a report) by the officer.                                               *)

EndVisit(p, v, status, state) ==
  /\ Starts(p) /\ VisitFree(p, v)
  /\ visits' = [visits EXCEPT ![v].status = status]
  /\ assignments' = RetireCurrent(v, state)
  /\ End(p) /\ UNCHANGED <<eligible, absences>>

CancelInspection(p, v) ==
  p \in Supervisors /\ visits[v].status \in Unstarted /\ EndVisit(p, v, "CANCELLED", "REVOKED")

CheckIn(p, v) ==
  /\ Starts(p) /\ VisitFree(p, v) /\ AssignedOfficerOnly(p, v) /\ visits[v].status = "SCHEDULED"
  /\ visits' = [visits EXCEPT ![v].status = "IN_PROGRESS"]
  /\ UNCHANGED <<eligible, assignments, absences, working>>

FailVisit(p, v) == AssignedOfficerOnly(p, v) /\ EndVisit(p, v, "FAILED", "FULFILLED")

-----------------------------------------------------------------------------
(* RecordAvailability, by the officer or a supervisor. Bookings inside the *)
(* interval are read under the officer's fence, and reported.              *)

FindAffected(p, o, i) ==
  /\ Starts(p) /\ FenceFree(p, o)
  /\ p = o \/ (p \in Supervisors /\ o \in eligible)
  /\ working' = [working EXCEPT ![p] = [step |-> "recording", visit |-> "none", officer |-> o, at |-> i,
                                       seen |-> OverlappingBookings(o, i, "none")]]
  /\ UNCHANGED <<eligible, visits, assignments, absences>>

RecordAvailability(p) ==
  LET t == working[p] IN
  /\ t.step = "recording" /\ Len(absences) < MaxAbsences
  /\ absences' = Append(absences, [officer |-> t.officer, at |-> t.at, affected |-> t.seen])
  /\ End(p) /\ UNCHANGED <<eligible, visits, assignments>>

\* A binding ends or the account is disabled, under the fence of its subject.
LoseEligibility(o) ==
  /\ o \in eligible /\ \A q \in People : ~HoldsFence(q, o)
  /\ eligible' = eligible \ {o}
  /\ UNCHANGED <<visits, assignments, absences, working>>

Next ==
  \/ \E p \in People : RollBack(p) \/ CheckOfficer(p) \/ Book(p) \/ RecordAvailability(p) \/ LoseEligibility(p)
  \/ \E p \in Supervisors, v \in Attempts, o \in People :
       \/ \E i \in Intervals : ScheduleInspection(p, v, o, i)
       \/ ReassignInspection(p, v, o)
  \/ \E p, o \in People, i \in Intervals : FindAffected(p, o, i)
  \/ \E p \in People, v \in Attempts : CancelInspection(p, v) \/ CheckIn(p, v) \/ FailVisit(p, v)

Spec == Init /\ [][Next]_bookingVars

-----------------------------------------------------------------------------
TypeOK ==
  /\ \A v \in Attempts : visits[v].status \in Unstarted \cup {"IN_PROGRESS", "CANCELLED", "FAILED"}
  /\ \A n \in DOMAIN assignments :
       assignments[n].at \in Times /\ assignments[n].state \in {"ACTIVE", "SUPERSEDED", "REVOKED", "FULFILLED"}

\* An officer is never at two visits at one instant, and a visit that waits to
\* take place is booked once, for the time its applicant was told.
NoDoubleBooking ==
  /\ \A m, n \in DOMAIN assignments :
       LET x == assignments[m]  y == assignments[n] IN
       m # n /\ x.state = "ACTIVE" /\ y.state = "ACTIVE" /\ x.officer = y.officer =>
         x.visit # y.visit /\ Instants(x.at) \cap Instants(y.at) = {}
  /\ \A v \in Attempts : visits[v].status \in {"SCHEDULED", "IN_PROGRESS"} =>
       \E n \in Current(v) : Current(v) = {n} /\ assignments[n].at = visits[v].at

\* Whatever books and records race each other, a booking in an interval the
\* officer is not available is one the record has reported.
AbsenceIsKnown ==
  \A n \in DOMAIN assignments, k \in DOMAIN absences :
    assignments[n].state = "ACTIVE" /\ assignments[n].officer = absences[k].officer
      /\ Instants(assignments[n].at) \cap Instants(absences[k].at) # {} => n \in absences[k].affected
=================================================================================
