------------------------- MODULE CaseLifecycleProofs -------------------------
(***************************************************************************)
(* Theorems about one application's life, for any checklist, policy, set   *)
(* of hold scopes, number of rounds, visits, holds and commands in flight. *)
(*                                                                         *)
(* The argument has three threads that only the status ties together: the  *)
(* visits (a case gains or loses its open attempt only with the status),   *)
(* the clocks (kinds never change, the last one opened is the stage's, a   *)
(* paused one belongs to the hold in force), and the notices with their    *)
(* findings (a notice closes only when no response to it is in flight, a   *)
(* verification in flight holds an unresolved finding and the items that   *)
(* await its verdict, and the review of an item in flight was issued from  *)
(* a round that a later one may have superseded since).                    *)
(***************************************************************************)
EXTENDS CaseLifecycle, TLAPS, FiniteSetTheorems

-----------------------------------------------------------------------------
(* Sequences of rows. *)

\* Rewriting every row of a table keeps it a table of the same length.
LEMMA SeqRebuilt ==
  ASSUME NEW S, NEW T, NEW s \in Seq(S), NEW t, t = [i \in DOMAIN s |-> t[i]],
         \A i \in DOMAIN s : t[i] \in T
  PROVE  t \in Seq(T) /\ Len(t) = Len(s) /\ DOMAIN t = DOMAIN s
<1>1. DOMAIN s = 1..Len(s) /\ Len(s) \in Nat
  OBVIOUS
<1>2. t \in [1..Len(s) -> T]
  BY <1>1
<1>3. QED
  BY <1>1, <1>2

\* Writing one row does.
LEMMA SeqWritten ==
  ASSUME NEW S, NEW s \in Seq(S), NEW i \in DOMAIN s, NEW x \in S
  PROVE  /\ [s EXCEPT ![i] = x] \in Seq(S)
         /\ Len([s EXCEPT ![i] = x]) = Len(s)
         /\ \A k \in DOMAIN s : [s EXCEPT ![i] = x][k] = IF k = i THEN x ELSE s[k]
<1>1. DOMAIN s = 1..Len(s) /\ Len(s) \in Nat
  OBVIOUS
<1>2. [s EXCEPT ![i] = x] \in [1..Len(s) -> S]
  BY <1>1
<1>3. QED
  BY <1>1, <1>2

-----------------------------------------------------------------------------
(* Visits. *)

VisitRow == [status: Visit!AttemptStatus, assignments: Seq(Visit!AssignmentState)]

\* The last assignment of a visit is active exactly while it is booked or under way.
Follows(a) ==
  /\ Visit!Assigned(a) <=> a.status \in {"SCHEDULED", "IN_PROGRESS"}
  /\ \A k \in DOMAIN a.assignments : a.assignments[k] = "ACTIVE" => k = Len(a.assignments)

GoodVisit(a) == a \in VisitRow /\ Follows(a)

\* Retiring the current assignment leaves none active.
LEMMA RetireGood ==
  ASSUME NEW a, GoodVisit(a), NEW state \in {"SUPERSEDED", "REVOKED", "FULFILLED"}
  PROVE  /\ Visit!RetireCurrent(a, state) \in Seq(Visit!AssignmentState)
         /\ Len(Visit!RetireCurrent(a, state)) = Len(a.assignments)
         /\ \A k \in 1..Len(a.assignments) : Visit!RetireCurrent(a, state)[k] # "ACTIVE"
<1> DEFINE s == a.assignments
           n == Len(s)
<1>1. s \in Seq(Visit!AssignmentState) /\ n \in Nat /\ DOMAIN s = 1..n
  BY DEF GoodVisit, VisitRow
<1>2. state \in Visit!AssignmentState /\ state # "ACTIVE"
  BY DEF Visit!AssignmentState
<1>3. CASE Visit!Assigned(a)
  <2>1. n \in DOMAIN s
    BY <1>1, <1>3 DEF Visit!Assigned
  <2>2. Visit!RetireCurrent(a, state) = [s EXCEPT ![n] = state]
    BY <1>3 DEF Visit!RetireCurrent
  <2>3. \A k \in 1..n : k # n => s[k] # "ACTIVE"
    BY <1>1 DEF GoodVisit, Follows
  <2>4. QED
    BY <1>1, <1>2, <2>1, <2>2, <2>3, SeqWritten
<1>4. CASE ~Visit!Assigned(a)
  <2>1. Visit!RetireCurrent(a, state) = s
    BY <1>4 DEF Visit!RetireCurrent
  <2>2. \A k \in 1..n : s[k] # "ACTIVE"
    BY <1>1, <1>4 DEF Visit!Assigned, GoodVisit, Follows
  <2>3. QED
    BY <1>1, <2>1, <2>2
<1>5. QED
  BY <1>3, <1>4

\* A visit that ends, is booked, is begun or is asked for is a good one.
LEMMA EndedGood ==
  ASSUME NEW a, GoodVisit(a), NEW status1 \in {"CANCELLED", "FAILED", "COMPLETED"},
         NEW state \in {"REVOKED", "FULFILLED"}
  PROVE  GoodVisit(Visit!Ended(a, status1, state))
         /\ Visit!Ended(a, status1, state).status = status1
<1> DEFINE e == Visit!Ended(a, status1, state)
           s == Visit!RetireCurrent(a, state)
<1>1. /\ s \in Seq(Visit!AssignmentState) /\ Len(s) = Len(a.assignments)
      /\ \A k \in 1..Len(a.assignments) : s[k] # "ACTIVE"
  BY RetireGood
<1>2. e = [status |-> status1, assignments |-> s]
  BY DEF Visit!Ended
<1>3. e \in VisitRow /\ e.status = status1 /\ e.assignments = s
  BY <1>1, <1>2 DEF VisitRow, Visit!AttemptStatus
<1>4. \A k \in DOMAIN s : s[k] # "ACTIVE"
  BY <1>1
<1>5. ~Visit!Assigned(e)
  BY <1>1, <1>3, <1>4 DEF Visit!Assigned
<1>6. status1 \notin {"SCHEDULED", "IN_PROGRESS"}
  OBVIOUS
<1>7. QED
  BY <1>3, <1>4, <1>5, <1>6 DEF GoodVisit, Follows

\* A visit that is booked keeps the shape of a visit row.
LEMMA BookedGood ==
  ASSUME NEW a, GoodVisit(a)
  PROVE  GoodVisit(Visit!Booked(a)) /\ Visit!Booked(a).status = "SCHEDULED"
<1> DEFINE s == Visit!RetireCurrent(a, "SUPERSEDED")
           b == Visit!Booked(a)
<1>1. /\ s \in Seq(Visit!AssignmentState)
      /\ \A k \in 1..Len(s) : s[k] # "ACTIVE"
  BY RetireGood
<1>2. b = [status |-> "SCHEDULED", assignments |-> Append(s, "ACTIVE")]
  BY DEF Visit!Booked
<1> HIDE DEF s, b
<1>3. /\ Append(s, "ACTIVE") \in Seq(Visit!AssignmentState)
      /\ Len(Append(s, "ACTIVE")) = Len(s) + 1 /\ Len(s) \in Nat
      /\ Append(s, "ACTIVE")[Len(s) + 1] = "ACTIVE"
      /\ \A k \in 1..Len(s) : Append(s, "ACTIVE")[k] # "ACTIVE"
  BY <1>1 DEF Visit!AssignmentState
<1>4. b \in VisitRow /\ b.status = "SCHEDULED" /\ b.assignments = Append(s, "ACTIVE")
  BY <1>2, <1>3 DEF VisitRow, Visit!AttemptStatus, Visit!OpenStatus, Visit!Unstarted
<1>5. Visit!Assigned(b)
  BY <1>3, <1>4 DEF Visit!Assigned
<1>6. \A k \in DOMAIN b.assignments : b.assignments[k] = "ACTIVE" => k = Len(b.assignments)
  BY <1>3, <1>4
<1>7. QED
  BY <1>4, <1>5, <1>6 DEF GoodVisit, Follows, b

\* A visit that an officer began keeps that shape.
LEMMA BegunGood ==
  ASSUME NEW a, GoodVisit(a), Visit!Assigned(a)
  PROVE  GoodVisit([a EXCEPT !.status = "IN_PROGRESS"])
         /\ [a EXCEPT !.status = "IN_PROGRESS"].status = "IN_PROGRESS"
<1> DEFINE b == [a EXCEPT !.status = "IN_PROGRESS"]
<1>1. b \in VisitRow /\ b.status = "IN_PROGRESS" /\ b.assignments = a.assignments
  BY DEF GoodVisit, VisitRow, Visit!AttemptStatus, Visit!OpenStatus, Visit!Unstarted
<1>2. QED
  BY <1>1 DEF GoodVisit, Follows, Visit!Assigned

\* The row REQUIRE_INSPECTION inserts has that shape.
LEMMA RequestedGood ==
  GoodVisit([status |-> "REQUESTED", assignments |-> <<>>])
BY DEF GoodVisit, VisitRow, Follows, Visit!Assigned, Visit!AttemptStatus, Visit!OpenStatus, Visit!Unstarted

\* A table of good visits, and the open ones among them.
GoodVisits(s) == s \in Seq(VisitRow) /\ \A i \in DOMAIN s : GoodVisit(s[i])
OpenOf(s) == {i \in DOMAIN s : s[i].status \in Visit!OpenStatus}

VisitsGood == Visit!TypeOK /\ Visit!AssignmentFollowsAttempt

\* The invariant of the visits, said of each row.
LEMMA VisitsAsRows ==
  /\ VisitsGood <=> GoodVisits(attempts) /\ Len(attempts) <= MaxVisits
  /\ Visit!OpenAttempts = OpenOf(attempts)
<1>1. VisitsGood <=> GoodVisits(attempts) /\ Len(attempts) <= MaxVisits
  <2>1. VisitsGood <=> /\ attempts \in Seq(VisitRow) /\ Len(attempts) <= MaxVisits
                       /\ \A i \in DOMAIN attempts : Follows(attempts[i])
    BY DEF VisitsGood, Follows, Visit!TypeOK, Visit!AssignmentFollowsAttempt, VisitRow, Visit!Visits
  <2>2. attempts \in Seq(VisitRow) => \A i \in DOMAIN attempts : attempts[i] \in VisitRow
    OBVIOUS
  <2>3. QED
    BY <2>1, <2>2 DEF GoodVisits, GoodVisit
<1>2. QED
  BY <1>1 DEF Visit!OpenAttempts, Visit!InStatus, Visit!Visits, OpenOf

\* The same of the next state, to conclude it from the rows.
LEMMA VisitsAsRowsNext ==
  /\ VisitsGood' <=> GoodVisits(attempts') /\ Len(attempts') <= MaxVisits
  /\ Visit!OpenAttempts' = OpenOf(attempts')
<1>1. /\ VisitsGood <=> GoodVisits(attempts) /\ Len(attempts) <= MaxVisits
      /\ Visit!OpenAttempts = OpenOf(attempts)
  BY VisitsAsRows
<1>2. (/\ VisitsGood <=> GoodVisits(attempts) /\ Len(attempts) <= MaxVisits
       /\ Visit!OpenAttempts = OpenOf(attempts))'
  BY <1>1, PTL
<1>3. QED
  BY <1>2 DEF GoodVisits, GoodVisit, Follows, OpenOf

\* Writing one row that has the shape keeps the others.
LEMMA WriteVisit ==
  ASSUME NEW s, GoodVisits(s), NEW i \in DOMAIN s, NEW x, GoodVisit(x)
  PROVE  /\ GoodVisits([s EXCEPT ![i] = x]) /\ Len([s EXCEPT ![i] = x]) = Len(s)
         /\ OpenOf([s EXCEPT ![i] = x]) =
              IF x.status \in Visit!OpenStatus THEN OpenOf(s) \cup {i} ELSE OpenOf(s) \ {i}
<1> DEFINE t == [s EXCEPT ![i] = x]
<1>1. /\ t \in Seq(VisitRow) /\ Len(t) = Len(s)
      /\ \A k \in DOMAIN s : t[k] = IF k = i THEN x ELSE s[k]
  BY SeqWritten DEF GoodVisits, GoodVisit
<1>2. DOMAIN t = DOMAIN s
  OBVIOUS
<1>3. GoodVisits(t)
  BY <1>1, <1>2 DEF GoodVisits
<1>4. QED
  BY <1>1, <1>2, <1>3 DEF OpenOf

\* Appending a request keeps the rows there are.
LEMMA AskForVisit ==
  ASSUME NEW s, GoodVisits(s)
  PROVE  /\ GoodVisits(Visit!WithNewAttempt(s)) /\ Len(Visit!WithNewAttempt(s)) = Len(s) + 1
         /\ OpenOf(Visit!WithNewAttempt(s)) = OpenOf(s) \cup {Len(s) + 1}
<1> DEFINE x == [status |-> "REQUESTED", assignments |-> <<>>]
           t == Append(s, x)
<1>1. GoodVisit(x) /\ x \in VisitRow
  BY RequestedGood DEF GoodVisit
<1>2. x.status \in Visit!OpenStatus
  BY DEF Visit!OpenStatus, Visit!Unstarted
<1> HIDE DEF x
<1>3. /\ s \in Seq(VisitRow) /\ t \in Seq(VisitRow) /\ Len(t) = Len(s) + 1 /\ Len(s) \in Nat
      /\ \A k \in 1..Len(s) : t[k] = s[k]
      /\ t[Len(s) + 1] = x /\ DOMAIN s = 1..Len(s) /\ DOMAIN t = 1..(Len(s) + 1)
  BY <1>1 DEF GoodVisits
<1>4. GoodVisits(t)
  BY <1>1, <1>3 DEF GoodVisits
<1>5. OpenOf(t) = OpenOf(s) \cup {Len(s) + 1}
  <2>1. \A k \in 1..Len(s) : k \in OpenOf(t) <=> k \in OpenOf(s)
    BY <1>3 DEF OpenOf
  <2>2. Len(s) + 1 \in OpenOf(t)
    BY <1>2, <1>3 DEF OpenOf
  <2>3. OpenOf(t) \subseteq 1..(Len(s) + 1) /\ OpenOf(s) \subseteq 1..Len(s)
    BY <1>3 DEF OpenOf
  <2>4. \A k \in 1..(Len(s) + 1) : k \in 1..Len(s) \/ k = Len(s) + 1
    BY <1>3
  <2>5. QED
    BY <2>1, <2>2, <2>3, <2>4
<1>6. Visit!WithNewAttempt(s) = t
  BY DEF Visit!WithNewAttempt, x
<1>7. QED
  BY <1>3, <1>4, <1>5, <1>6

\* A further visit is asked for.
LEMMA RequestKeeps ==
  ASSUME VisitsGood, Visit!Request
  PROVE  VisitsGood' /\ \E k : Visit!OpenAttempts' = Visit!OpenAttempts \cup {k}
<1>1. GoodVisits(attempts) /\ Len(attempts) < MaxVisits
  BY VisitsAsRows DEF Visit!Request, Visit!CanRequest
<1>2. attempts' = Visit!WithNewAttempt(attempts)
  BY DEF Visit!Request
<1>3. GoodVisits(attempts') /\ Len(attempts') <= MaxVisits
  <2>1. Len(attempts) \in Nat
    BY <1>1 DEF GoodVisits
  <2>2. QED
    BY <1>1, <1>2, <2>1, AskForVisit, CaseAssumption DEF CaseAssumption
<1>4. QED
  BY <1>1, <1>2, <1>3, AskForVisit, VisitsAsRows, VisitsAsRowsNext

\* The officer's steps keep the number of open visits: what is cancelled or fails
\* is followed up.
LEMMA VisitStepKeeps ==
  ASSUME VisitsGood, NEW i \in Visit!Visits, Visit!Step(i)
  PROVE  /\ VisitsGood'
         /\ \/ Visit!OpenAttempts' = Visit!OpenAttempts
            \/ /\ i \in Visit!OpenAttempts
               /\ \E k : Visit!OpenAttempts' = (Visit!OpenAttempts \ {i}) \cup {k}
<1> DEFINE a == attempts[i]
<1>1. GoodVisits(attempts) /\ i \in DOMAIN attempts /\ GoodVisit(a) /\ Len(attempts) <= MaxVisits
  BY VisitsAsRows DEF GoodVisits, Visit!Visits
<1>2. "CANCELLED" \notin Visit!OpenStatus /\ "FAILED" \notin Visit!OpenStatus
      /\ "SCHEDULED" \in Visit!OpenStatus /\ "IN_PROGRESS" \in Visit!OpenStatus
  BY DEF Visit!OpenStatus, Visit!Unstarted
<1>3. i \in OpenOf(attempts) <=> a.status \in Visit!OpenStatus
  BY <1>1 DEF OpenOf
<1>4. ASSUME NEW x, GoodVisit(x), x.status \in Visit!OpenStatus, a.status \in Visit!OpenStatus,
             attempts' = [attempts EXCEPT ![i] = x]
      PROVE  VisitsGood' /\ Visit!OpenAttempts' = Visit!OpenAttempts
  <2>1. GoodVisits(attempts') /\ Len(attempts') = Len(attempts)
        /\ OpenOf(attempts') = OpenOf(attempts) \cup {i}
    BY <1>1, <1>4, WriteVisit
  <2>2. QED
    BY <1>1, <1>3, <1>4, <2>1, VisitsAsRows, VisitsAsRowsNext
<1>5. ASSUME NEW x, GoodVisit(x), x.status \notin Visit!OpenStatus, a.status \in Visit!OpenStatus,
             Visit!CanRequest, attempts' = Visit!WithNewAttempt([attempts EXCEPT ![i] = x])
      PROVE  /\ VisitsGood' /\ i \in Visit!OpenAttempts
             /\ \E k : Visit!OpenAttempts' = (Visit!OpenAttempts \ {i}) \cup {k}
  <2> DEFINE s == [attempts EXCEPT ![i] = x]
  <2>1. GoodVisits(s) /\ Len(s) = Len(attempts) /\ OpenOf(s) = OpenOf(attempts) \ {i}
    BY <1>1, <1>5, WriteVisit
  <2> HIDE DEF s
  <2>2. /\ GoodVisits(Visit!WithNewAttempt(s)) /\ Len(Visit!WithNewAttempt(s)) = Len(s) + 1
        /\ OpenOf(Visit!WithNewAttempt(s)) = OpenOf(s) \cup {Len(s) + 1}
    BY <2>1, AskForVisit
  <2>3. attempts' = Visit!WithNewAttempt(s)
    BY <1>5 DEF s
  <2>4. Len(attempts') <= MaxVisits
    <3>1. Len(attempts) < MaxVisits /\ Len(attempts) \in Nat
      BY <1>1, <1>5 DEF Visit!CanRequest, GoodVisits
    <3>2. QED
      BY <2>1, <2>2, <2>3, <3>1, CaseAssumption DEF CaseAssumption
  <2>5. QED
    BY <1>3, <1>5, <2>1, <2>2, <2>3, <2>4, VisitsAsRows, VisitsAsRowsNext
<1>6. CASE Visit!Schedule(i) \/ Visit!Reassign(i)
  <2>1. attempts' = [attempts EXCEPT ![i] = Visit!Booked(a)] /\ a.status \in Visit!OpenStatus
    BY <1>6 DEF Visit!Schedule, Visit!Reassign, Visit!OpenStatus
  <2>2. QED
    BY <1>1, <1>2, <1>4, <2>1, BookedGood
<1>7. CASE Visit!Cancel(i)
  <2>1. /\ attempts' = Visit!WithNewAttempt([attempts EXCEPT ![i] = Visit!Ended(a, "CANCELLED", "REVOKED")])
        /\ Visit!CanRequest /\ a.status \in Visit!OpenStatus
    BY <1>7 DEF Visit!Cancel, Visit!OpenStatus
  <2>2. GoodVisit(Visit!Ended(a, "CANCELLED", "REVOKED"))
        /\ Visit!Ended(a, "CANCELLED", "REVOKED").status = "CANCELLED"
    BY <1>1, EndedGood
  <2>3. QED
    BY <1>2, <1>5, <2>1, <2>2
<1>8. CASE Visit!CheckIn(i)
  <2>1. attempts' = [attempts EXCEPT ![i] = [a EXCEPT !.status = "IN_PROGRESS"]]
        /\ Visit!Assigned(a) /\ a.status \in Visit!OpenStatus
    BY <1>2, <1>8 DEF Visit!CheckIn
  <2>2. QED
    BY <1>1, <1>2, <1>4, <2>1, BegunGood
<1>9. CASE Visit!FailVisit(i)
  <2>1. /\ attempts' = Visit!WithNewAttempt([attempts EXCEPT ![i] = Visit!Ended(a, "FAILED", "FULFILLED")])
        /\ Visit!CanRequest /\ a.status \in Visit!OpenStatus
    BY <1>2, <1>9 DEF Visit!FailVisit
  <2>2. GoodVisit(Visit!Ended(a, "FAILED", "FULFILLED"))
        /\ Visit!Ended(a, "FAILED", "FULFILLED").status = "FAILED"
    BY <1>1, EndedGood
  <2>3. QED
    BY <1>2, <1>5, <2>1, <2>2
<1>10. QED
  BY <1>6, <1>7, <1>8, <1>9 DEF Visit!Step

\* The report ends the visit under way.
LEMMA CompleteKeeps ==
  ASSUME VisitsGood, NEW i \in Visit!Visits, Visit!Complete(i)
  PROVE  /\ VisitsGood' /\ i \in Visit!OpenAttempts
         /\ Visit!OpenAttempts' = Visit!OpenAttempts \ {i}
<1> DEFINE a == attempts[i]
           x == Visit!Ended(a, "COMPLETED", "FULFILLED")
<1>1. GoodVisits(attempts) /\ i \in DOMAIN attempts /\ GoodVisit(a) /\ Len(attempts) <= MaxVisits
  BY VisitsAsRows DEF GoodVisits, Visit!Visits
<1>2. "COMPLETED" \notin Visit!OpenStatus /\ "IN_PROGRESS" \in Visit!OpenStatus
  BY DEF Visit!OpenStatus, Visit!Unstarted
<1>3. GoodVisit(x) /\ x.status = "COMPLETED"
  BY <1>1, EndedGood
<1>4. attempts' = [attempts EXCEPT ![i] = x] /\ a.status = "IN_PROGRESS"
  BY DEF Visit!Complete
<1> HIDE DEF x
<1>5. /\ GoodVisits(attempts') /\ Len(attempts') = Len(attempts)
      /\ OpenOf(attempts') = OpenOf(attempts) \ {i}
  BY <1>1, <1>2, <1>3, <1>4, WriteVisit, ZenonT(30)
<1>6. i \in OpenOf(attempts)
  BY <1>1, <1>2, <1>4 DEF OpenOf
<1>7. QED
  BY <1>1, <1>5, <1>6, VisitsAsRows, VisitsAsRowsNext

\* The withdrawal cancels visits and begins none.
LEMMA CancelUnstartedKeeps ==
  ASSUME VisitsGood, Visit!CancelUnstarted
  PROVE  VisitsGood' /\ Visit!OpenAttempts' \subseteq Visit!OpenAttempts
<1>1. GoodVisits(attempts) /\ Len(attempts) <= MaxVisits
  BY VisitsAsRows
<1>2. ASSUME NEW i \in DOMAIN attempts
      PROVE  GoodVisit(attempts'[i]) /\ attempts'[i] \in VisitRow
             /\ (attempts'[i].status \in Visit!OpenStatus => attempts[i].status \in Visit!OpenStatus)
  <2>1. attempts'[i] = IF attempts[i].status \in Visit!Unstarted
                       THEN Visit!Ended(attempts[i], "CANCELLED", "REVOKED") ELSE attempts[i]
    BY DEF Visit!CancelUnstarted, Visit!Visits
  <2>2. GoodVisit(attempts[i])
    BY <1>1 DEF GoodVisits
  <2>3. GoodVisit(Visit!Ended(attempts[i], "CANCELLED", "REVOKED"))
        /\ Visit!Ended(attempts[i], "CANCELLED", "REVOKED").status = "CANCELLED"
    BY <2>2, EndedGood
  <2>4. "CANCELLED" \notin Visit!OpenStatus
    BY DEF Visit!OpenStatus, Visit!Unstarted
  <2>5. QED
    BY <2>1, <2>2, <2>3, <2>4 DEF GoodVisit
<1>3. attempts' \in Seq(VisitRow) /\ Len(attempts') = Len(attempts) /\ DOMAIN attempts' = DOMAIN attempts
  <2>1. attempts \in Seq(VisitRow)
    BY <1>1 DEF GoodVisits
  <2>2. attempts' = [i \in DOMAIN attempts |-> attempts'[i]]
    BY DEF Visit!CancelUnstarted, Visit!Visits
  <2>3. QED
    BY <1>2, <2>1, <2>2, SeqRebuilt
<1>4. GoodVisits(attempts') /\ Len(attempts') <= MaxVisits
  BY <1>1, <1>2, <1>3 DEF GoodVisits
<1>5. OpenOf(attempts') \subseteq OpenOf(attempts)
  BY <1>2, <1>3 DEF OpenOf
<1>6. QED
  BY <1>4, <1>5, VisitsAsRows, VisitsAsRowsNext

-----------------------------------------------------------------------------
(* The status and its visits. *)

\* What a transition of the table does to the status.
Turns(command, from, to) == Takes(command) => status \in from /\ status' = to

\* What the table of cases/domain/states.py allows, in the terms of the visits.
LEMMA TransitionTable ==
  /\ Turns("Submit", {"DRAFT"}, "SUBMITTED")
  /\ Turns("StartScrutiny", {"SUBMITTED"}, "SCRUTINY")
  /\ Turns("RequestInformation", {"SCRUTINY"}, "INFO_REQUIRED")
  /\ Turns("AcceptInformation", {"INFO_REQUIRED"}, "SCRUTINY")
  /\ Turns("RequireInspection", {"SCRUTINY"}, "INSPECTION_PENDING")
  /\ Turns("AcceptReport", {"INSPECTION_PENDING"}, "REVIEW_PENDING")
  /\ Turns("IssueDeficiencies", {"REVIEW_PENDING"}, "COMPLIANCE_PENDING")
  /\ Turns("CompleteCorrections", {"COMPLIANCE_PENDING"}, "REVIEW_PENDING")
  /\ Turns("RequireReinspection", {"COMPLIANCE_PENDING"}, "INSPECTION_PENDING")
  /\ Turns("Approve", {"REVIEW_PENDING"}, "APPROVED_PENDING_ISSUE")
  /\ Turns("PublishInstrument", {"APPROVED_PENDING_ISSUE"}, "COMPLETED")
  /\ Turns("Reject", {"REVIEW_PENDING"}, "REJECTED")
  /\ Turns("Withdraw", {"DRAFT", "SUBMITTED", "SCRUTINY", "INFO_REQUIRED",
                        "INSPECTION_PENDING", "COMPLIANCE_PENDING"}, "WITHDRAWN")
  /\ Turns("ReturnForClarification", {"REVIEW_PENDING"}, "INSPECTION_PENDING")
BY DEF Turns, Takes, Transitions

\* Commands that leave status and visits alone.
LEMMA WriteFrame ==
  ASSUME NEW t, Write(t)
  PROVE  UNCHANGED <<status, routing, report, attempts>>
BY DEF Write

\* A case has its one open visit in the stage that waits for it, and a withdrawn
\* case may keep the one that was under way.
OneVisit ==
  /\ status = "INSPECTION_PENDING" => \E i : Visit!OpenAttempts = {i}
  /\ status = "WITHDRAWN" => \E i : Visit!OpenAttempts \subseteq {i}
  /\ status \notin {"INSPECTION_PENDING", "WITHDRAWN"} => Visit!OpenAttempts = {}

\* The visits move only with the status or with the officer.
LEMMA VisitsFollow ==
  ASSUME VisitsGood, OneVisit, [Next]_vars
  PROVE  VisitsGood' /\ OneVisit'
<1>1. ASSUME UNCHANGED attempts,
             \/ UNCHANGED status
             \/ {status, status'} \cap {"INSPECTION_PENDING", "WITHDRAWN"} = {}
      PROVE  VisitsGood' /\ OneVisit'
  <2>1. Visit!OpenAttempts' = Visit!OpenAttempts
    BY <1>1, VisitsAsRows, VisitsAsRowsNext
  <2>2. VisitsGood'
    BY <1>1, VisitsAsRows, VisitsAsRowsNext
  <2>3. QED
    BY <1>1, <2>1, <2>2 DEF OneVisit
<1>2. ASSUME Visit!Request, status \notin {"INSPECTION_PENDING", "WITHDRAWN"},
             status' = "INSPECTION_PENDING"
      PROVE  VisitsGood' /\ OneVisit'
  <2>1. VisitsGood' /\ \E k : Visit!OpenAttempts' = Visit!OpenAttempts \cup {k}
    BY <1>2, RequestKeeps
  <2>2. Visit!OpenAttempts = {}
    BY <1>2 DEF OneVisit
  <2>3. \E k : Visit!OpenAttempts' = {k}
    BY <2>1, <2>2
  <2>4. QED
    BY <1>2, <2>1, <2>3 DEF OneVisit
<1> USE TransitionTable DEF Turns, Moves
<1>3. CASE Submit
  BY <1>1, <1>3 DEF Submit
<1>4. CASE StartScrutiny
  BY <1>1, <1>4 DEF StartScrutiny
<1>5. CASE ResolveRoutingException \/ CreateHold \/ Execute \/ Begin \/ Commit \/ Abort
  BY <1>1, <1>5, WriteFrame DEF ResolveRoutingException, CreateHold, Execute, Begin, Commit, Abort
<1>6. CASE WithdrawApplication
  <2>1. VisitsGood' /\ Visit!OpenAttempts' \subseteq Visit!OpenAttempts
    BY <1>6, CancelUnstartedKeeps DEF WithdrawApplication
  <2>2. status' = "WITHDRAWN"
    BY <1>6 DEF WithdrawApplication
  <2>3. \E i : Visit!OpenAttempts \subseteq {i}
    BY DEF OneVisit
  <2>4. QED
    BY <2>1, <2>2, <2>3 DEF OneVisit
<1>7. CASE RequireInspection
  BY <1>2, <1>7 DEF RequireInspection
<1>8. CASE InspectionStep
  <2>1. PICK i \in Visit!Visits : Visit!Step(i)
    BY <1>8 DEF InspectionStep
  <2>2. UNCHANGED status
    BY <1>8 DEF InspectionStep
  <2>3. VisitsGood' /\ \/ Visit!OpenAttempts' = Visit!OpenAttempts
                       \/ /\ i \in Visit!OpenAttempts
                          /\ \E k : Visit!OpenAttempts' = (Visit!OpenAttempts \ {i}) \cup {k}
    BY <2>1, VisitStepKeeps
  <2>4. CASE Visit!OpenAttempts' = Visit!OpenAttempts
    BY <2>2, <2>3, <2>4 DEF OneVisit
  <2>5. CASE /\ i \in Visit!OpenAttempts
             /\ \E k : Visit!OpenAttempts' = (Visit!OpenAttempts \ {i}) \cup {k}
    <3>1. \E j : Visit!OpenAttempts \subseteq {j}
      BY DEF OneVisit
    <3>2. Visit!OpenAttempts = {i}
      BY <2>5, <3>1
    <3>3. \E k : Visit!OpenAttempts' = {k}
      BY <2>5, <3>2
    <3>4. status \in {"INSPECTION_PENDING", "WITHDRAWN"}
      BY <3>2 DEF OneVisit
    <3>5. QED
      BY <2>2, <2>3, <3>3, <3>4 DEF OneVisit
  <2>6. QED
    BY <2>3, <2>4, <2>5
<1>9. CASE SubmitReport
  <2>1. PICK i \in Visit!Visits : Visit!Complete(i)
    BY <1>9 DEF SubmitReport
  <2>2. /\ VisitsGood' /\ i \in Visit!OpenAttempts
        /\ Visit!OpenAttempts' = Visit!OpenAttempts \ {i}
    BY <2>1, CompleteKeeps
  <2>3. status = "INSPECTION_PENDING" /\ status' = "REVIEW_PENDING"
    BY <1>9 DEF SubmitReport
  <2>4. Visit!OpenAttempts' = {}
    BY <2>2, <2>3 DEF OneVisit
  <2>5. QED
    BY <2>2, <2>3, <2>4 DEF OneVisit
<1>10. CASE ReturnForClarification
  BY <1>2, <1>10 DEF ReturnForClarification
<1>11. CASE RequireReinspection
  BY <1>2, <1>11 DEF RequireReinspection
<1>12. CASE \E type \in {"INFORMATION", "DEFICIENCY"} : PublishNotice(type)
  BY <1>1, <1>12 DEF PublishNotice
<1>13. CASE \E n \in Notices : SupersedeNotice(n) \/ AcceptInformation(n)
  BY <1>1, <1>13 DEF SupersedeNotice, AcceptInformation
<1>14. CASE CompleteCorrections
  BY <1>1, <1>14 DEF CompleteCorrections
<1>15. CASE Approve
  BY <1>1, <1>15 DEF Approve
<1>16. CASE Reject
  BY <1>1, <1>16 DEF Reject
<1>17. CASE Publish
  BY <1>1, <1>17 DEF Publish
<1>18. CASE UNCHANGED vars
  BY <1>1, <1>18 DEF vars
<1>19. QED
  BY <1>3, <1>4, <1>5, <1>6, <1>7, <1>8, <1>9, <1>10, <1>11, <1>12, <1>13, <1>14, <1>15, <1>16,
    <1>17, <1>18 DEF Next

\* Counted, that is one visit exactly, at most, or none.
LEMMA VisitsCounted == OneVisit => WaitingHasOneVisit
<1> SUFFICES ASSUME OneVisit PROVE WaitingHasOneVisit
  OBVIOUS
<1>1. CASE status = "INSPECTION_PENDING"
  <2>1. PICK i : Visit!OpenAttempts = {i}
    BY <1>1 DEF OneVisit
  <2>2. Cardinality(Visit!OpenAttempts) = 1
    BY <2>1, FS_Singleton
  <2>3. QED
    BY <1>1, <2>2 DEF WaitingHasOneVisit
<1>2. CASE status = "WITHDRAWN"
  <2>1. PICK i : Visit!OpenAttempts \subseteq {i}
    BY <1>2 DEF OneVisit
  <2>2. Cardinality({i}) = 1 /\ Cardinality({}) = 0
    BY FS_Singleton, FS_EmptySet
  <2>3. Visit!OpenAttempts = {} \/ Visit!OpenAttempts = {i}
    BY <2>1
  <2>4. Cardinality(Visit!OpenAttempts) <= 1
    BY <2>2, <2>3
  <2>5. QED
    BY <1>2, <2>4 DEF WaitingHasOneVisit
<1>3. CASE status \notin {"INSPECTION_PENDING", "WITHDRAWN"}
  BY <1>3 DEF OneVisit, WaitingHasOneVisit
<1>4. QED
  BY <1>1, <1>2, <1>3

-----------------------------------------------------------------------------
(* The inductive invariant. *)

ClockRow == [kind: Clock!Kinds, state: Clock!OpenState \cup {"SATISFIED", "CANCELLED"}]
FindingRow == [item: Items, state: {"OPEN", "RESPONSE_RECEIVED", "VERIFIED_CLOSED"},
               reinspection: BOOLEAN]
NoticeRow == [type: {"INFORMATION", "DEFICIENCY"},
              state: {"PUBLISHED", "SATISFIED", "SUPERSEDED", "CANCELLED"},
              items: UNION {[S -> ItemState] : S \in SUBSET Nat}, due: Nat]

\* The clocks of the stage run, or stand still for a hold that was made on a
\* submitted application; the clock of a round is one the applicant answers to.
ClocksGood ==
  /\ Clock!TypeOK
  /\ StageHasClock
  /\ ClockStopsOnlyOnHold
  /\ status = "DRAFT" => ~hold.active
  /\ \A n \in Notices : /\ notices[n].due \in DOMAIN obligations
                        /\ obligations[notices[n].due].kind = "APPLICANT_RESPONSE"

\* A release in flight is the only one, and read every clock that stands still.
ReleaseGood ==
  \A t \in inflight : t.command = "ReleaseHold" =>
    /\ hold.active /\ Clock!InState("PAUSED") \subseteq t.paused
    /\ \A u \in inflight : u.command = "ReleaseHold" => u = t

\* Findings and rounds are rows whose items refer to findings that exist.
RowsGood ==
  /\ status \in {Transitions[c].to : c \in DOMAIN Transitions} \cup {"DRAFT"}
  /\ routing \in BOOLEAN
  /\ report \in {"NONE", "ELIGIBLE", "BLOCKED"}
  /\ findings \in Seq(FindingRow)
  /\ notices \in Seq(NoticeRow)
  /\ \A n \in Notices : \A i \in DOMAIN notices[n].items :
       IF notices[n].type = "INFORMATION" THEN i = Completeness ELSE i \in Findings
  /\ \A t \in inflight : /\ t.command \in Racing
                         /\ t.command = "ReviewItem" => t.outcome \in {"ACCEPTED", "RETURNED"}

\* A case that waits for the applicant has its one information round, or rounds
\* about deficiencies.
RoundsGood ==
  /\ status = "INFO_REQUIRED" => \E n : Published("INFORMATION") = {n}
  /\ status # "INFO_REQUIRED" => Published("INFORMATION") = {}
  /\ status = "COMPLIANCE_PENDING" => Published("DEFICIENCY") # {}

\* A response in flight holds its round open; a verification in flight has its
\* finding, still unresolved, to itself.
FlightsGood ==
  \A t \in inflight :
    /\ t.command = "SubmitResponse" => t.notice \in OpenNotices
    /\ t.command = "VerifyFinding" =>
         /\ t.finding \in Unresolved
         /\ \A u \in inflight : u.command = "VerifyFinding" /\ u.finding = t.finding => u = t

\* A review in flight has its item, which waits for it, to itself.  One that
\* reopens a finding read it open in a deficiency round; the finding is open as
\* long as the round is, and mandatory no more once the round is satisfied.
ReviewsGood ==
  \A t \in inflight : t.command = "ReviewItem" =>
    /\ t.notice \in Notices /\ t.item \in DOMAIN notices[t.notice].items
    /\ notices[t.notice].items[t.item] = "RESPONSE_RECEIVED"
    /\ \A u \in inflight :
         u.command = "ReviewItem" /\ u.notice = t.notice /\ u.item = t.item => u = t
    /\ t.reopens =>
         /\ t.item \in Findings
         /\ notices[t.notice].type = "DEFICIENCY"
         /\ notices[t.notice].state = "PUBLISHED" => t.item \in Unresolved
         /\ notices[t.notice].state = "SATISFIED" => findings[t.item].item \notin Mandatory
         /\ notices[t.notice].state = "CANCELLED" => status = "WITHDRAWN"

\* A verification in flight waits for every open item with a response to its finding.
VerdictsCover ==
  \A t \in inflight : t.command = "VerifyFinding" =>
    \A n \in OpenNotices :
      t.finding \in DOMAIN notices[n].items /\ notices[n].items[t.finding] = "RESPONSE_RECEIVED"
        => <<n, t.finding>> \in t.items

\* What the approval rested on and nothing disturbs.
ApprovalGood ==
  status \in Approved => ~routing /\ report = "ELIGIBLE" /\ OpenNotices = {}

-----------------------------------------------------------------------------
(* Clocks. *)

\* Rows rewritten in place or added to: no kind changes.
SameKinds(old, new) ==
  /\ new \in Seq(ClockRow) /\ Len(old) <= Len(new)
  /\ \A o \in DOMAIN old : new[o].kind = old[o].kind

\* And no clock is stopped.
Kept(old, new) ==
  /\ SameKinds(old, new)
  /\ \A o \in DOMAIN new : new[o].state = "PAUSED" => o \in DOMAIN old /\ old[o].state = "PAUSED"

\* Nor is the case target closed.
Carries(old, new) ==
  /\ Kept(old, new)
  /\ \A o \in DOMAIN old :
       old[o].kind = "CASE_TARGET" /\ old[o].state \in Clock!OpenState
         => new[o].state \in Clock!OpenState

Latest(rows, kind) ==
  rows[Len(rows)].kind = kind /\ rows[Len(rows)].state \in Clock!OpenState

\* An obligation that is opened leaves the earlier ones as they are.
LEMMA OpenCarries ==
  ASSUME NEW rows \in Seq(ClockRow), NEW kind \in Clock!Kinds
  PROVE  /\ Carries(rows, Clock!Open(rows, kind)) /\ Latest(Clock!Open(rows, kind), kind)
         /\ Len(Clock!Open(rows, kind)) = Len(rows) + 1
<1> DEFINE x == [kind |-> kind, state |-> "ACTIVE"]
           new == Append(rows, x)
<1>1. x \in ClockRow /\ x.state \in Clock!OpenState /\ x.state # "PAUSED" /\ x.kind = kind
  BY DEF ClockRow, Clock!OpenState
<1>2. Clock!Open(rows, kind) = new
  BY DEF Clock!Open
<1> HIDE DEF x
<1>3. /\ new \in Seq(ClockRow) /\ Len(new) = Len(rows) + 1 /\ Len(rows) \in Nat
      /\ DOMAIN rows = 1..Len(rows) /\ DOMAIN new = 1..(Len(rows) + 1)
      /\ \A o \in 1..Len(rows) : new[o] = rows[o]
      /\ new[Len(rows) + 1] = x
  BY <1>1
<1> HIDE DEF new
<1>4. \A o \in 1..(Len(rows) + 1) : o \in 1..Len(rows) \/ o = Len(rows) + 1
  BY <1>3
<1>5. Carries(rows, new)
  BY <1>1, <1>3, <1>4 DEF Carries, Kept, SameKinds
<1>6. QED
  BY <1>1, <1>2, <1>3, <1>5 DEF Latest

\* Closing obligations changes their state only; but for the case target it carries the clocks over.
LEMMA ClosedCarries ==
  ASSUME NEW rows \in Seq(ClockRow), NEW which, NEW from, NEW state \in {"SATISFIED", "CANCELLED"}
  PROVE  /\ Kept(rows, Clock!Closed(rows, which, from, state))
         /\ Len(Clock!Closed(rows, which, from, state)) = Len(rows)
         /\ (\A o \in DOMAIN rows : o \in which => rows[o].kind # "CASE_TARGET")
              => Carries(rows, Clock!Closed(rows, which, from, state))
<1> DEFINE new == Clock!Closed(rows, which, from, state)
<1>1. new = [o \in DOMAIN rows |-> new[o]]
  BY DEF Clock!Closed
<1>2. ASSUME NEW o \in DOMAIN rows
      PROVE  /\ new[o] \in ClockRow /\ new[o].kind = rows[o].kind
             /\ new[o].state = rows[o].state \/ (new[o].state = state /\ o \in which)
  <2>1. new[o] = [kind |-> rows[o].kind,
                  state |-> IF o \in which /\ rows[o].state \in from THEN state ELSE rows[o].state]
    BY DEF Clock!Closed
  <2>2. rows[o] \in ClockRow
    OBVIOUS
  <2>3. QED
    BY <2>1, <2>2 DEF ClockRow
<1>3. new \in Seq(ClockRow) /\ Len(new) = Len(rows) /\ DOMAIN new = DOMAIN rows
  BY <1>1, <1>2, SeqRebuilt
<1>4. state # "PAUSED"
  OBVIOUS
<1>5. Len(rows) \in Nat
  OBVIOUS
<1> HIDE DEF new
<1>6. Kept(rows, new)
  BY <1>2, <1>3, <1>4, <1>5 DEF Kept, SameKinds
<1>7. (\A o \in DOMAIN rows : o \in which => rows[o].kind # "CASE_TARGET") => Carries(rows, new)
  BY <1>2, <1>6 DEF Carries
<1>8. QED
  BY <1>3, <1>6, <1>7 DEF new

\* Opening and closing in one command carries the clocks over.
LEMMA CarriesOn ==
  ASSUME NEW a \in Seq(ClockRow), NEW b, Carries(a, b), NEW c, Carries(b, c)
  PROVE  Carries(a, c)
<1>1. b \in Seq(ClockRow) /\ c \in Seq(ClockRow)
  BY DEF Carries, Kept, SameKinds
<1>2. /\ DOMAIN a = 1..Len(a) /\ DOMAIN b = 1..Len(b) /\ DOMAIN c = 1..Len(c)
      /\ Len(a) \in Nat /\ Len(b) \in Nat /\ Len(c) \in Nat
  BY <1>1
<1>3. Len(a) <= Len(b) /\ Len(b) <= Len(c)
  BY DEF Carries, Kept, SameKinds
<1>4. DOMAIN a \subseteq DOMAIN b /\ Len(a) <= Len(c)
  BY <1>2, <1>3
<1>5. QED
  BY <1>1, <1>4 DEF Carries, Kept, SameKinds

\* The stage's task is closed and the next one opened.
LEMMA ReplacesCarries ==
  ASSUME obligations \in Seq(ClockRow), NEW done \in Clock!Kinds \ {"CASE_TARGET"},
         NEW next \in Clock!Kinds, Replaces(done, next)
  PROVE  Carries(obligations, obligations') /\ Latest(obligations', next)
         /\ Len(obligations') = Len(obligations) + 1
<1> DEFINE mid == Clock!Satisfy(obligations, done)
<1>1. Carries(obligations, mid) /\ Len(mid) = Len(obligations)
  BY ClosedCarries DEF Clock!Satisfy, Clock!OfKind
<1>2. obligations' = Clock!Open(mid, next)
  BY DEF Replaces, Closes
<1>3. mid \in Seq(ClockRow)
  BY <1>1 DEF Carries, Kept, SameKinds
<1>4. Carries(mid, obligations') /\ Latest(obligations', next) /\ Len(obligations') = Len(mid) + 1
  BY <1>2, <1>3, OpenCarries
<1>5. QED
  BY <1>1, <1>4, CarriesOn

\* Every round keeps its clock, or was just given one.
DuesFollow ==
  \A n \in DOMAIN notices' :
    \/ n \in Notices /\ notices'[n].due = notices[n].due
    \/ /\ notices'[n].due \in DOMAIN obligations'
       /\ obligations'[notices'[n].due].kind = "APPLICANT_RESPONSE"

TargetOpen(rows) ==
  \E o \in DOMAIN rows : rows[o].kind = "CASE_TARGET" /\ rows[o].state \in Clock!OpenState

\* What a command must show of its rows for the invariant of the clocks to hold after it.
LEMMA ClocksKept ==
  ASSUME ClocksGood, SameKinds(obligations, obligations'), DuesFollow,
         hold' \in [active: BOOLEAN, scope: HoldScopes \cup {{}}], holds' \in 0..MaxHolds,
         ClockStopsOnlyOnHold', status' = "DRAFT" => ~hold'.active,
         status' \in DOMAIN TaskOf => Latest(obligations', TaskOf[status']) /\ TargetOpen(obligations')
  PROVE  ClocksGood'
<1>1. /\ obligations \in Seq(ClockRow) /\ obligations' \in Seq(ClockRow)
      /\ DOMAIN obligations \subseteq DOMAIN obligations'
  <2>1. obligations \in Seq(ClockRow) /\ obligations' \in Seq(ClockRow)
    BY DEF ClocksGood, Clock!TypeOK, ClockRow, SameKinds
  <2>2. Len(obligations) <= Len(obligations')
    BY DEF SameKinds
  <2>3. QED
    BY <2>1, <2>2
<1>2. Clock!TypeOK'
  BY <1>1 DEF Clock!TypeOK, ClockRow
<1>3. StageHasClock'
  BY DEF StageHasClock, Latest, TargetOpen, TaskOf, Clock!OpenState
<1>4. \A n \in DOMAIN notices' : /\ notices'[n].due \in DOMAIN obligations'
                                 /\ obligations'[notices'[n].due].kind = "APPLICANT_RESPONSE"
  BY <1>1 DEF ClocksGood, DuesFollow, SameKinds, Notices
<1>5. QED
  BY <1>2, <1>3, <1>4 DEF ClocksGood, Notices

\* A command that neither makes nor releases a hold.
NoHoldChanged == UNCHANGED <<hold, holds>> /\ Kept(obligations, obligations')

\* The same for a command that leaves the hold alone.
LEMMA UnderSameHold ==
  ASSUME ClocksGood, Kept(obligations, obligations'), DuesFollow, UNCHANGED <<hold, holds>>,
         status' # "DRAFT" \/ UNCHANGED status,
         status' \in DOMAIN TaskOf =>
           /\ Latest(obligations', TaskOf[status'])
           /\ \/ status \in DOMAIN TaskOf /\ Carries(obligations, obligations')
              \/ TargetOpen(obligations')
  PROVE  ClocksGood' /\ NoHoldChanged
<1>1. SameKinds(obligations, obligations')
  BY DEF Kept
<1>2. hold' \in [active: BOOLEAN, scope: HoldScopes \cup {{}}] /\ holds' \in 0..MaxHolds
  BY DEF ClocksGood, Clock!TypeOK
<1>3. ClockStopsOnlyOnHold'
  <2>1. (Clock!InState("PAUSED"))' \subseteq Clock!InState("PAUSED")
    BY DEF Clock!InState, Kept
  <2>2. QED
    BY <2>1 DEF ClocksGood, ClockStopsOnlyOnHold, Clock!ClockStopsOnlyOnHold
<1>4. status' = "DRAFT" => ~hold'.active
  BY DEF ClocksGood
<1>5. status' \in DOMAIN TaskOf => Latest(obligations', TaskOf[status']) /\ TargetOpen(obligations')
  <2> SUFFICES ASSUME status \in DOMAIN TaskOf, Carries(obligations, obligations')
               PROVE  TargetOpen(obligations')
    OBVIOUS
  <2>1. PICK o \in DOMAIN obligations :
               obligations[o].kind = "CASE_TARGET" /\ obligations[o].state \in Clock!OpenState
    BY DEF ClocksGood, StageHasClock
  <2>2. obligations'[o].kind = "CASE_TARGET" /\ obligations'[o].state \in Clock!OpenState
    BY <2>1 DEF Carries, Kept, SameKinds
  <2>3. o \in DOMAIN obligations'
    <3>1. obligations \in Seq(ClockRow) /\ obligations' \in Seq(ClockRow)
      BY DEF ClocksGood, Clock!TypeOK, ClockRow, Kept, SameKinds
    <3>2. Len(obligations) <= Len(obligations')
      BY DEF Kept, SameKinds
    <3>3. QED
      BY <3>1, <3>2
  <2>4. QED
    BY <2>2, <2>3 DEF TargetOpen
<1>6. QED
  BY <1>1, <1>2, <1>3, <1>4, <1>5, ClocksKept DEF NoHoldChanged

-----------------------------------------------------------------------------
(* Rounds and their items. *)

\* Rounds rewritten in place: their type, clock and items stay what they were.
SameRounds(new) ==
  /\ new \in Seq(NoticeRow) /\ Len(new) = Len(notices) /\ DOMAIN new = Notices
  /\ \A n \in Notices : /\ new[n].type = notices[n].type /\ new[n].due = notices[n].due
                        /\ DOMAIN new[n].items = DOMAIN notices[n].items

\* Closing notices changes their state only.
LEMMA CloseNoticesKeeps ==
  ASSUME notices \in Seq(NoticeRow), NEW which, NEW state \in {"SATISFIED", "SUPERSEDED", "CANCELLED"}
  PROVE  /\ SameRounds(CloseNotices(which, state))
         /\ \A n \in Notices : CloseNotices(which, state)[n].state =
              IF n \in which THEN state ELSE notices[n].state
         /\ \A n \in Notices : CloseNotices(which, state)[n].items = notices[n].items
<1> DEFINE new == CloseNotices(which, state)
<1>1. new = [n \in DOMAIN notices |-> new[n]]
  BY DEF CloseNotices, Notices
<1>2. ASSUME NEW n \in DOMAIN notices
      PROVE  /\ new[n] \in NoticeRow /\ new[n].items = notices[n].items
             /\ new[n].type = notices[n].type /\ new[n].due = notices[n].due
             /\ new[n].state = IF n \in which THEN state ELSE notices[n].state
  <2>1. new[n] = IF n \in which THEN [notices[n] EXCEPT !.state = state] ELSE notices[n]
    BY DEF CloseNotices, Notices
  <2>2. notices[n] \in NoticeRow
    OBVIOUS
  <2> HIDE DEF new
  <2>3. QED
    BY <2>1, <2>2 DEF NoticeRow
<1>3. new \in Seq(NoticeRow) /\ Len(new) = Len(notices) /\ DOMAIN new = DOMAIN notices
  BY <1>1, <1>2, SeqRebuilt
<1> HIDE DEF new
<1>4. SameRounds(new)
  BY <1>2, <1>3 DEF SameRounds, Notices
<1>5. QED
  BY <1>2, <1>4 DEF new, Notices

\* Setting items of one notice changes that notice's items only.
LEMMA SetItemsKeeps ==
  ASSUME notices \in Seq(NoticeRow), NEW pairs, NEW state \in ItemState
  PROVE  /\ SameRounds(SetItems(pairs, state))
         /\ \A n \in Notices : SetItems(pairs, state)[n].state = notices[n].state
         /\ \A n \in Notices : \A i \in DOMAIN notices[n].items :
              SetItems(pairs, state)[n].items[i] = IF <<n, i>> \in pairs THEN state ELSE notices[n].items[i]
<1> DEFINE new == SetItems(pairs, state)
<1>1. new = [n \in DOMAIN notices |-> new[n]]
  BY DEF SetItems, Notices
<1>2. ASSUME NEW n \in DOMAIN notices
      PROVE  /\ new[n] \in NoticeRow /\ DOMAIN new[n].items = DOMAIN notices[n].items
             /\ new[n].type = notices[n].type /\ new[n].due = notices[n].due
             /\ new[n].state = notices[n].state
             /\ \A i \in DOMAIN notices[n].items :
                  new[n].items[i] = IF <<n, i>> \in pairs THEN state ELSE notices[n].items[i]
  <2> DEFINE items == [i \in DOMAIN notices[n].items |->
                         IF <<n, i>> \in pairs THEN state ELSE notices[n].items[i]]
  <2>1. new[n] = [notices[n] EXCEPT !.items = items]
    BY DEF SetItems, Notices
  <2>2. notices[n] \in NoticeRow
    OBVIOUS
  <2>3. PICK S \in SUBSET Nat : notices[n].items \in [S -> ItemState]
    BY <2>2 DEF NoticeRow
  <2>4. items \in [S -> ItemState] /\ DOMAIN items = S /\ DOMAIN notices[n].items = S
    BY <2>3
  <2>5. items \in UNION {[R -> ItemState] : R \in SUBSET Nat}
    BY <2>4
  <2>6. \A i \in DOMAIN notices[n].items :
          items[i] = IF <<n, i>> \in pairs THEN state ELSE notices[n].items[i]
    OBVIOUS
  <2> HIDE DEF new, items
  <2>7. new[n].items = items
    BY <2>1, <2>2 DEF NoticeRow
  <2>8. QED
    BY <2>1, <2>2, <2>4, <2>5, <2>6, <2>7 DEF NoticeRow
<1>3. new \in Seq(NoticeRow) /\ Len(new) = Len(notices) /\ DOMAIN new = DOMAIN notices
  BY <1>1, <1>2, SeqRebuilt
<1> HIDE DEF new
<1>4. SameRounds(new)
  BY <1>2, <1>3 DEF SameRounds, Notices
<1>5. QED
  BY <1>2, <1>4 DEF new, Notices

\* A further round.
LEMMA PublishKeeps ==
  ASSUME NEW rounds \in Seq(NoticeRow), NEW type \in {"INFORMATION", "DEFICIENCY"},
         NEW items \in SUBSET Nat, NEW due \in Nat
  PROVE  LET new == Append(rounds, Notice(type, items, due))
             n == Len(rounds) + 1
         IN  /\ new \in Seq(NoticeRow) /\ DOMAIN rounds = 1..Len(rounds) /\ DOMAIN new = 1..n
             /\ n \notin DOMAIN rounds /\ \A k \in DOMAIN new : k # n => k \in DOMAIN rounds /\ new[k] = rounds[k]
             /\ \A k \in DOMAIN rounds : k \in DOMAIN new /\ new[k] = rounds[k]
             /\ n \in DOMAIN new /\ new[n].type = type /\ new[n].state = "PUBLISHED" /\ new[n].due = due
             /\ DOMAIN new[n].items = items
<1> DEFINE x == Notice(type, items, due)
           new == Append(rounds, x)
           n == Len(rounds) + 1
<1>1. [i \in items |-> "OPEN"] \in [items -> ItemState]
  BY DEF ItemState
<1>2. [i \in items |-> "OPEN"] \in UNION {[S -> ItemState] : S \in SUBSET Nat}
  BY <1>1
<1>3. /\ x \in NoticeRow /\ x.type = type /\ x.state = "PUBLISHED" /\ x.due = due
      /\ DOMAIN x.items = items
  BY <1>2 DEF Notice, NoticeRow
<1> HIDE DEF x
<1>4. /\ new \in Seq(NoticeRow) /\ Len(new) = n /\ Len(rounds) \in Nat
      /\ DOMAIN rounds = 1..Len(rounds) /\ DOMAIN new = 1..n /\ new[n] = x
      /\ \A k \in 1..Len(rounds) : new[k] = rounds[k]
  BY <1>3
<1> HIDE DEF new
<1>5. \A k \in 1..n : k # n => k \in 1..Len(rounds)
  BY <1>4
<1>6. n \notin 1..Len(rounds) /\ n \in 1..n /\ 1..Len(rounds) \subseteq 1..n
  BY <1>4
<1> HIDE DEF n
<1>7. QED
  BY <1>3, <1>4, <1>5, <1>6 DEF new, n, x

-----------------------------------------------------------------------------
(* The commands that lock one row. *)

\* What a command that begins has just read.
Reads(t) ==
  \/ /\ t.command = "SubmitResponse"
     /\ t.notice \in OpenNotices /\ NoticeFree(t.notice)
     /\ t.items \subseteq DOMAIN notices[t.notice].items
  \/ /\ t.command = "ReviewItem"
     /\ t.notice \in OpenNotices /\ t.outcome \in {"ACCEPTED", "RETURNED"}
  \/ /\ t.command = "VerifyFinding"
     /\ t.finding \in Unresolved /\ FindingFree(t.finding)
  \/ /\ t.command = "ReleaseHold"
     /\ hold.active /\ t.paused = Clock!InState("PAUSED")
     /\ \A u \in inflight : u.command # "ReleaseHold"

\* A slow command that is issued is one of the four.
LEMMA IssueSources ==
  ASSUME NEW t \in Issue
  PROVE  \/ \E n \in Notices : t \in SubmitResponse(n)
         \/ \E n \in Notices : \E i \in DOMAIN notices[n].items : t \in ReviewItem(n, i)
         \/ \E f \in Findings : t \in VerifyFinding(f)
         \/ t \in ReleaseHold
<1> DEFINE responses == {SubmitResponse(n) : n \in Notices}
           reviews == UNION {{ReviewItem(n, i) : i \in DOMAIN notices[n].items} : n \in Notices}
           verdicts == {VerifyFinding(f) : f \in Findings}
<1> DEFINE all == responses \cup reviews \cup verdicts \cup {ReleaseHold}
<1>0. Issue = UNION all
  BY DEF Issue
<1> HIDE DEF all
<1>1. PICK commands \in all : t \in commands
  BY <1>0
<1>2. commands \in reviews =>
        \E n \in Notices : \E i \in DOMAIN notices[n].items : commands = ReviewItem(n, i)
  OBVIOUS
<1>3. commands \in responses => \E n \in Notices : commands = SubmitResponse(n)
  OBVIOUS
<1>4. commands \in verdicts => \E f \in Findings : commands = VerifyFinding(f)
  OBVIOUS
<1> HIDE DEF responses, reviews, verdicts
<1>5. QED
  BY <1>1, <1>2, <1>3, <1>4 DEF all

\* What a slow command reads when it is issued names rows of the tables.
LEMMA IssueReads ==
  ASSUME notices \in Seq(NoticeRow), NEW t \in Issue
  PROVE  Reads(t)
<1>1. \A n \in Notices : notices[n].state = "PUBLISHED" => n \in OpenNotices
  <2> SUFFICES ASSUME NEW n \in Notices, notices[n].state = "PUBLISHED"
               PROVE  n \in OpenNotices
    OBVIOUS
  <2>0. notices[n] \in NoticeRow
    BY DEF Notices
  <2>1. notices[n].type \in {"INFORMATION", "DEFICIENCY"}
    BY <2>0 DEF NoticeRow
  <2>2. QED
    BY <2>1 DEF OpenNotices, Published
<1>2. CASE \E n \in Notices : t \in SubmitResponse(n)
  <2>1. PICK n \in Notices : t \in SubmitResponse(n)
    BY <1>2
  <2>2. NoticeFree(n) /\ notices[n].state = "PUBLISHED"
    BY <2>1 DEF SubmitResponse
  <2>3. /\ t.command = "SubmitResponse" /\ t.notice = n
        /\ t.items \subseteq DOMAIN notices[n].items
    BY <2>1, <2>2 DEF SubmitResponse
  <2>4. QED
    BY <1>1, <2>2, <2>3 DEF Reads
<1>3. CASE \E n \in Notices : \E i \in DOMAIN notices[n].items : t \in ReviewItem(n, i)
  <2>0. PICK n \in Notices : \E i \in DOMAIN notices[n].items : t \in ReviewItem(n, i)
    BY <1>3
  <2>1. PICK i \in DOMAIN notices[n].items : t \in ReviewItem(n, i)
    BY <2>0
  <2>2. notices[n].state = "PUBLISHED"
    BY <2>1 DEF ReviewItem
  <2>3. t.command = "ReviewItem" /\ t.notice = n /\ t.outcome \in {"ACCEPTED", "RETURNED"}
    <3>1. PICK o \in {"ACCEPTED", "RETURNED"} :
                 t = [command |-> "ReviewItem", notice |-> n, item |-> i, outcome |-> o,
                      reopens |-> i \in Unresolved]
      BY <2>1, <2>2 DEF ReviewItem
    <3>2. QED
      BY <3>1
  <2>4. QED
    BY <1>1, <2>2, <2>3 DEF Reads
<1>4. CASE \E f \in Findings : t \in VerifyFinding(f)
  <2>1. PICK f \in Findings : t \in VerifyFinding(f)
    BY <1>4
  <2>2. FindingFree(f) /\ f \in Unresolved
    BY <2>1 DEF VerifyFinding
  <2>3. t.command = "VerifyFinding" /\ t.finding = f
    BY <2>1 DEF VerifyFinding
  <2>4. QED
    BY <2>2, <2>3 DEF Reads
<1>5. CASE t \in ReleaseHold
  BY <1>5 DEF ReleaseHold, Reads
<1>6. QED
  BY <1>2, <1>3, <1>4, <1>5, IssueSources

\* What a command writes: on the rounds, items only; on the clocks, the pauses it
\* read are ended.
LEMMA WriteRounds ==
  ASSUME notices \in Seq(NoticeRow), NEW t, t.command \in RowCommands,
         t.command = "ReviewItem" => t.outcome \in {"ACCEPTED", "RETURNED"}, Write(t)
  PROVE  SameRounds(notices') /\ \A n \in Notices : notices'[n].state = notices[n].state
<1>1. CASE UNCHANGED notices
  BY <1>1 DEF SameRounds, Notices
<1>2. ASSUME NEW pairs, NEW state \in ItemState, notices' = SetItems(pairs, state)
      PROVE  SameRounds(notices') /\ \A n \in Notices : notices'[n].state = notices[n].state
  BY <1>2, SetItemsKeeps
<1>3. "RESPONSE_RECEIVED" \in ItemState /\ "ACCEPTED" \in ItemState /\ "RETURNED" \in ItemState
  BY DEF ItemState
<1>4. CASE t.command = "SubmitResponse"
  BY <1>2, <1>3, <1>4 DEF Write, Respond
<1>5. CASE t.command = "ReviewItem"
  BY <1>2, <1>3, <1>5 DEF Write, Review
<1>6. CASE t.command = "VerifyFinding"
  <2>1. Verify(t)
    BY <1>6 DEF Write
  <2>2. CASE t.outcome = "REINSPECTION_REQUIRED"
    BY <1>1, <2>1, <2>2 DEF Verify
  <2>3. CASE t.outcome # "REINSPECTION_REQUIRED"
    BY <1>2, <1>3, <2>1, <2>3 DEF Verify
  <2>4. QED
    BY <2>2, <2>3
<1>7. CASE t.command = "ReleaseHold"
  BY <1>1, <1>7 DEF Write
<1>8. QED
  BY <1>4, <1>5, <1>6, <1>7 DEF RowCommands

-----------------------------------------------------------------------------
(* The clocks of the stage. *)

\* The release starts every clock that stands still and closes none.
LEMMA ReleaseKeepsClocks ==
  ASSUME ClocksGood, NEW paused, Clock!InState("PAUSED") \subseteq paused,
         Clock!ReleaseHold(paused), UNCHANGED <<status, notices>>
  PROVE  ClocksGood'
<1>1. obligations \in Seq(ClockRow) /\ Len(obligations) \in Nat
  BY DEF ClocksGood, Clock!TypeOK, ClockRow
<1>2. obligations' = Clock!EndPauses(obligations, paused) /\ hold' = Clock!NoHold /\ holds' = holds
  BY DEF Clock!ReleaseHold
<1>3. ASSUME NEW o \in DOMAIN obligations
      PROVE  /\ obligations'[o] \in ClockRow /\ obligations'[o].kind = obligations[o].kind
             /\ obligations'[o].state = IF o \in paused THEN "ACTIVE" ELSE obligations[o].state
  <2>1. obligations'[o] = [kind |-> obligations[o].kind,
                           state |-> IF o \in paused THEN "ACTIVE" ELSE obligations[o].state]
    BY <1>2 DEF Clock!EndPauses
  <2>2. obligations[o] \in ClockRow
    BY <1>1
  <2>3. QED
    BY <2>1, <2>2 DEF ClockRow, Clock!OpenState
<1>4. /\ obligations' \in Seq(ClockRow) /\ Len(obligations') = Len(obligations)
      /\ DOMAIN obligations' = DOMAIN obligations
  <2>1. obligations' = [o \in DOMAIN obligations |-> obligations'[o]]
    BY <1>2 DEF Clock!EndPauses
  <2>2. QED
    BY <1>1, <1>3, <2>1, SeqRebuilt
<1>5. \A o \in DOMAIN obligations :
        /\ obligations'[o].state # "PAUSED"
        /\ obligations[o].state \in Clock!OpenState => obligations'[o].state \in Clock!OpenState
  BY <1>3 DEF Clock!InState, Clock!OpenState
<1>6. SameKinds(obligations, obligations') /\ DuesFollow
  BY <1>1, <1>3, <1>4 DEF SameKinds, DuesFollow, Notices
<1>7. ClockStopsOnlyOnHold'
  BY <1>4, <1>5 DEF ClockStopsOnlyOnHold, Clock!ClockStopsOnlyOnHold, Clock!InState
<1>8. status' \in DOMAIN TaskOf => Latest(obligations', TaskOf[status']) /\ TargetOpen(obligations')
  <2> SUFFICES ASSUME status \in DOMAIN TaskOf
               PROVE  Latest(obligations', TaskOf[status]) /\ TargetOpen(obligations')
    OBVIOUS
  <2>1. /\ Latest(obligations, TaskOf[status])
        /\ TargetOpen(obligations)
    BY DEF ClocksGood, StageHasClock, Latest, TargetOpen
  <2>2. Len(obligations) \in DOMAIN obligations
    BY <1>1, <2>1 DEF TargetOpen
  <2>3. QED
    BY <1>3, <1>4, <1>5, <2>1, <2>2 DEF Latest, TargetOpen
<1>9. hold' \in [active: BOOLEAN, scope: HoldScopes \cup {{}}] /\ holds' \in 0..MaxHolds /\ ~hold'.active
  BY <1>2 DEF Clock!NoHold, ClocksGood, Clock!TypeOK
<1>10. QED
  BY <1>6, <1>7, <1>8, <1>9, ClocksKept

\* A new hold stops clocks that run.
LEMMA HoldKeepsClocks ==
  ASSUME ClocksGood, CreateHold
  PROVE  ClocksGood'
<1>1. PICK scope \in HoldScopes, pauses \in SUBSET Clock!InState("ACTIVE") :
             Clock!CreateHold(scope, pauses)
  BY DEF CreateHold
<1>2. obligations \in Seq(ClockRow) /\ Len(obligations) \in Nat
  BY DEF ClocksGood, Clock!TypeOK, ClockRow
<1>3. UNCHANGED <<status, notices>> /\ status # "DRAFT"
  BY DEF CreateHold
<1>4. ASSUME NEW o \in DOMAIN obligations
      PROVE  /\ obligations'[o] \in ClockRow /\ obligations'[o].kind = obligations[o].kind
             /\ obligations[o].state \in Clock!OpenState => obligations'[o].state \in Clock!OpenState
  <2>1. obligations'[o] = IF o \in pauses THEN [obligations[o] EXCEPT !.state = "PAUSED"] ELSE obligations[o]
    BY <1>1 DEF Clock!CreateHold
  <2>2. obligations[o] \in ClockRow
    BY <1>2
  <2>3. QED
    BY <2>1, <2>2 DEF ClockRow, Clock!OpenState
<1>5. /\ obligations' \in Seq(ClockRow) /\ Len(obligations') = Len(obligations)
      /\ DOMAIN obligations' = DOMAIN obligations
  <2>1. obligations' = [o \in DOMAIN obligations |-> obligations'[o]]
    BY <1>1 DEF Clock!CreateHold
  <2>2. QED
    BY <1>2, <1>4, <2>1, SeqRebuilt
<1>6. SameKinds(obligations, obligations') /\ DuesFollow
  BY <1>2, <1>3, <1>4, <1>5 DEF SameKinds, DuesFollow, Notices
<1>7. hold' = [active |-> TRUE, scope |-> scope] /\ holds' = holds + 1 /\ holds < MaxHolds
  BY <1>1 DEF Clock!CreateHold
<1>8. /\ hold' \in [active: BOOLEAN, scope: HoldScopes \cup {{}}] /\ holds' \in 0..MaxHolds
      /\ hold'.active
  BY <1>7, CaseAssumption DEF CaseAssumption, ClocksGood, Clock!TypeOK
<1>9. ClockStopsOnlyOnHold'
  BY <1>8 DEF ClockStopsOnlyOnHold, Clock!ClockStopsOnlyOnHold
<1>10. status' \in DOMAIN TaskOf => Latest(obligations', TaskOf[status']) /\ TargetOpen(obligations')
  <2> SUFFICES ASSUME status \in DOMAIN TaskOf
               PROVE  Latest(obligations', TaskOf[status]) /\ TargetOpen(obligations')
    BY <1>3
  <2>1. Latest(obligations, TaskOf[status]) /\ TargetOpen(obligations)
    BY DEF ClocksGood, StageHasClock, Latest, TargetOpen
  <2>2. Len(obligations) \in DOMAIN obligations
    BY <1>2, <2>1 DEF TargetOpen
  <2>3. QED
    BY <1>4, <1>5, <2>1, <2>2 DEF Latest, TargetOpen
<1>11. QED
  BY <1>3, <1>6, <1>8, <1>9, <1>10, ClocksKept

\* A command in flight, or one that begins, is one that may write.
Able(t) ==
  /\ t.command \in RowCommands
  /\ t.command = "ReviewItem" => t.outcome \in {"ACCEPTED", "RETURNED"}
  /\ t.command = "ReleaseHold" => hold.active /\ Clock!InState("PAUSED") \subseteq t.paused

\* A slow command, issued now or in flight, can write what it read.
LEMMA WritersAble ==
  ASSUME RowsGood, ReleaseGood
  PROVE  (\A t \in Issue : Able(t)) /\ (\A t \in inflight : Able(t))
<1>1. ASSUME NEW t \in Issue PROVE Able(t)
  <2>1. Reads(t)
    BY <1>1, IssueReads DEF RowsGood
  <2>2. QED
    BY <2>1 DEF Reads, Able, RowCommands
<1>2. ASSUME NEW t \in inflight PROVE Able(t)
  BY <1>2, CaseAssumption DEF CaseAssumption, RowsGood, ReleaseGood, Able
<1>3. QED
  BY <1>1, <1>2

\* Rounds that change states only keep naming their obligations.
LEMMA RoundsKeepDues ==
  ASSUME SameRounds(notices')
  PROVE  DuesFollow
BY DEF SameRounds, DuesFollow

\* A command that writes no clock keeps the clocks.
LEMMA SameClocks ==
  ASSUME ClocksGood, UNCHANGED <<obligations, hold, holds>>, DuesFollow,
         status' # "DRAFT" \/ UNCHANGED status,
         status' \in DOMAIN TaskOf => status \in DOMAIN TaskOf /\ TaskOf[status'] = TaskOf[status]
  PROVE  ClocksGood' /\ NoHoldChanged
<1>1. obligations \in Seq(ClockRow) /\ Len(obligations) \in Nat
  BY DEF ClocksGood, Clock!TypeOK, ClockRow
<1>2. Carries(obligations, obligations') /\ Kept(obligations, obligations')
  BY <1>1 DEF Carries, Kept, SameKinds
<1>3. status' \in DOMAIN TaskOf => Latest(obligations', TaskOf[status'])
  BY DEF ClocksGood, StageHasClock, Latest
<1>4. QED
  BY <1>2, <1>3, UnderSameHold

\* The write of a slow command keeps the clocks, whatever it read.
LEMMA WriteKeepsClocks ==
  ASSUME ClocksGood, notices \in Seq(NoticeRow), NEW t, Able(t), Write(t)
  PROVE  ClocksGood' /\ (t.command # "ReleaseHold" => NoHoldChanged)
<1>1. UNCHANGED status
  BY DEF Write
<1>2. DuesFollow
  BY WriteRounds, RoundsKeepDues DEF Able
<1>3. CASE t.command = "ReleaseHold"
  <2>1. Clock!ReleaseHold(t.paused) /\ UNCHANGED notices
    BY <1>3 DEF Write
  <2>2. QED
    BY <1>1, <1>3, <2>1, ReleaseKeepsClocks DEF Able
<1>4. CASE t.command \in RowCommands \ {"ReleaseHold"}
  <2>1. UNCHANGED <<obligations, hold, holds>>
    BY <1>4 DEF Write, RowCommands
  <2>2. QED
    BY <1>1, <1>2, <2>1, SameClocks
<1>5. QED
  BY <1>3, <1>4 DEF Able

\* A transition that closes one task and opens the next.
LEMMA ReplacingKeepsClocks ==
  ASSUME ClocksGood, UNCHANGED <<hold, holds>>, NEW done \in Clock!Kinds \ {"CASE_TARGET"},
         status \in DOMAIN TaskOf, status' \in DOMAIN TaskOf,
         Replaces(done, TaskOf[status']), DuesFollow
  PROVE  ClocksGood' /\ NoHoldChanged
<1>1. obligations \in Seq(ClockRow)
  BY DEF ClocksGood, Clock!TypeOK, ClockRow
<1>2. TaskOf[status'] \in Clock!Kinds /\ status' # "DRAFT"
  BY DEF TaskOf, Clock!Kinds
<1>3. Carries(obligations, obligations') /\ Latest(obligations', TaskOf[status'])
  BY <1>1, <1>2, ReplacesCarries
<1>4. QED
  BY <1>2, <1>3, UnderSameHold DEF Carries

\* A further round is given the clock just opened.
LEMMA RoundsAdded ==
  ASSUME ClocksGood, notices \in Seq(NoticeRow), NEW rounds,
         rounds = notices \/ \E n \in Notices : rounds = Supersede(n),
         NEW x, x.due = Len(obligations) + 1, notices' = Append(rounds, x),
         Carries(obligations, obligations'), Latest(obligations', "APPLICANT_RESPONSE"),
         Len(obligations') = Len(obligations) + 1
  PROVE  DuesFollow
<1>1. SameRounds(rounds)
  <2>1. CASE rounds = notices
    BY <2>1 DEF SameRounds, Notices
  <2>2. CASE \E n \in Notices : rounds = Supersede(n)
    BY <2>2, CloseNoticesKeeps DEF Supersede
  <2>3. QED
    BY <2>1, <2>2
<1>2. rounds \in Seq(NoticeRow) /\ DOMAIN rounds = Notices /\ \A n \in Notices : rounds[n].due = notices[n].due
  BY <1>1 DEF SameRounds
<1>3. \A n \in DOMAIN notices' : n = Len(rounds) + 1 \/ n \in DOMAIN rounds
  BY <1>2
<1>4. \A n \in DOMAIN rounds : notices'[n] = rounds[n]
  BY <1>2
<1>5. notices'[Len(rounds) + 1] = x
  BY <1>2
<1>6. Len(obligations) + 1 \in DOMAIN obligations'
      /\ obligations'[Len(obligations) + 1].kind = "APPLICANT_RESPONSE"
  <2>1. obligations' \in Seq(ClockRow) /\ obligations \in Seq(ClockRow)
    BY DEF ClocksGood, Clock!TypeOK, ClockRow, Carries, Kept, SameKinds
  <2>2. QED
    BY <2>1 DEF Latest
<1>7. QED
  BY <1>2, <1>3, <1>4, <1>5, <1>6 DEF DuesFollow

\* A command executes at once, or commits what it read earlier.
Runs(t) ==
  /\ Write(t)
  /\ \/ t \in Issue /\ UNCHANGED inflight
     \/ t \in inflight /\ inflight' = inflight \ {t}

\* Executing at once and committing later are the same write.
LEMMA Executions == Execute \/ Commit => \E t \in Issue \cup inflight : Runs(t)
BY DEF Execute, Commit, Runs

\* The clocks follow the status, the rounds and the hold through every command.
LEMMA ClocksFollow ==
  ASSUME ClocksGood, ReleaseGood, RowsGood, [Next]_vars
  PROVE  /\ ClocksGood'
         /\ \/ CreateHold
            \/ \E t \in Issue \cup inflight : t.command = "ReleaseHold" /\ Runs(t)
            \/ NoHoldChanged
<1>1. /\ obligations \in Seq(ClockRow) /\ Len(obligations) \in Nat
      /\ DOMAIN obligations = 1..Len(obligations)
      /\ notices \in Seq(NoticeRow)
  <2>1. obligations \in Seq(ClockRow) /\ notices \in Seq(NoticeRow)
    BY DEF ClocksGood, Clock!TypeOK, ClockRow, RowsGood
  <2>2. QED
    BY <2>1
<1>2. UNCHANGED notices => DuesFollow
  BY <1>1, RoundsKeepDues DEF SameRounds, Notices
<1>3. ASSUME NEW which, NEW state \in {"SATISFIED", "SUPERSEDED", "CANCELLED"},
             notices' = CloseNotices(which, state)
      PROVE  DuesFollow
  BY <1>1, <1>3, CloseNoticesKeeps, RoundsKeepDues
<1>4. \A type, items, due : Notice(type, items, due).due = due
  BY DEF Notice
<1>5. {"SCRUTINY_TASK", "APPLICANT_RESPONSE", "INSPECTION_TASK", "REVIEW_TASK", "ISSUANCE_TASK"}
        \subseteq Clock!Kinds \ {"CASE_TARGET"}
  BY DEF Clock!Kinds
<1> USE TransitionTable DEF Turns, Moves
<1>6. CASE Submit
  <2> DEFINE mid == Clock!Open(obligations, "CASE_TARGET")
  <2>1. status' = "SUBMITTED" /\ UNCHANGED <<notices, hold, holds>>
    BY <1>6 DEF Submit
  <2>2. "CASE_TARGET" \in Clock!Kinds /\ "SCRUTINY_TASK" \in Clock!Kinds
    BY DEF Clock!Kinds
  <2>3. Carries(obligations, mid) /\ Latest(mid, "CASE_TARGET") /\ Len(mid) = Len(obligations) + 1
    BY <1>1, <2>2, OpenCarries
  <2>4. mid \in Seq(ClockRow)
    BY <2>3 DEF Carries, Kept, SameKinds
  <2>5. obligations' = Clock!Open(mid, "SCRUTINY_TASK")
    BY <1>6 DEF Submit
  <2> HIDE DEF mid
  <2>6. Carries(mid, obligations') /\ Latest(obligations', "SCRUTINY_TASK")
        /\ Len(obligations') = Len(mid) + 1
    BY <2>2, <2>4, <2>5, OpenCarries
  <2>7. TargetOpen(obligations')
    <3>1. Len(mid) \in DOMAIN mid /\ Len(mid) \in DOMAIN obligations'
      <4>1. obligations' \in Seq(ClockRow)
        BY <2>6 DEF Carries, Kept, SameKinds
      <4>2. QED
        BY <1>1, <2>3, <2>4, <2>6, <4>1
    <3>2. obligations'[Len(mid)].kind = "CASE_TARGET" /\ obligations'[Len(mid)].state \in Clock!OpenState
      BY <2>3, <2>6, <3>1 DEF Latest, Carries, Kept, SameKinds
    <3>3. QED
      BY <3>1, <3>2 DEF TargetOpen
  <2>8. Kept(obligations, obligations')
    BY <1>1, <2>3, <2>6, CarriesOn DEF Carries
  <2>9. TaskOf[status'] = "SCRUTINY_TASK" /\ status' # "DRAFT"
    BY <2>1 DEF TaskOf
  <2>10. QED
    BY <1>2, <2>1, <2>6, <2>7, <2>8, <2>9, UnderSameHold
<1>7. CASE StartScrutiny
  <2>1. status = "SUBMITTED" /\ status' = "SCRUTINY" /\ UNCHANGED <<notices, obligations, hold, holds>>
    BY <1>7 DEF StartScrutiny
  <2>2. QED
    BY <1>2, <2>1, SameClocks DEF TaskOf
<1>8. CASE ResolveRoutingException \/ InspectionStep \/ Begin \/ Abort \/ UNCHANGED vars
  <2>1. UNCHANGED <<status, notices, obligations, hold, holds>>
    BY <1>8 DEF ResolveRoutingException, InspectionStep, Begin, Abort, vars
  <2>2. QED
    BY <1>2, <2>1, SameClocks
<1>9. CASE CreateHold
  BY <1>9, HoldKeepsClocks
<1>10. CASE Execute \/ Commit
  <2>1. PICK t \in Issue \cup inflight : Runs(t)
    BY <1>10, Executions
  <2>2. Able(t)
    BY <2>1, WritersAble
  <2>3. QED
    BY <1>1, <2>1, <2>2, WriteKeepsClocks DEF Runs
\* Every clock of the case is closed, or those of the certificate.
<1>11. ASSUME NEW rows \in Seq(ClockRow), Kept(obligations, rows), NEW which, NEW from, NEW state,
              state \in {"SATISFIED", "CANCELLED"}, obligations' = Clock!Closed(rows, which, from, state),
              UNCHANGED <<hold, holds>>, DuesFollow, status' \in {"WITHDRAWN", "REJECTED", "COMPLETED"}
       PROVE  ClocksGood' /\ NoHoldChanged
  <2>1. Kept(rows, obligations') /\ Len(rows) \in Nat
    BY <1>11, ClosedCarries
  <2>2. Kept(obligations, obligations')
    <3>1. Len(obligations) <= Len(rows) /\ Len(rows) <= Len(obligations') /\ Len(obligations') \in Nat
      BY <1>11, <2>1 DEF Kept, SameKinds
    <3>2. DOMAIN obligations \subseteq DOMAIN rows
      BY <1>1, <1>11, <3>1
    <3>3. QED
      BY <1>1, <1>11, <2>1, <3>1, <3>2 DEF Kept, SameKinds
  <2>3. status' \notin DOMAIN TaskOf /\ status' # "DRAFT"
    BY <1>11 DEF TaskOf
  <2>4. QED
    BY <1>11, <2>2, <2>3, UnderSameHold
<1>12. Kept(obligations, obligations)
  BY <1>1 DEF Kept, SameKinds
<1>13. CASE WithdrawApplication
  <2>1. /\ status' = "WITHDRAWN" /\ UNCHANGED <<hold, holds>>
        /\ obligations' = Clock!Closed(obligations, DOMAIN obligations, Clock!OpenState, "CANCELLED")
        /\ notices' = CloseNotices(OpenNotices, "CANCELLED")
    BY <1>13 DEF WithdrawApplication, Clock!CancelAll
  <2>2. QED
    BY <1>1, <1>3, <1>11, <1>12, <2>1
<1>14. CASE Reject
  <2> DEFINE mid == Clock!Satisfy(obligations, "REVIEW_TASK")
  <2>1. /\ status' = "REJECTED" /\ UNCHANGED <<hold, holds, notices>>
        /\ obligations' = Clock!Closed(mid, DOMAIN mid, Clock!OpenState, "CANCELLED")
    BY <1>14 DEF Reject, Clock!CancelAll, Closes
  <2>2. Kept(obligations, mid) /\ mid \in Seq(ClockRow)
    BY <1>1, ClosedCarries DEF Clock!Satisfy, Kept, SameKinds
  <2> HIDE DEF mid
  <2>3. QED
    BY <1>2, <1>11, <2>1, <2>2
<1>15. CASE Publish
  <2>1. /\ status' = "COMPLETED" /\ UNCHANGED <<hold, holds, notices>>
        /\ obligations' = Clock!Closed(obligations, Clock!OfKind(obligations, {"ISSUANCE_TASK", "CASE_TARGET"}),
                                       Clock!OpenState, "SATISFIED")
    BY <1>15 DEF Publish, Clock!SatisfyAtPublication
  <2>2. QED
    BY <1>1, <1>2, <1>11, <1>12, <2>1
\* One stage's task makes way for the next's.
<1>16. CASE RequireInspection
  <2>1. /\ status = "SCRUTINY" /\ status' = "INSPECTION_PENDING" /\ UNCHANGED <<hold, holds, notices>>
        /\ Replaces("SCRUTINY_TASK", "INSPECTION_TASK")
    BY <1>16 DEF RequireInspection
  <2>2. status \in DOMAIN TaskOf /\ status' \in DOMAIN TaskOf /\ TaskOf[status'] = "INSPECTION_TASK"
    BY <2>1 DEF TaskOf
  <2>3. QED
    BY <1>2, <1>5, <2>1, <2>2, ReplacingKeepsClocks
<1>17. CASE SubmitReport
  <2>1. /\ status = "INSPECTION_PENDING" /\ status' = "REVIEW_PENDING" /\ UNCHANGED <<hold, holds, notices>>
        /\ Replaces("INSPECTION_TASK", "REVIEW_TASK")
    BY <1>17 DEF SubmitReport
  <2>2. status \in DOMAIN TaskOf /\ status' \in DOMAIN TaskOf /\ TaskOf[status'] = "REVIEW_TASK"
    BY <2>1 DEF TaskOf
  <2>3. QED
    BY <1>2, <1>5, <2>1, <2>2, ReplacingKeepsClocks
<1>18. CASE ReturnForClarification
  <2>1. /\ status = "REVIEW_PENDING" /\ status' = "INSPECTION_PENDING" /\ UNCHANGED <<hold, holds, notices>>
        /\ Replaces("REVIEW_TASK", "INSPECTION_TASK")
    BY <1>18 DEF ReturnForClarification
  <2>2. status \in DOMAIN TaskOf /\ status' \in DOMAIN TaskOf /\ TaskOf[status'] = "INSPECTION_TASK"
    BY <2>1 DEF TaskOf
  <2>3. QED
    BY <1>2, <1>5, <2>1, <2>2, ReplacingKeepsClocks
<1>19. CASE Approve
  <2>1. /\ status = "REVIEW_PENDING" /\ status' = "APPROVED_PENDING_ISSUE" /\ UNCHANGED <<hold, holds, notices>>
        /\ Replaces("REVIEW_TASK", "ISSUANCE_TASK")
    BY <1>19 DEF Approve
  <2>2. status \in DOMAIN TaskOf /\ status' \in DOMAIN TaskOf /\ TaskOf[status'] = "ISSUANCE_TASK"
    BY <2>1 DEF TaskOf
  <2>3. QED
    BY <1>2, <1>5, <2>1, <2>2, ReplacingKeepsClocks
<1>20. CASE CompleteCorrections
  <2>1. /\ status = "COMPLIANCE_PENDING" /\ status' = "REVIEW_PENDING" /\ UNCHANGED <<hold, holds>>
        /\ Replaces("APPLICANT_RESPONSE", "REVIEW_TASK")
        /\ notices' = CloseNotices(Published("DEFICIENCY"), "SATISFIED")
    BY <1>20 DEF CompleteCorrections
  <2>2. status \in DOMAIN TaskOf /\ status' \in DOMAIN TaskOf /\ TaskOf[status'] = "REVIEW_TASK"
    BY <2>1 DEF TaskOf
  <2>3. QED
    BY <1>3, <1>5, <2>1, <2>2, ReplacingKeepsClocks
<1>21. CASE \E n \in Notices : AcceptInformation(n)
  <2>1. /\ status = "INFO_REQUIRED" /\ status' = "SCRUTINY" /\ UNCHANGED <<hold, holds>>
        /\ Replaces("APPLICANT_RESPONSE", "SCRUTINY_TASK")
        /\ \E n : notices' = CloseNotices({n}, "SATISFIED")
    BY <1>21 DEF AcceptInformation
  <2>2. status \in DOMAIN TaskOf /\ status' \in DOMAIN TaskOf /\ TaskOf[status'] = "SCRUTINY_TASK"
    BY <2>1 DEF TaskOf
  <2>3. QED
    BY <1>3, <1>5, <2>1, <2>2, ReplacingKeepsClocks
<1>22. CASE RequireReinspection
  <2>1. /\ status = "COMPLIANCE_PENDING" /\ status' = "INSPECTION_PENDING" /\ UNCHANGED <<hold, holds, notices>>
        /\ obligations' = Clock!Open(obligations, "INSPECTION_TASK")
    BY <1>22 DEF RequireReinspection
  <2>2. status \in DOMAIN TaskOf /\ TaskOf[status'] = "INSPECTION_TASK" /\ status' # "DRAFT"
    BY <2>1 DEF TaskOf
  <2>3. Carries(obligations, obligations') /\ Latest(obligations', "INSPECTION_TASK")
    BY <1>1, <1>5, <2>1, OpenCarries
  <2>4. QED
    BY <1>2, <2>1, <2>2, <2>3, UnderSameHold DEF Carries
<1>23. CASE \E type \in {"INFORMATION", "DEFICIENCY"} : PublishNotice(type)
  <2>1. PICK type \in {"INFORMATION", "DEFICIENCY"} : PublishNotice(type)
    BY <1>23
  <2> DEFINE done == IF type = "INFORMATION" THEN "SCRUTINY_TASK" ELSE "REVIEW_TASK"
  <2>2. /\ status \in {"SCRUTINY", "REVIEW_PENDING"} /\ status' \in {"INFO_REQUIRED", "COMPLIANCE_PENDING"}
        /\ UNCHANGED <<hold, holds>> /\ Replaces(done, "APPLICANT_RESPONSE")
    BY <2>1 DEF PublishNotice
  <2>3. PICK items \in Itemised(type) : notices' = Append(notices, Notice(type, items, Len(obligations) + 1))
    BY <2>1 DEF PublishNotice
  <2>4. /\ status \in DOMAIN TaskOf /\ status' \in DOMAIN TaskOf
        /\ TaskOf[status'] = "APPLICANT_RESPONSE" /\ done \in Clock!Kinds \ {"CASE_TARGET"}
    BY <1>5, <2>2 DEF TaskOf
  <2> HIDE DEF done
  <2>5. Carries(obligations, obligations') /\ Latest(obligations', "APPLICANT_RESPONSE")
        /\ Len(obligations') = Len(obligations) + 1
    BY <1>1, <1>5, <2>2, <2>4, ReplacesCarries
  <2>6. DuesFollow
    BY <1>1, <1>4, <2>3, <2>5, RoundsAdded
  <2>7. QED
    BY <2>2, <2>4, <2>6, ReplacingKeepsClocks
<1>24. CASE \E n \in Notices : SupersedeNotice(n)
  <2>1. PICK n \in Notices : SupersedeNotice(n)
    BY <1>24
  <2> DEFINE old == notices[n]
             mid == Clock!CancelOne(obligations, old.due)
  <2>2. /\ status = Waiting[old.type] /\ UNCHANGED <<status, hold, holds>>
        /\ obligations' = Clock!Open(mid, "APPLICANT_RESPONSE")
    BY <2>1 DEF SupersedeNotice
  <2>3. PICK items \in Itemised(old.type) :
               notices' = Append(Supersede(n), Notice(old.type, items, Len(obligations) + 1))
    BY <2>1 DEF SupersedeNotice
  <2>4. old.type \in {"INFORMATION", "DEFICIENCY"}
    <3>1. old \in NoticeRow
      BY <1>1 DEF Notices
    <3>2. QED
      BY <3>1 DEF NoticeRow
  <2>5. /\ status \in DOMAIN TaskOf /\ TaskOf[status'] = "APPLICANT_RESPONSE" /\ status' # "DRAFT"
    BY <2>2, <2>4 DEF TaskOf, Waiting
  <2>6. Carries(obligations, mid) /\ Len(mid) = Len(obligations) /\ mid \in Seq(ClockRow)
    <3>1. \A o \in DOMAIN obligations : o \in {old.due} => obligations[o].kind # "CASE_TARGET"
      BY DEF ClocksGood
    <3>2. Carries(obligations, mid) /\ Len(mid) = Len(obligations)
      BY <1>1, <3>1, ClosedCarries DEF Clock!CancelOne
    <3>3. QED
      BY <3>2 DEF Carries, Kept, SameKinds
  <2> HIDE DEF mid
  <2>7. Carries(mid, obligations') /\ Latest(obligations', "APPLICANT_RESPONSE")
        /\ Len(obligations') = Len(obligations) + 1
    BY <1>5, <2>2, <2>6, OpenCarries
  <2>8. Carries(obligations, obligations')
    BY <1>1, <2>6, <2>7, CarriesOn
  <2>9. DuesFollow
    BY <1>1, <1>4, <2>3, <2>7, <2>8, RoundsAdded
  <2>10. QED
    BY <2>2, <2>5, <2>7, <2>8, <2>9, UnderSameHold DEF Carries
<1>25. QED
  BY <1>6, <1>7, <1>8, <1>9, <1>10, <1>13, <1>14, <1>15, <1>16, <1>17, <1>18, <1>19, <1>20, <1>21,
    <1>22, <1>23, <1>24 DEF Next

\* Commands come under way one at a time, by Begin.
LEMMA OnlyBeginAdds == [Next]_vars => Begin \/ inflight' \subseteq inflight
<1>1. CASE Execute \/ Commit \/ Abort
  BY <1>1 DEF Execute, Commit, Abort
<1>2. CASE [Next]_vars /\ ~(Execute \/ Commit \/ Abort \/ Begin)
  BY <1>2 DEF Next, vars, Submit, StartScrutiny, ResolveRoutingException, WithdrawApplication,
    CreateHold, RequireInspection, InspectionStep, SubmitReport, ReturnForClarification,
    RequireReinspection, PublishNotice, SupersedeNotice, AcceptInformation, CompleteCorrections,
    Approve, Reject, Publish
<1>3. QED
  BY <1>1, <1>2

\* Only its own commit ends the hold a release has read, and while the hold is in
\* force no other clock is stopped.
LEMMA ReleaseFollows ==
  ASSUME ClocksGood, ReleaseGood, RowsGood, [Next]_vars
  PROVE  ReleaseGood'
<1>1. CASE Begin
  <2>1. PICK t \in Issue : inflight' = inflight \cup {t}
    BY <1>1 DEF Begin
  <2>2. Reads(t)
    BY <2>1, IssueReads DEF RowsGood
  <2>3. UNCHANGED <<hold, obligations>>
    BY <1>1 DEF Begin
  <2>4. Clock!InState("PAUSED")' = Clock!InState("PAUSED")
    BY <2>3 DEF Clock!InState
  <2>5. t.command = "ReleaseHold" => /\ hold.active /\ Clock!InState("PAUSED") \subseteq t.paused
                                     /\ \A u \in inflight : u.command # "ReleaseHold"
    BY <2>2 DEF Reads
  <2>6. QED
    BY <2>1, <2>3, <2>4, <2>5 DEF ReleaseGood
<1>2. CASE ~Begin
  <2>1. inflight' \subseteq inflight
    BY <1>2, OnlyBeginAdds
  <2>2. CASE NoHoldChanged
    <3>1. Clock!InState("PAUSED")' \subseteq Clock!InState("PAUSED")
      BY <2>2 DEF NoHoldChanged, Kept, Clock!InState
    <3>2. QED
      BY <2>1, <2>2, <3>1 DEF NoHoldChanged, ReleaseGood
  <2>3. CASE CreateHold
    <3>1. ~hold.active
      BY <2>3 DEF CreateHold, Clock!CreateHold
    <3>2. QED
      BY <2>1, <3>1 DEF ReleaseGood
  <2>4. CASE \E t \in Issue \cup inflight : t.command = "ReleaseHold" /\ Runs(t)
    <3>1. PICK t \in Issue \cup inflight : t.command = "ReleaseHold" /\ Runs(t)
      BY <2>4
    <3>2. t \in Issue => \A u \in inflight : u.command # "ReleaseHold"
      <4>1. t \in Issue => Reads(t)
        BY IssueReads DEF RowsGood
      <4>2. QED
        BY <3>1, <4>1 DEF Reads
    <3>3. \A u \in inflight' : u.command # "ReleaseHold"
      BY <3>1, <3>2 DEF Runs, ReleaseGood
    <3>4. QED
      BY <3>3 DEF ReleaseGood
  <2>5. QED
    BY <2>2, <2>3, <2>4, ClocksFollow
<1>3. QED
  BY <1>1, <1>2

-----------------------------------------------------------------------------
(* Findings. *)

\* The rows of new findings, in any order.
LEMMA InOrder ==
  ASSUME NEW S, IsFiniteSet(S)
  PROVE  Cardinality(S) \in Nat /\ Sequence!SetToSeq(S) \in [1..Cardinality(S) -> S]
<1>1. Cardinality(S) \in Nat /\ ExistsBijection(1..Cardinality(S), S)
  BY FS_CardinalityType
<1>2. PICK f \in [1..Cardinality(S) -> S] : IsInjective(f)
  BY <1>1 DEF ExistsBijection, Bijection, Injection
<1>3. Sequence!IsInjective(f)
  BY <1>2 DEF IsInjective, Sequence!IsInjective
<1>4. Sequence!Cardinality(S) = Cardinality(S)
  BY DEF Sequence!Cardinality, Cardinality, Sequence!IsFiniteSet, IsFiniteSet
<1>5. QED
  BY <1>1, <1>3, <1>4 DEF Sequence!SetToSeq

\* Findings rewritten in place or added to: none is about another item than it was.
SameFindings(new) ==
  /\ new \in Seq(FindingRow)
  /\ \A f \in Findings : f \in DOMAIN new /\ new[f].item = findings[f].item

\* A report may add findings, and leaves those there are alone.
LEMMA MaterialiseKeeps ==
  ASSUME findings \in Seq(FindingRow), NEW S \in SUBSET Items
  PROVE  /\ SameFindings(Materialise(S))
         /\ \A f \in Findings : Materialise(S)[f] = findings[f]
<1> DEFINE n == Cardinality(S)
           x == [k \in 1..n |-> [item |-> Sequence!SetToSeq(S)[k], state |-> "OPEN", reinspection |-> FALSE]]
<1>1. IsFiniteSet(S)
  BY FS_Subset, CaseAssumption DEF CaseAssumption
<1>2. n \in Nat /\ \A k \in 1..n : Sequence!SetToSeq(S)[k] \in Items
  BY <1>1, InOrder
<1>3. \A k \in 1..n : x[k] \in FindingRow
  BY <1>2 DEF FindingRow
<1> HIDE DEF n
<1>4. x \in Seq(FindingRow)
  <2> DEFINE y == x
  <2>1. y = [k \in 1..n |-> y[k]]
    OBVIOUS
  <2> HIDE DEF y
  <2>2. QED
    BY <1>2, <1>3, <2>1 DEF y
<1>5. Materialise(S) = findings \o x
  BY DEF Materialise, n
<1> HIDE DEF x
<1>6. /\ findings \o x \in Seq(FindingRow) /\ Len(findings \o x) = Len(findings) + Len(x)
      /\ \A f \in 1..Len(findings) : (findings \o x)[f] = findings[f]
      /\ Len(findings) \in Nat /\ Len(x) \in Nat
  BY <1>4
<1>7. DOMAIN findings = 1..Len(findings) /\ DOMAIN (findings \o x) = 1..Len(findings \o x)
  BY <1>6
<1>8. \A f \in DOMAIN findings : f \in DOMAIN (findings \o x) /\ (findings \o x)[f] = findings[f]
  BY <1>6, <1>7
<1>9. QED
  BY <1>5, <1>6, <1>8 DEF SameFindings, Findings

\* Findings rewritten in place.
LEMMA FindingsRebuilt ==
  ASSUME findings \in Seq(FindingRow), NEW new, new = [f \in Findings |-> new[f]],
         \A f \in Findings : new[f] \in FindingRow /\ new[f].item = findings[f].item
  PROVE  SameFindings(new) /\ DOMAIN new = Findings
BY SeqRebuilt DEF SameFindings, Findings

\* Setting the state of findings keeps their items.
LEMMA SetFindingsKeeps ==
  ASSUME findings \in Seq(FindingRow), NEW F, NEW state \in {"OPEN", "RESPONSE_RECEIVED"}
  PROVE  /\ SameFindings(SetFindings(F, state)) /\ DOMAIN SetFindings(F, state) = Findings
         /\ \A f \in Findings : SetFindings(F, state)[f].state = IF f \in F THEN state ELSE findings[f].state
<1> DEFINE new == SetFindings(F, state)
<1>1. new = [f \in Findings |-> new[f]]
  BY DEF SetFindings
<1>2. ASSUME NEW f \in Findings
      PROVE  /\ new[f] \in FindingRow /\ new[f].item = findings[f].item
             /\ new[f].state = IF f \in F THEN state ELSE findings[f].state
  <2>1. new[f] = IF f \in F THEN [findings[f] EXCEPT !.state = state] ELSE findings[f]
    BY DEF SetFindings
  <2>2. findings[f] \in FindingRow
    BY DEF Findings
  <2> HIDE DEF new
  <2>3. QED
    BY <2>1, <2>2 DEF FindingRow
<1> HIDE DEF new
<1>3. SameFindings(new) /\ DOMAIN new = Findings
  BY <1>1, <1>2, FindingsRebuilt
<1>4. QED
  BY <1>2, <1>3 DEF new

\* A verdict on a response changes the state of one finding.
LEMMA VerdictKeeps ==
  ASSUME findings \in Seq(FindingRow), NEW g \in Findings, NEW outcome,
         findings' = [findings EXCEPT ![g] = Verdict(@, outcome)]
  PROVE  /\ SameFindings(findings') /\ DOMAIN findings' = Findings
         /\ \A f \in Findings : f # g => findings'[f] = findings[f]
<1>1. findings[g] \in FindingRow
  BY DEF Findings
<1>2. Verdict(findings[g], outcome) \in FindingRow /\ Verdict(findings[g], outcome).item = findings[g].item
  BY <1>1 DEF Verdict, FindingRow
<1>3. findings' = [findings EXCEPT ![g] = Verdict(findings[g], outcome)]
  OBVIOUS
<1>4. /\ findings' \in Seq(FindingRow) /\ Len(findings') = Len(findings) /\ DOMAIN findings' = DOMAIN findings
      /\ \A f \in DOMAIN findings : findings'[f] = IF f = g THEN Verdict(findings[g], outcome) ELSE findings[f]
  BY <1>2, <1>3, SeqWritten DEF Findings
<1>5. QED
  BY <1>2, <1>4 DEF SameFindings, Findings

\* A write touches findings so, and closes only the one it verifies.
LEMMA WriteFindings ==
  ASSUME findings \in Seq(FindingRow), NEW t, t.command \in RowCommands,
         t.command = "VerifyFinding" => t.finding \in Findings, Write(t)
  PROVE  /\ SameFindings(findings') /\ DOMAIN findings' = Findings
         /\ \A f \in Findings : \/ t.command = "VerifyFinding" /\ f = t.finding
                                \/ findings'[f].state = "VERIFIED_CLOSED" => findings[f].state = "VERIFIED_CLOSED"
         /\ t.command \in {"VerifyFinding", "ReleaseHold"} =>
              \A f \in Findings : \/ t.command = "VerifyFinding" /\ f = t.finding
                                  \/ findings'[f] = findings[f]
<1>1. UNCHANGED findings => SameFindings(findings') /\ DOMAIN findings' = Findings
  BY DEF SameFindings, Findings
<1>2. \A F : /\ findings' = SetFindings(F, "OPEN") \/ findings' = SetFindings(F, "RESPONSE_RECEIVED")
             => /\ SameFindings(findings') /\ DOMAIN findings' = Findings
                /\ \A f \in Findings :
                     findings'[f].state = "VERIFIED_CLOSED" => findings[f].state = "VERIFIED_CLOSED"
  BY SetFindingsKeeps
<1>3. CASE t.command = "SubmitResponse"
  BY <1>2, <1>3 DEF Write, Respond
<1>4. CASE t.command = "ReviewItem"
  BY <1>1, <1>2, <1>4 DEF Write, Review
<1>5. CASE t.command = "VerifyFinding"
  <2>1. findings' = [findings EXCEPT ![t.finding] = Verdict(@, t.outcome)]
    BY <1>5 DEF Write, Verify
  <2>2. t.finding \in Findings
    BY <1>5
  <2>3. QED
    BY <1>5, <2>1, <2>2, VerdictKeeps
<1>6. CASE t.command = "ReleaseHold"
  BY <1>1, <1>6 DEF Write
<1>7. QED
  BY <1>3, <1>4, <1>5, <1>6 DEF RowCommands

-----------------------------------------------------------------------------
(* Rows keep their columns, and their references. *)

\* The row a command locks is the one it wants.
LEMMA WritersHold ==
  ASSUME RowsGood, FlightsGood, NEW t \in Issue \cup inflight
  PROVE  /\ t.command = "SubmitResponse" => t.notice \in OpenNotices
         /\ t.command = "VerifyFinding" => t.finding \in Unresolved
<1>1. CASE t \in Issue
  <2>1. Reads(t)
    BY <1>1, IssueReads DEF RowsGood
  <2>2. QED
    BY <2>1 DEF Reads
<1>2. CASE t \in inflight
  BY <1>2 DEF FlightsGood
<1>3. QED
  BY <1>1, <1>2

\* Every command writes a status of the table.
LEMMA StatusTyped ==
  ASSUME RowsGood, [Next]_vars
  PROVE  status' \in {Transitions[c].to : c \in DOMAIN Transitions} \cup {"DRAFT"}
<1>1. \A c \in DOMAIN Transitions : Takes(c) =>
        status' \in {Transitions[d].to : d \in DOMAIN Transitions} \cup {"DRAFT"}
  BY DEF Takes
<1>2. UNCHANGED status => status' \in {Transitions[d].to : d \in DOMAIN Transitions} \cup {"DRAFT"}
  BY DEF RowsGood
<1>3. DOMAIN Transitions = {"Submit", "StartScrutiny", "RequestInformation", "AcceptInformation",
        "RequireInspection", "AcceptReport", "IssueDeficiencies", "CompleteCorrections",
        "RequireReinspection", "Approve", "PublishInstrument", "Reject", "Withdraw",
        "ReturnForClarification"}
  BY DEF Transitions
<1>4. CASE UNCHANGED status
  BY <1>2, <1>4
<1>5. CASE \E c \in DOMAIN Transitions : Takes(c)
  BY <1>1, <1>5
<1>6. UNCHANGED status \/ \E c \in DOMAIN Transitions : Takes(c)
  BY <1>3, WriteFrame DEF Next, vars, Moves, Submit, StartScrutiny, ResolveRoutingException, WithdrawApplication,
    CreateHold, RequireInspection, InspectionStep, SubmitReport, ReturnForClarification,
    RequireReinspection, PublishNotice, SupersedeNotice, AcceptInformation, CompleteCorrections,
    Approve, Reject, Publish, Execute, Begin, Commit, Abort
<1>7. QED
  BY <1>4, <1>5, <1>6

\* The rounds' items refer to the given findings.
Refer(rounds, rows) ==
  \A n \in DOMAIN rounds : \A i \in DOMAIN rounds[n].items :
    IF rounds[n].type = "INFORMATION" THEN i = Completeness ELSE i \in DOMAIN rows

TablesGood(rounds, rows) == rounds \in Seq(NoticeRow) /\ rows \in Seq(FindingRow) /\ Refer(rounds, rows)

\* Changes of states only keep the types of both tables.
LEMMA SameTables ==
  ASSUME TablesGood(notices, findings), SameRounds(notices'), SameFindings(findings')
  PROVE  TablesGood(notices', findings')
<1>1. Findings \subseteq DOMAIN findings'
  BY DEF SameFindings
<1>2. Refer(notices', findings')
  BY <1>1 DEF TablesGood, Refer, SameRounds, Findings, Notices
<1>3. QED
  BY <1>2 DEF TablesGood, SameRounds, SameFindings

\* The items a notice is issued for are of the kind of its type.
LEMMA ItemisedRows ==
  ASSUME findings \in Seq(FindingRow), NEW type \in {"INFORMATION", "DEFICIENCY"},
         NEW items \in Itemised(type)
  PROVE  /\ items \in SUBSET Nat
         /\ \A i \in items : IF type = "INFORMATION" THEN i = Completeness ELSE i \in Findings
<1>1. CASE type = "INFORMATION"
  BY <1>1 DEF Itemised, Completeness
<1>2. CASE type # "INFORMATION"
  <2>1. items \subseteq Findings
    BY <1>2 DEF Itemised, Unresolved
  <2>2. Findings \subseteq Nat
    BY DEF Findings
  <2>3. QED
    BY <1>2, <2>1, <2>2
<1>3. QED
  BY <1>1, <1>2

\* A notice appended with its obligation is typed and due.
LEMMA TableGrown ==
  ASSUME TablesGood(notices, findings), UNCHANGED findings, Len(obligations) \in Nat,
         NEW rounds, SameRounds(rounds),
         NEW type \in {"INFORMATION", "DEFICIENCY"}, NEW items \in Itemised(type),
         notices' = Append(rounds, Notice(type, items, Len(obligations) + 1))
  PROVE  TablesGood(notices', findings')
<1>1. /\ items \in SUBSET Nat
      /\ \A i \in items : IF type = "INFORMATION" THEN i = Completeness ELSE i \in Findings
  BY ItemisedRows DEF TablesGood
<1>2. rounds \in Seq(NoticeRow) /\ Len(obligations) + 1 \in Nat
  BY DEF SameRounds
<1> DEFINE n == Len(rounds) + 1
<1>3. /\ notices' \in Seq(NoticeRow) /\ n \in DOMAIN notices'
      /\ \A k \in DOMAIN notices' : k # n => k \in DOMAIN rounds /\ notices'[k] = rounds[k]
      /\ notices'[n].type = type /\ DOMAIN notices'[n].items = items
  BY <1>1, <1>2, PublishKeeps
<1> HIDE DEF n
<1>4. \A k \in DOMAIN rounds : \A i \in DOMAIN rounds[k].items :
        IF rounds[k].type = "INFORMATION" THEN i = Completeness ELSE i \in Findings
  BY DEF TablesGood, Refer, SameRounds, Findings, Notices
<1>5. Refer(notices', findings')
  <2> SUFFICES ASSUME NEW k \in DOMAIN notices', NEW i \in DOMAIN notices'[k].items
               PROVE  IF notices'[k].type = "INFORMATION" THEN i = Completeness ELSE i \in DOMAIN findings
    BY DEF Refer
  <2>1. CASE k = n
    BY <1>1, <1>3, <2>1 DEF Findings
  <2>2. CASE k # n
    BY <1>3, <1>4, <2>2 DEF Findings
  <2>3. QED
    BY <2>1, <2>2
<1>6. QED
  BY <1>3, <1>5 DEF TablesGood

\* Every command leaves the tables in order.
LEMMA TablesFollow ==
  ASSUME ClocksGood, ReleaseGood, RowsGood, FlightsGood, [Next]_vars
  PROVE  TablesGood(notices', findings')
<1>1. notices \in Seq(NoticeRow) /\ findings \in Seq(FindingRow) /\ TablesGood(notices, findings)
  BY DEF RowsGood, TablesGood, Refer, Notices, Findings
<1>2. Len(obligations) \in Nat
  <2>1. obligations \in Seq(ClockRow)
    BY DEF ClocksGood, Clock!TypeOK, ClockRow
  <2>2. QED
    BY <2>1
<1>3. UNCHANGED notices => SameRounds(notices')
  BY <1>1 DEF SameRounds, Notices
<1>4. UNCHANGED findings => SameFindings(findings')
  BY <1>1 DEF SameFindings, Findings
<1>5. ASSUME NEW which, NEW state \in {"SATISFIED", "CANCELLED"}, notices' = CloseNotices(which, state)
      PROVE  SameRounds(notices')
  BY <1>1, <1>5, CloseNoticesKeeps
<1>6. CASE \/ Submit \/ StartScrutiny \/ ResolveRoutingException \/ CreateHold \/ RequireInspection
           \/ InspectionStep \/ ReturnForClarification \/ Begin \/ Abort \/ Approve \/ Reject \/ Publish
           \/ UNCHANGED vars
  <2>1. UNCHANGED <<notices, findings>>
    BY <1>6 DEF vars, Submit, StartScrutiny, ResolveRoutingException, CreateHold, RequireInspection,
      InspectionStep, ReturnForClarification, Begin, Abort, Approve, Reject, Publish
  <2>2. QED
    BY <1>1, <2>1
<1>7. CASE WithdrawApplication
  BY <1>1, <1>4, <1>5, <1>7, SameTables DEF WithdrawApplication
<1>8. CASE CompleteCorrections
  BY <1>1, <1>4, <1>5, <1>8, SameTables DEF CompleteCorrections
<1>9. CASE \E n \in Notices : AcceptInformation(n)
  BY <1>1, <1>4, <1>5, <1>9, SameTables DEF AcceptInformation
<1>10. CASE SubmitReport
  <2>1. PICK failed \in SUBSET Items : findings' = Materialise(NewFindings(failed))
    BY <1>10 DEF SubmitReport
  <2>2. NewFindings(failed) \in SUBSET Items
    BY DEF NewFindings
  <2>3. SameFindings(findings')
    BY <1>1, <2>1, <2>2, MaterialiseKeeps
  <2>4. UNCHANGED notices
    BY <1>10 DEF SubmitReport
  <2>5. QED
    BY <1>1, <1>3, <2>3, <2>4, SameTables
<1>11. CASE RequireReinspection
  <2>1. PICK F \in SUBSET Unresolved :
               findings' = [f \in Findings |-> IF f \in F THEN [findings[f] EXCEPT !.reinspection = TRUE]
                                               ELSE findings[f]]
    BY <1>11 DEF RequireReinspection
  <2>2. ASSUME NEW f \in Findings
        PROVE  findings'[f] \in FindingRow /\ findings'[f].item = findings[f].item
    <3>1. findings[f] \in FindingRow
      BY <1>1 DEF Findings
    <3>2. QED
      BY <2>1, <3>1 DEF FindingRow
  <2>3. findings' = [f \in Findings |-> findings'[f]]
    BY <2>1
  <2>4. SameFindings(findings')
    BY <1>1, <2>2, <2>3, FindingsRebuilt
  <2>5. UNCHANGED notices
    BY <1>11 DEF RequireReinspection
  <2>6. QED
    BY <1>1, <1>3, <2>4, <2>5, SameTables
<1>12. CASE \E type \in {"INFORMATION", "DEFICIENCY"} : PublishNotice(type)
  <2>0. PICK type \in {"INFORMATION", "DEFICIENCY"} : PublishNotice(type)
    BY <1>12
  <2>1. PICK items \in Itemised(type) :
               notices' = Append(notices, Notice(type, items, Len(obligations) + 1)) /\ UNCHANGED findings
    BY <2>0 DEF PublishNotice
  <2>2. SameRounds(notices)
    BY <1>1 DEF SameRounds, Notices
  <2>3. QED
    BY <1>1, <1>2, <2>1, <2>2, TableGrown
<1>13. CASE \E n \in Notices : SupersedeNotice(n)
  <2>1. PICK n \in Notices : SupersedeNotice(n)
    BY <1>13
  <2>2. PICK items \in Itemised(notices[n].type) :
               notices' = Append(Supersede(n), Notice(notices[n].type, items, Len(obligations) + 1))
    BY <2>1 DEF SupersedeNotice
  <2>3. SameRounds(Supersede(n))
    BY <1>1, CloseNoticesKeeps DEF Supersede
  <2>4. notices[n].type \in {"INFORMATION", "DEFICIENCY"}
    <3>1. notices[n] \in NoticeRow
      BY <1>1 DEF Notices
    <3>2. QED
      BY <3>1 DEF NoticeRow
  <2>5. UNCHANGED findings
    BY <2>1 DEF SupersedeNotice
  <2>6. QED
    BY <1>1, <1>2, <2>2, <2>3, <2>4, <2>5, TableGrown
<1>14. CASE Execute \/ Commit
  <2>1. PICK t \in Issue \cup inflight : Runs(t)
    BY <1>14, Executions
  <2>2. Able(t) /\ (t.command = "VerifyFinding" => t.finding \in Findings)
    BY <2>1, WritersAble, WritersHold DEF Unresolved
  <2>3. SameRounds(notices')
    BY <1>1, <2>1, <2>2, WriteRounds DEF Runs, Able
  <2>4. SameFindings(findings')
    BY <1>1, <2>1, <2>2, WriteFindings DEF Runs, Able
  <2>5. QED
    BY <1>1, <2>3, <2>4, SameTables
<1>15. QED
  BY <1>6, <1>7, <1>8, <1>9, <1>10, <1>11, <1>12, <1>13, <1>14 DEF Next

\* Every step keeps the types of findings and notices.
LEMMA RowsFollow ==
  ASSUME ClocksGood, ReleaseGood, RowsGood, FlightsGood, [Next]_vars
  PROVE  RowsGood'
<1>1. TablesGood(notices', findings')
  BY TablesFollow
<1>2. status' \in {Transitions[c].to : c \in DOMAIN Transitions} \cup {"DRAFT"}
  BY StatusTyped
<1>3. routing' \in BOOLEAN /\ report' \in {"NONE", "ELIGIBLE", "BLOCKED"}
  <2>1. routing' \in BOOLEAN
    BY WriteFrame DEF RowsGood, Next, vars, Submit, StartScrutiny, ResolveRoutingException,
      WithdrawApplication, CreateHold, RequireInspection, InspectionStep, SubmitReport,
      ReturnForClarification, RequireReinspection, PublishNotice, SupersedeNotice, AcceptInformation,
      CompleteCorrections, Approve, Reject, Publish, Execute, Begin, Commit, Abort
  <2>2. CASE SubmitReport
    <3>1. PICK failed \in SUBSET Items, otherBlockers \in BOOLEAN :
                 report' = IF failed \cap Mandatory = {} /\ ~otherBlockers THEN "ELIGIBLE" ELSE "BLOCKED"
      BY <2>2 DEF SubmitReport
    <3>2. QED
      BY <2>1, <3>1
  <2>3. CASE ~SubmitReport
    <3>1. UNCHANGED report
      BY <2>3, WriteFrame DEF Next, vars, Submit, StartScrutiny, ResolveRoutingException,
        WithdrawApplication, CreateHold, RequireInspection, InspectionStep,
        ReturnForClarification, RequireReinspection, PublishNotice, SupersedeNotice, AcceptInformation,
        CompleteCorrections, Approve, Reject, Publish, Execute, Begin, Commit, Abort
    <3>2. QED
      BY <2>1, <3>1 DEF RowsGood
  <2>4. QED
    BY <2>2, <2>3
<1>4. \A t \in inflight' : /\ t.command \in Racing
                           /\ t.command = "ReviewItem" => t.outcome \in {"ACCEPTED", "RETURNED"}
  <2>1. CASE Begin
    <3>1. PICK t \in Issue : t.command \in Racing /\ inflight' = inflight \cup {t}
      BY <2>1 DEF Begin
    <3>2. Able(t)
      BY <3>1, WritersAble
    <3>3. QED
      BY <3>1, <3>2 DEF RowsGood, Able
  <2>2. CASE inflight' \subseteq inflight
    BY <2>2 DEF RowsGood
  <2>3. QED
    BY <2>1, <2>2, OnlyBeginAdds
<1>5. QED
  BY <1>1, <1>2, <1>3, <1>4 DEF RowsGood, TablesGood, Refer, Notices, Findings

-----------------------------------------------------------------------------
(* Rounds open and close with the status. *)

\* The rounds that await an answer are the same when no notice changes state.
LEMMA PublishedKept ==
  ASSUME SameRounds(notices'), \A n \in Notices : notices'[n].state = notices[n].state
  PROVE  \A type : Published(type)' = Published(type)
BY DEF SameRounds, Published, Notices

\* Closing a round takes it from those that await an answer.
LEMMA PublishedClosed ==
  ASSUME notices \in Seq(NoticeRow), NEW which, NEW state \in {"SATISFIED", "SUPERSEDED", "CANCELLED"},
         notices' = CloseNotices(which, state)
  PROVE  \A type : Published(type)' = Published(type) \ which
<1>1. /\ SameRounds(notices')
      /\ \A n \in Notices : notices'[n].state = IF n \in which THEN state ELSE notices[n].state
  BY CloseNoticesKeeps
<1>2. state # "PUBLISHED"
  OBVIOUS
<1>3. QED
  BY <1>1, <1>2 DEF SameRounds, Published, Notices

\* Issuing a notice adds one round of its type and takes what it supersedes.
LEMMA PublishedAdded ==
  ASSUME notices \in Seq(NoticeRow), findings \in Seq(FindingRow), Len(obligations) \in Nat,
         NEW which, NEW rounds, (rounds = notices /\ which = {}) \/ rounds = CloseNotices(which, "SUPERSEDED"),
         NEW type \in {"INFORMATION", "DEFICIENCY"}, NEW items \in Itemised(type),
         notices' = Append(rounds, Notice(type, items, Len(obligations) + 1))
  PROVE  /\ \A other : other # type => Published(other)' = Published(other) \ which
         /\ \E n : Published(type)' = (Published(type) \ which) \cup {n}
<1>1. /\ SameRounds(rounds)
      /\ \A n \in Notices : rounds[n].state = IF n \in which THEN "SUPERSEDED" ELSE notices[n].state
  <2>1. CASE rounds = notices /\ which = {}
    BY <2>1 DEF SameRounds, Notices
  <2>2. CASE rounds = CloseNotices(which, "SUPERSEDED")
    BY <2>2, CloseNoticesKeeps
  <2>3. QED
    BY <2>1, <2>2
<1>2. items \in SUBSET Nat /\ Len(obligations) + 1 \in Nat /\ rounds \in Seq(NoticeRow) /\ DOMAIN rounds = Notices
  BY <1>1, ItemisedRows DEF SameRounds
<1> DEFINE n == Len(rounds) + 1
<1> DEFINE due == Len(obligations) + 1
           new == Append(rounds, Notice(type, items, due))
<1>3. due \in Nat /\ notices' = new
  BY <1>2
<1> HIDE DEF due
<1>4. /\ n \in DOMAIN new /\ n \notin DOMAIN rounds
      /\ \A k \in DOMAIN new : k # n => k \in DOMAIN rounds /\ new[k] = rounds[k]
      /\ \A k \in DOMAIN rounds : k \in DOMAIN new /\ new[k] = rounds[k]
      /\ new[n].type = type /\ new[n].state = "PUBLISHED"
  <2>1. DOMAIN rounds = 1..Len(rounds) /\ DOMAIN new = 1..n
        /\ n \notin DOMAIN rounds
    BY <1>2, <1>3, PublishKeeps
  <2>2. \A k \in DOMAIN rounds : k \in DOMAIN new /\ new[k] = rounds[k]
    BY <1>2, <1>3, PublishKeeps
  <2>3. new[n] = Notice(type, items, due)
    BY <1>2
  <2>4. n \in DOMAIN new /\ new[n].type = type /\ new[n].state = "PUBLISHED"
    BY <2>1, <2>3 DEF Notice
  <2>5. \A k \in DOMAIN new : k # n => k \in DOMAIN rounds
    BY <1>2, <1>3, PublishKeeps
  <2>6. QED
    BY <2>1, <2>2, <2>4, <2>5
<1> HIDE DEF new
<1>5. /\ n \in DOMAIN notices' /\ n \notin DOMAIN rounds
      /\ \A k \in DOMAIN notices' : k # n => k \in DOMAIN rounds /\ notices'[k] = rounds[k]
      /\ \A k \in DOMAIN rounds : k \in DOMAIN notices' /\ notices'[k] = rounds[k]
      /\ notices'[n].type = type /\ notices'[n].state = "PUBLISHED"
  BY <1>3, <1>4
<1> HIDE DEF n
<1>6. \A other : {k \in Notices : rounds[k].type = other /\ rounds[k].state = "PUBLISHED"} = Published(other) \ which
  BY <1>1 DEF SameRounds, Published
<1>7. \A other : other # type =>
        Published(other)' = {k \in Notices : rounds[k].type = other /\ rounds[k].state = "PUBLISHED"}
  BY <1>2, <1>5 DEF Published, Notices
<1>8. Published(type)' = {k \in Notices : rounds[k].type = type /\ rounds[k].state = "PUBLISHED"} \cup {n}
  BY <1>2, <1>5 DEF Published, Notices
<1>9. QED
  BY <1>6, <1>7, <1>8

\* Every step keeps one open round per kind, of the findings that need it.
LEMMA RoundsFollow ==
  ASSUME ClocksGood, ReleaseGood, RowsGood, FlightsGood, RoundsGood, [Next]_vars
  PROVE  RoundsGood'
<1>1. notices \in Seq(NoticeRow) /\ findings \in Seq(FindingRow) /\ Len(obligations) \in Nat
  <2>1. obligations \in Seq(ClockRow)
    BY DEF ClocksGood, Clock!TypeOK, ClockRow
  <2>2. QED
    BY <2>1 DEF RowsGood
<1>2. ASSUME \A type : Published(type)' = Published(type),
             \/ UNCHANGED status
             \/ {status, status'} \cap {"INFO_REQUIRED"} = {} /\ status' # "COMPLIANCE_PENDING"
      PROVE  RoundsGood'
  BY <1>2 DEF RoundsGood
<1>3. UNCHANGED notices => \A type : Published(type)' = Published(type)
  BY DEF Published, Notices
<1> USE TransitionTable DEF Turns, Moves
<1>4. CASE Submit
  BY <1>2, <1>3, <1>4 DEF Submit
<1>5. CASE StartScrutiny
  BY <1>2, <1>3, <1>5 DEF StartScrutiny
<1>6. CASE \/ ResolveRoutingException \/ CreateHold \/ InspectionStep \/ Begin \/ Abort
           \/ UNCHANGED vars
  BY <1>2, <1>3, <1>6 DEF ResolveRoutingException, CreateHold, InspectionStep, Begin, Abort, vars
<1>7. CASE RequireInspection
  BY <1>2, <1>3, <1>7 DEF RequireInspection
<1>8. CASE SubmitReport
  BY <1>2, <1>3, <1>8 DEF SubmitReport
<1>9. CASE ReturnForClarification
  BY <1>2, <1>3, <1>9 DEF ReturnForClarification
<1>10. CASE RequireReinspection
  BY <1>2, <1>3, <1>10 DEF RequireReinspection
<1>11. CASE Approve
  BY <1>2, <1>3, <1>11 DEF Approve
<1>12. CASE Reject
  BY <1>2, <1>3, <1>12 DEF Reject
<1>13. CASE Publish
  BY <1>2, <1>3, <1>13 DEF Publish
<1>14. CASE Execute \/ Commit
  <2>1. PICK t \in Issue \cup inflight : Runs(t)
    BY <1>14, Executions
  <2>2. Able(t)
    BY <2>1, WritersAble
  <2>3. \A type : Published(type)' = Published(type)
    BY <1>1, <2>1, <2>2, WriteRounds, PublishedKept DEF Runs, Able
  <2>4. UNCHANGED status
    BY <2>1 DEF Runs, Write
  <2>5. QED
    BY <1>2, <2>3, <2>4
<1>15. CASE WithdrawApplication
  <2>1. status' = "WITHDRAWN" /\ \A type : Published(type)' = Published(type) \ OpenNotices
    BY <1>1, <1>15, PublishedClosed DEF WithdrawApplication
  <2>2. Published("INFORMATION")' = {}
    BY <2>1 DEF OpenNotices
  <2>3. QED
    BY <2>1, <2>2 DEF RoundsGood
<1>16. CASE CompleteCorrections
  <2>1. status = "COMPLIANCE_PENDING" /\ status' = "REVIEW_PENDING"
        /\ \A type : Published(type)' = Published(type) \ Published("DEFICIENCY")
    BY <1>1, <1>16, PublishedClosed DEF CompleteCorrections
  <2>2. Published("INFORMATION") = {}
    BY <2>1 DEF RoundsGood
  <2>3. Published("INFORMATION")' = {}
    BY <2>1, <2>2
  <2>4. QED
    BY <2>1, <2>3 DEF RoundsGood
<1>17. CASE \E n \in Notices : AcceptInformation(n)
  <2>1. PICK n \in Notices : AcceptInformation(n)
    BY <1>17
  <2>2. status = "INFO_REQUIRED" /\ status' = "SCRUTINY" /\ n \in Published("INFORMATION")
        /\ \A type : Published(type)' = Published(type) \ {n}
    BY <1>1, <2>1, PublishedClosed DEF AcceptInformation, Published
  <2>3. Published("INFORMATION") = {n}
    BY <2>2 DEF RoundsGood
  <2>4. Published("INFORMATION")' = {}
    BY <2>2, <2>3
  <2>5. QED
    BY <2>2, <2>4 DEF RoundsGood
<1>18. CASE \E type \in {"INFORMATION", "DEFICIENCY"} : PublishNotice(type)
  <2>0. PICK type \in {"INFORMATION", "DEFICIENCY"} : PublishNotice(type)
    BY <1>18
  <2>1. PICK items \in Itemised(type) : notices' = Append(notices, Notice(type, items, Len(obligations) + 1))
    BY <2>0 DEF PublishNotice
  <2>2. status \in {"SCRUTINY", "REVIEW_PENDING"}
        /\ status' = IF type = "INFORMATION" THEN "INFO_REQUIRED" ELSE "COMPLIANCE_PENDING"
    BY <2>0 DEF PublishNotice
  <2>3. /\ \A other : other # type => Published(other)' = Published(other) \ {}
        /\ \E n : Published(type)' = (Published(type) \ {}) \cup {n}
    BY <1>1, <2>1, PublishedAdded, ZenonT(30)
  <2>4. Published("INFORMATION") = {}
    BY <2>2 DEF RoundsGood
  <2>5. QED
    BY <2>2, <2>3, <2>4 DEF RoundsGood
<1>19. CASE \E n \in Notices : SupersedeNotice(n)
  <2>0. PICK n \in Notices : SupersedeNotice(n)
    BY <1>19
  <2>1. PICK type \in {"INFORMATION", "DEFICIENCY"} : type = notices[n].type
    <3>1. notices[n] \in NoticeRow
      BY <1>1 DEF Notices
    <3>2. QED
      BY <3>1 DEF NoticeRow
  <2>2. PICK items \in Itemised(type) :
               notices' = Append(Supersede(n), Notice(type, items, Len(obligations) + 1))
    BY <2>0, <2>1 DEF SupersedeNotice
  <2>3. status = Waiting[type] /\ UNCHANGED status /\ n \in Published(type)
    BY <2>0, <2>1 DEF SupersedeNotice, Published
  <2>4. status = IF type = "INFORMATION" THEN "INFO_REQUIRED" ELSE "COMPLIANCE_PENDING"
    BY <2>3 DEF Waiting
  <2>5. PICK rounds : rounds = CloseNotices({n}, "SUPERSEDED")
    OBVIOUS
  <2>6. /\ \A other : other # type => Published(other)' = Published(other) \ {n}
        /\ \E k : Published(type)' = (Published(type) \ {n}) \cup {k}
    <3>1. notices' = Append(rounds, Notice(type, items, Len(obligations) + 1))
      BY <2>2, <2>5 DEF Supersede
    <3>2. QED
      BY <1>1, <2>5, <3>1, PublishedAdded, ZenonT(30)
  <2>7. CASE type = "INFORMATION"
    <3>1. Published("INFORMATION") = {n}
      BY <2>3, <2>4, <2>7 DEF RoundsGood
    <3>2. \E k : Published("INFORMATION")' = {k}
      BY <2>6, <2>7, <3>1
    <3>3. QED
      BY <2>3, <2>4, <2>7, <3>2 DEF RoundsGood
  <2>8. CASE type = "DEFICIENCY"
    <3>1. Published("INFORMATION") = {}
      BY <2>4, <2>8 DEF RoundsGood
    <3>2. Published("INFORMATION")' = {} /\ Published("DEFICIENCY")' # {}
      BY <2>6, <2>8, <3>1
    <3>3. QED
      BY <2>3, <2>4, <2>8, <3>2 DEF RoundsGood
  <2>9. QED
    BY <2>7, <2>8
<1>20. QED
  BY <1>4, <1>5, <1>6, <1>7, <1>8, <1>9, <1>10, <1>11, <1>12, <1>13, <1>14, <1>15, <1>16, <1>17,
    <1>18, <1>19 DEF Next

-----------------------------------------------------------------------------
(* What is in flight stays true. *)

\* A round with a response in flight is not closed.
LEMMA RoundStaysOpen ==
  ASSUME ClocksGood, ReleaseGood, RowsGood, FlightsGood, [Next]_vars,
         NEW u \in inflight, u.command = "SubmitResponse"
  PROVE  u.notice \in OpenNotices'
<1>1. notices \in Seq(NoticeRow) /\ findings \in Seq(FindingRow) /\ Len(obligations) \in Nat
  <2>1. obligations \in Seq(ClockRow)
    BY DEF ClocksGood, Clock!TypeOK, ClockRow
  <2>2. QED
    BY <2>1 DEF RowsGood
<1>2. u.notice \in OpenNotices /\ \A n : NoticeFree(n) => u.notice # n
  BY DEF FlightsGood, NoticeFree
<1>3. UNCHANGED notices => u.notice \in OpenNotices'
  BY <1>2 DEF OpenNotices, Published, Notices
<1>4. (\A type : Published(type)' = Published(type)) => u.notice \in OpenNotices'
  BY <1>2 DEF OpenNotices
<1>5. ASSUME NEW which, \A type : Published(type)' = Published(type) \ which,
             \A n \in which : NoticeFree(n)
      PROVE  u.notice \in OpenNotices'
  BY <1>2, <1>5 DEF OpenNotices
<1>6. CASE \/ Submit \/ StartScrutiny \/ ResolveRoutingException \/ CreateHold \/ RequireInspection
           \/ InspectionStep \/ SubmitReport \/ ReturnForClarification \/ RequireReinspection
           \/ Begin \/ Abort \/ Approve \/ Reject \/ Publish \/ UNCHANGED vars
  BY <1>3, <1>6 DEF vars, Submit, StartScrutiny, ResolveRoutingException, CreateHold, RequireInspection,
    InspectionStep, SubmitReport, ReturnForClarification, RequireReinspection, Begin, Abort, Approve,
    Reject, Publish
<1>7. CASE WithdrawApplication
  <2>1. /\ \A type : Published(type)' = Published(type) \ OpenNotices
        /\ \A n \in OpenNotices : NoticeFree(n)
    BY <1>1, <1>7, PublishedClosed DEF WithdrawApplication
  <2>2. QED
    BY <1>5, <2>1
<1>8. CASE CompleteCorrections
  <2>1. /\ \A type : Published(type)' = Published(type) \ Published("DEFICIENCY")
        /\ \A n \in Published("DEFICIENCY") : NoticeFree(n)
    BY <1>1, <1>8, PublishedClosed DEF CompleteCorrections
  <2>2. QED
    BY <1>5, <2>1
<1>9. CASE \E n \in Notices : AcceptInformation(n)
  <2>1. PICK n \in Notices : AcceptInformation(n)
    BY <1>9
  <2>2. NoticeFree(n) /\ \A type : Published(type)' = Published(type) \ {n}
    BY <1>1, <2>1, PublishedClosed DEF AcceptInformation
  <2>3. PICK which : which = {n}
    OBVIOUS
  <2>4. /\ \A type : Published(type)' = Published(type) \ which
        /\ \A k \in which : NoticeFree(k)
    BY <2>2, <2>3
  <2>5. QED
    BY <1>5, <2>4
<1>10. CASE Execute \/ Commit
  <2>1. PICK t \in Issue \cup inflight : Runs(t)
    BY <1>10, Executions
  <2>2. \A type : Published(type)' = Published(type)
    BY <1>1, <2>1, WritersAble, WriteRounds, PublishedKept DEF Runs, Able
  <2>3. QED
    BY <1>4, <2>2
<1>11. ASSUME NEW which, \A n \in which : NoticeFree(n),
              NEW type \in {"INFORMATION", "DEFICIENCY"},
              \A other : other # type => Published(other)' = Published(other) \ which,
              \E n : Published(type)' = (Published(type) \ which) \cup {n}
       PROVE  u.notice \in OpenNotices'
  <2>1. u.notice \notin which
    BY <1>2, <1>11
  <2>2. QED
    BY <1>2, <1>11, <2>1 DEF OpenNotices
<1>12. CASE \E type \in {"INFORMATION", "DEFICIENCY"} : PublishNotice(type)
  <2>1. PICK type \in {"INFORMATION", "DEFICIENCY"} : PublishNotice(type)
    BY <1>12
  <2>2. PICK items \in Itemised(type) : notices' = Append(notices, Notice(type, items, Len(obligations) + 1))
    BY <2>1 DEF PublishNotice
  <2>3. /\ \A other : other # type => Published(other)' = Published(other) \ {}
        /\ \E n : Published(type)' = (Published(type) \ {}) \cup {n}
    BY <1>1, <2>2, PublishedAdded
  <2>4. QED
    BY <1>11, <2>3
<1>13. CASE \E n \in Notices : SupersedeNotice(n)
  <2>1. PICK n \in Notices : SupersedeNotice(n)
    BY <1>13
  <2>2. PICK type \in {"INFORMATION", "DEFICIENCY"} : type = notices[n].type
    <3>1. notices[n] \in NoticeRow
      BY <1>1 DEF Notices
    <3>2. QED
      BY <3>1 DEF NoticeRow
  <2>3. PICK items \in Itemised(type) :
               notices' = Append(Supersede(n), Notice(type, items, Len(obligations) + 1))
    BY <2>1, <2>2 DEF SupersedeNotice
  <2>4. PICK rounds : rounds = CloseNotices({n}, "SUPERSEDED")
    OBVIOUS
  <2>5. notices' = Append(rounds, Notice(type, items, Len(obligations) + 1))
    BY <2>3, <2>4 DEF Supersede
  <2>6. /\ \A other : other # type => Published(other)' = Published(other) \ {n}
        /\ \E k : Published(type)' = (Published(type) \ {n}) \cup {k}
    BY <1>1, <2>4, <2>5, PublishedAdded
  <2>7. NoticeFree(n)
    BY <2>1 DEF SupersedeNotice
  <2>8. QED
    BY <1>11, <2>6, <2>7
<1>14. QED
  BY <1>6, <1>7, <1>8, <1>9, <1>10, <1>12, <1>13 DEF Next

\* A finding with a verification in flight is closed by that verification only.
LEMMA FindingStaysOpen ==
  ASSUME RowsGood, ReleaseGood, FlightsGood, [Next]_vars,
         NEW u \in inflight, u.command = "VerifyFinding", u \in inflight'
  PROVE  u.finding \in Unresolved'
<1>1. findings \in Seq(FindingRow) /\ u.finding \in Findings
      /\ findings[u.finding].state # "VERIFIED_CLOSED"
  BY DEF RowsGood, FlightsGood, Unresolved
<1>2. ASSUME u.finding \in DOMAIN findings', findings'[u.finding].state # "VERIFIED_CLOSED"
      PROVE  u.finding \in Unresolved'
  BY <1>2 DEF Unresolved, Findings
<1>3. CASE UNCHANGED findings
  BY <1>1, <1>2, <1>3 DEF Findings
<1>4. CASE SubmitReport
  <2>1. PICK failed \in SUBSET Items : findings' = Materialise(NewFindings(failed))
    BY <1>4 DEF SubmitReport
  <2>2. NewFindings(failed) \in SUBSET Items
    BY DEF NewFindings
  <2>3. u.finding \in DOMAIN findings' /\ findings'[u.finding] = findings[u.finding]
    BY <1>1, <2>1, <2>2, MaterialiseKeeps DEF SameFindings
  <2>4. QED
    BY <1>1, <1>2, <2>3
<1>5. CASE RequireReinspection
  <2>1. PICK F \in SUBSET Unresolved :
               findings' = [f \in Findings |-> IF f \in F THEN [findings[f] EXCEPT !.reinspection = TRUE]
                                               ELSE findings[f]]
    BY <1>5 DEF RequireReinspection
  <2>2. findings[u.finding] \in FindingRow
    BY <1>1 DEF Findings
  <2>3. u.finding \in DOMAIN findings' /\ findings'[u.finding].state = findings[u.finding].state
    BY <1>1, <2>1, <2>2 DEF FindingRow
  <2>4. QED
    BY <1>1, <1>2, <2>3
<1>6. CASE Execute \/ Commit
  <2>1. PICK t \in Issue \cup inflight : Runs(t)
    BY <1>6, Executions
  <2>2. Able(t) /\ (t.command = "VerifyFinding" => t.finding \in Findings)
    BY <2>1, WritersAble, WritersHold DEF Unresolved
  <2>3. t.command = "VerifyFinding" => t.finding # u.finding
    <3>1. CASE t \in Issue
      <4>1. Reads(t)
        BY <3>1, IssueReads DEF RowsGood
      <4>2. QED
        BY <4>1 DEF Reads, FindingFree
    <3>2. CASE t \notin Issue
      <4>1. t \in inflight /\ t # u
        BY <2>1, <3>2 DEF Runs
      <4>2. QED
        BY <4>1 DEF FlightsGood
    <3>3. QED
      BY <3>1, <3>2
  <2>4. u.finding \in DOMAIN findings' /\ findings'[u.finding].state # "VERIFIED_CLOSED"
    BY <1>1, <2>1, <2>2, <2>3, WriteFindings DEF Runs, Able
  <2>5. QED
    BY <1>2, <2>4
<1>7. UNCHANGED findings \/ SubmitReport \/ RequireReinspection \/ Execute \/ Commit
  BY DEF vars, Next, Submit, StartScrutiny, ResolveRoutingException, WithdrawApplication, CreateHold,
    RequireInspection, InspectionStep, ReturnForClarification, PublishNotice, SupersedeNotice,
    AcceptInformation, CompleteCorrections, Begin, Abort, Approve, Reject, Publish
<1>8. QED
  BY <1>3, <1>4, <1>5, <1>6, <1>7

\* Every step keeps what commands in flight rely on.
LEMMA FlightsFollow ==
  ASSUME ClocksGood, ReleaseGood, RowsGood, FlightsGood, [Next]_vars
  PROVE  FlightsGood'
<1>1. CASE Begin
  <2>1. PICK t \in Issue : inflight' = inflight \cup {t}
    BY <1>1 DEF Begin
  <2>2. Reads(t)
    BY <2>1, IssueReads DEF RowsGood
  <2>3. OpenNotices' = OpenNotices /\ Unresolved' = Unresolved
    BY <1>1 DEF Begin, OpenNotices, Published, Notices, Unresolved, Findings
  <2>4. /\ t.command = "SubmitResponse" => t.notice \in OpenNotices
        /\ t.command = "VerifyFinding" =>
             /\ t.finding \in Unresolved
             /\ \A u \in inflight : u.command = "VerifyFinding" => u.finding # t.finding
    BY <2>2 DEF Reads, FindingFree
  <2>5. QED
    BY <2>1, <2>3, <2>4 DEF FlightsGood
<1>2. CASE inflight' \subseteq inflight
  BY <1>2, RoundStaysOpen, FindingStaysOpen DEF FlightsGood
<1>3. QED
  BY <1>1, <1>2, OnlyBeginAdds

-----------------------------------------------------------------------------
(* Reviews and verifications in flight. *)

\* What the command that begins has read of an item and of its rounds.
ReviewReads(t) ==
  /\ t.notice \in Notices /\ t.item \in DOMAIN notices[t.notice].items
  /\ notices[t.notice].items[t.item] = "RESPONSE_RECEIVED"
  /\ notices[t.notice].state = "PUBLISHED" /\ ItemFree(t.notice, t.item)
  /\ t.reopens => t.item \in Unresolved

VerdictReads(t) == FindingFree(t.finding) /\ t.items = ItemsOf(t.finding)

\* A command that begins has read so.
LEMMA IssueReadsItems ==
  ASSUME NEW t \in Issue
  PROVE  /\ t.command = "ReviewItem" => ReviewReads(t)
         /\ t.command = "VerifyFinding" => VerdictReads(t)
<1>1. CASE \E n \in Notices : t \in SubmitResponse(n)
  BY <1>1 DEF SubmitResponse
<1>2. CASE \E n \in Notices : \E i \in DOMAIN notices[n].items : t \in ReviewItem(n, i)
  <2>0. PICK n \in Notices : \E i \in DOMAIN notices[n].items : t \in ReviewItem(n, i)
    BY <1>2
  <2>1. PICK i \in DOMAIN notices[n].items : t \in ReviewItem(n, i)
    BY <2>0
  <2>2. /\ ItemFree(n, i) /\ notices[n].state = "PUBLISHED"
        /\ notices[n].items[i] = "RESPONSE_RECEIVED"
    BY <2>1 DEF ReviewItem
  <2>3. PICK o \in {"ACCEPTED", "RETURNED"} :
               t = [command |-> "ReviewItem", notice |-> n, item |-> i, outcome |-> o,
                    reopens |-> i \in Unresolved]
    BY <2>1, <2>2 DEF ReviewItem
  <2>4. /\ t.command = "ReviewItem" /\ t.notice = n /\ t.item = i
        /\ t.reopens = (i \in Unresolved)
    BY <2>3
  <2>5. QED
    BY <2>2, <2>4 DEF ReviewReads
<1>3. CASE \E f \in Findings : t \in VerifyFinding(f)
  <2>1. PICK f \in Findings : t \in VerifyFinding(f)
    BY <1>3
  <2>2. FindingFree(f)
    BY <2>1 DEF VerifyFinding
  <2>3. t.command = "VerifyFinding" /\ t.finding = f /\ t.items = ItemsOf(f)
    BY <2>1 DEF VerifyFinding
  <2>4. QED
    BY <2>2, <2>3 DEF VerdictReads
<1>4. CASE t \in ReleaseHold
  BY <1>4 DEF ReleaseHold
<1>5. QED
  BY <1>1, <1>2, <1>3, <1>4, IssueSources

\* A step that writes no item and no verdict: rounds are closed or added, findings
\* are added or marked for a reinspection.
Quiet ==
  /\ \A n \in Notices :
       /\ n \in Notices' /\ notices'[n].type = notices[n].type /\ notices'[n].items = notices[n].items
       /\ \/ notices'[n].state = notices[n].state
          \/ /\ notices[n].state = "PUBLISHED"
             /\ \/ notices'[n].state = "SUPERSEDED"
                \/ notices'[n].state = "CANCELLED" /\ status' = "WITHDRAWN"
                \/ /\ notices'[n].state = "SATISFIED"
                   /\ notices[n].type = "INFORMATION" \/ OpenMandatory = {}
  /\ \A n \in Notices' \ Notices : \A i \in DOMAIN notices'[n].items : notices'[n].items[i] = "OPEN"
  /\ \A f \in Findings : /\ f \in Findings' /\ findings'[f].item = findings[f].item
                         /\ findings'[f].state = findings[f].state

\* A round added to those there are is all open.
LEMMA AddedOpen ==
  ASSUME findings \in Seq(FindingRow), Len(obligations) \in Nat, NEW rounds \in Seq(NoticeRow),
         DOMAIN rounds = Notices,
         NEW type \in {"INFORMATION", "DEFICIENCY"}, NEW items \in Itemised(type),
         notices' = Append(rounds, Notice(type, items, Len(obligations) + 1))
  PROVE  /\ \A k \in Notices : k \in Notices' /\ notices'[k] = rounds[k]
         /\ \A k \in Notices' \ Notices : \A i \in DOMAIN notices'[k].items : notices'[k].items[i] = "OPEN"
<1>1. items \in SUBSET Nat /\ Len(obligations) + 1 \in Nat
  BY ItemisedRows
<1> DEFINE due == Len(obligations) + 1
           new == Append(rounds, Notice(type, items, due))
           n == Len(rounds) + 1
<1>2. due \in Nat /\ notices' = new
  BY <1>1
<1> HIDE DEF due
<1>3. /\ \A k \in DOMAIN new : k # n => k \in DOMAIN rounds
      /\ \A k \in DOMAIN rounds : k \in DOMAIN new /\ new[k] = rounds[k]
  BY <1>1, <1>2, PublishKeeps
<1>4. new[n] = Notice(type, items, due)
  BY <1>2
<1>5. DOMAIN new[n].items = items /\ \A i \in items : new[n].items[i] = "OPEN"
  BY <1>4 DEF Notice
<1> HIDE DEF new, n
<1>6. QED
  BY <1>2, <1>3, <1>5 DEF Notices

\* Every step is quiet but for the writes of the commands that lock one row.
LEMMA QuietSteps ==
  ASSUME ClocksGood, RowsGood, [Next]_vars
  PROVE  Quiet \/ Execute \/ Commit
<1>1. notices \in Seq(NoticeRow) /\ findings \in Seq(FindingRow) /\ Len(obligations) \in Nat
  <2>1. obligations \in Seq(ClockRow)
    BY DEF ClocksGood, Clock!TypeOK, ClockRow
  <2>2. QED
    BY <2>1 DEF RowsGood
<1> DEFINE SameNotices == notices' = notices
           SameRows == \A f \in Findings : /\ f \in Findings' /\ findings'[f].item = findings[f].item
                                           /\ findings'[f].state = findings[f].state
<1>2. UNCHANGED findings => SameRows
  BY DEF Findings
<1>3. ASSUME UNCHANGED notices, SameRows PROVE Quiet
  BY <1>3 DEF Quiet, Notices
<1>4. ASSUME NEW which, NEW state \in {"SATISFIED", "CANCELLED"}, notices' = CloseNotices(which, state),
             \A n \in which : n \in Notices => notices[n].state = "PUBLISHED",
             \/ state = "CANCELLED" /\ status' = "WITHDRAWN"
             \/ state = "SATISFIED" /\ OpenMandatory = {}
             \/ state = "SATISFIED" /\ \A n \in which : notices[n].type = "INFORMATION",
             SameRows
      PROVE  Quiet
  <2>1. /\ DOMAIN notices' = Notices
        /\ \A n \in Notices :
             /\ notices'[n].type = notices[n].type /\ notices'[n].items = notices[n].items
             /\ notices'[n].state = IF n \in which THEN state ELSE notices[n].state
    BY <1>1, <1>4, CloseNoticesKeeps DEF SameRounds
  <2>2. Notices' = Notices
    BY <2>1 DEF Notices
  <2>3. QED
    BY <1>4, <2>1, <2>2 DEF Quiet
<1>5. ASSUME NEW rounds \in Seq(NoticeRow), DOMAIN rounds = Notices,
             \A n \in Notices :
               /\ rounds[n].type = notices[n].type /\ rounds[n].items = notices[n].items
               /\ \/ rounds[n].state = notices[n].state
                  \/ notices[n].state = "PUBLISHED" /\ rounds[n].state = "SUPERSEDED",
             NEW type \in {"INFORMATION", "DEFICIENCY"}, NEW items \in Itemised(type),
             notices' = Append(rounds, Notice(type, items, Len(obligations) + 1)), SameRows
      PROVE  Quiet
  <2>1. /\ \A k \in Notices : k \in Notices' /\ notices'[k] = rounds[k]
        /\ \A k \in Notices' \ Notices : \A i \in DOMAIN notices'[k].items : notices'[k].items[i] = "OPEN"
    BY <1>1, <1>5, AddedOpen
  <2>2. \A k \in Notices :
          /\ notices'[k].type = notices[k].type /\ notices'[k].items = notices[k].items
          /\ \/ notices'[k].state = notices[k].state
             \/ notices[k].state = "PUBLISHED" /\ notices'[k].state = "SUPERSEDED"
    BY <1>5, <2>1
  <2>3. SameRows
    BY <1>5
  <2> HIDE DEF SameNotices
  <2>4. QED
    BY <2>1, <2>2, <2>3 DEF Quiet
<1>6. CASE \/ Submit \/ StartScrutiny \/ ResolveRoutingException \/ CreateHold \/ RequireInspection
           \/ InspectionStep \/ ReturnForClarification \/ Begin \/ Abort \/ Approve \/ Reject \/ Publish
           \/ UNCHANGED vars
  <2>1. UNCHANGED <<notices, findings>>
    BY <1>6 DEF vars, Submit, StartScrutiny, ResolveRoutingException, CreateHold, RequireInspection,
      InspectionStep, ReturnForClarification, Begin, Abort, Approve, Reject, Publish
  <2>2. QED
    BY <1>2, <1>3, <2>1
<1>7. CASE WithdrawApplication
  <2>1. notices' = CloseNotices(OpenNotices, "CANCELLED") /\ UNCHANGED findings /\ Moves("Withdraw")
    BY <1>7 DEF WithdrawApplication
  <2>2. status' = "WITHDRAWN" /\ \A n \in OpenNotices : notices[n].state = "PUBLISHED"
    BY <2>1, TransitionTable DEF Turns, Moves, OpenNotices, Published
  <2>3. QED
    BY <1>2, <1>4, <2>1, <2>2
<1>8. CASE CompleteCorrections
  <2>1. /\ notices' = CloseNotices(Published("DEFICIENCY"), "SATISFIED") /\ UNCHANGED findings
        /\ OpenMandatory = {}
    BY <1>8 DEF CompleteCorrections, Corrected
  <2>2. \A n \in Published("DEFICIENCY") : notices[n].state = "PUBLISHED"
    BY DEF Published
  <2>3. QED
    BY <1>2, <1>4, <2>1, <2>2
<1>9. CASE \E n \in Notices : AcceptInformation(n)
  <2>1. PICK n \in Notices : AcceptInformation(n)
    BY <1>9
  <2>2. PICK which : which = {n}
    OBVIOUS
  <2>3. /\ notices' = CloseNotices(which, "SATISFIED") /\ UNCHANGED findings
        /\ \A k \in which : notices[k].type = "INFORMATION" /\ notices[k].state = "PUBLISHED"
    BY <2>1, <2>2 DEF AcceptInformation
  <2>4. QED
    BY <1>2, <1>4, <2>3
<1>10. CASE SubmitReport
  <2>1. PICK failed \in SUBSET Items : findings' = Materialise(NewFindings(failed))
    BY <1>10 DEF SubmitReport
  <2>2. NewFindings(failed) \in SUBSET Items
    BY DEF NewFindings
  <2>3. \A f \in Findings : f \in DOMAIN findings' /\ findings'[f] = findings[f]
    BY <1>1, <2>1, <2>2, MaterialiseKeeps DEF SameFindings
  <2>4. SameRows
    BY <2>3 DEF Findings
  <2>5. UNCHANGED notices
    BY <1>10 DEF SubmitReport
  <2>6. QED
    BY <1>3, <2>4, <2>5
<1>11. CASE RequireReinspection
  <2>1. PICK F \in SUBSET Unresolved :
               findings' = [f \in Findings |-> IF f \in F THEN [findings[f] EXCEPT !.reinspection = TRUE]
                                               ELSE findings[f]]
    BY <1>11 DEF RequireReinspection
  <2>2. ASSUME NEW f \in Findings
        PROVE  /\ f \in DOMAIN findings' /\ findings'[f].item = findings[f].item
               /\ findings'[f].state = findings[f].state
    <3>1. findings[f] \in FindingRow
      BY <1>1 DEF Findings
    <3>2. QED
      BY <2>1, <3>1 DEF FindingRow
  <2>3. SameRows
    BY <2>2 DEF Findings
  <2>4. UNCHANGED notices
    BY <1>11 DEF RequireReinspection
  <2>5. QED
    BY <1>3, <2>3, <2>4
<1>12. CASE \E type \in {"INFORMATION", "DEFICIENCY"} : PublishNotice(type)
  <2>1. PICK type \in {"INFORMATION", "DEFICIENCY"} : PublishNotice(type)
    BY <1>12
  <2>2. PICK items \in Itemised(type) :
               notices' = Append(notices, Notice(type, items, Len(obligations) + 1)) /\ UNCHANGED findings
    BY <2>1 DEF PublishNotice
  <2>3. DOMAIN notices = Notices
    BY DEF Notices
  <2>4. QED
    BY <1>1, <1>2, <1>5, <2>2, <2>3
<1>13. CASE \E n \in Notices : SupersedeNotice(n)
  <2>1. PICK n \in Notices : SupersedeNotice(n)
    BY <1>13
  <2>2. PICK type \in {"INFORMATION", "DEFICIENCY"} : type = notices[n].type
    <3>1. notices[n] \in NoticeRow
      BY <1>1 DEF Notices
    <3>2. QED
      BY <3>1 DEF NoticeRow
  <2>3. PICK rounds : rounds = CloseNotices({n}, "SUPERSEDED")
    OBVIOUS
  <2>4. PICK items \in Itemised(type) :
               notices' = Append(rounds, Notice(type, items, Len(obligations) + 1))
    BY <2>1, <2>2, <2>3 DEF SupersedeNotice, Supersede
  <2>5. UNCHANGED findings /\ notices[n].state = "PUBLISHED"
    BY <2>1 DEF SupersedeNotice
  <2>6. /\ rounds \in Seq(NoticeRow) /\ DOMAIN rounds = Notices
        /\ \A k \in Notices :
             /\ rounds[k].type = notices[k].type /\ rounds[k].items = notices[k].items
             /\ rounds[k].state = IF k \in {n} THEN "SUPERSEDED" ELSE notices[k].state
    BY <1>1, <2>3, CloseNoticesKeeps DEF SameRounds
  <2>7. \A k \in Notices :
          \/ rounds[k].state = notices[k].state
          \/ notices[k].state = "PUBLISHED" /\ rounds[k].state = "SUPERSEDED"
    BY <2>5, <2>6
  <2>8. QED
    BY <1>2, <1>5, <2>4, <2>5, <2>6, <2>7
<1>14. QED
  BY <1>6, <1>7, <1>8, <1>9, <1>10, <1>11, <1>12, <1>13 DEF Next

\* A withdrawn case stays withdrawn.
LEMMA WithdrawnStays ==
  ASSUME [Next]_vars, status = "WITHDRAWN"
  PROVE  status' = "WITHDRAWN"
BY TransitionTable, WriteFrame DEF Turns, Moves, vars, Next, Submit, StartScrutiny, ResolveRoutingException,
  WithdrawApplication, CreateHold, RequireInspection, InspectionStep, SubmitReport, ReturnForClarification,
  RequireReinspection, PublishNotice, SupersedeNotice, AcceptInformation, CompleteCorrections, Execute,
  Begin, Commit, Abort, Approve, Reject, Publish

\* What a review that reopens a finding relies on.
ReturnGood(t) ==
  /\ t.item \in Findings
  /\ notices[t.notice].type = "DEFICIENCY"
  /\ notices[t.notice].state = "PUBLISHED" => t.item \in Unresolved
  /\ notices[t.notice].state = "SATISFIED" => findings[t.item].item \notin Mandatory
  /\ notices[t.notice].state = "CANCELLED" => status = "WITHDRAWN"

ItemHeld(t) ==
  /\ t.notice \in Notices /\ t.item \in DOMAIN notices[t.notice].items
  /\ notices[t.notice].items[t.item] = "RESPONSE_RECEIVED"

\* The two halves of what reviews in flight rely on: of the rows, and of each other.
Alone(t) ==
  \A u \in inflight : u.command = "ReviewItem" /\ u.notice = t.notice /\ u.item = t.item => u = t

LEMMA ReviewsByParts ==
  ReviewsGood <=> \A t \in inflight : t.command = "ReviewItem" =>
                    ItemHeld(t) /\ Alone(t) /\ (t.reopens => ReturnGood(t))
BY DEF ReviewsGood, ItemHeld, Alone, ReturnGood

\* Quiet steps leave a review in flight what it relies on.
LEMMA QuietKeepsReview ==
  ASSUME Quiet, [Next]_vars, NEW t \in inflight, t.command = "ReviewItem", ItemHeld(t),
         t.reopens => ReturnGood(t)
  PROVE  ItemHeld(t)' /\ (t.reopens => ReturnGood(t)')
<1>1. ItemHeld(t)'
  BY DEF Quiet, ItemHeld
<1>2. ASSUME t.reopens PROVE ReturnGood(t)'
  <2>1. ReturnGood(t) /\ t.notice \in Notices
    BY <1>2 DEF ItemHeld
  <2>2. t.item \in Findings' /\ notices'[t.notice].type = "DEFICIENCY"
    BY <2>1 DEF Quiet, ReturnGood
  <2>3. ASSUME t.item \in Unresolved PROVE t.item \in Unresolved'
    BY <2>3 DEF Quiet, Unresolved
  <2>4. CASE notices'[t.notice].state = notices[t.notice].state
    BY <2>1, <2>2, <2>3, <2>4, WithdrawnStays DEF ReturnGood, Quiet
  <2>5. CASE notices'[t.notice].state = "SUPERSEDED"
    BY <2>2, <2>5 DEF ReturnGood
  <2>6. CASE notices'[t.notice].state = "CANCELLED" /\ status' = "WITHDRAWN"
    BY <2>2, <2>6 DEF ReturnGood
  <2>7. CASE /\ notices[t.notice].state = "PUBLISHED" /\ notices'[t.notice].state = "SATISFIED"
             /\ OpenMandatory = {}
    <3>1. t.item \in Unresolved /\ findings'[t.item].item = findings[t.item].item
      BY <2>1, <2>7 DEF ReturnGood, Quiet
    <3>2. findings'[t.item].item \notin Mandatory
      BY <2>7, <3>1 DEF OpenMandatory
    <3>3. QED
      BY <2>2, <2>7, <3>2 DEF ReturnGood
  <2>8. QED
    BY <2>1, <2>4, <2>5, <2>6, <2>7 DEF Quiet, ReturnGood
<1>3. QED
  BY <1>1, <1>2

\* And a verification in flight.
LEMMA QuietKeepsCover ==
  ASSUME Quiet, VerdictsCover, inflight' \subseteq inflight
  PROVE  VerdictsCover'
<1> SUFFICES ASSUME NEW t \in inflight', t.command = "VerifyFinding", NEW n \in OpenNotices',
                    t.finding \in DOMAIN notices'[n].items,
                    notices'[n].items[t.finding] = "RESPONSE_RECEIVED"
             PROVE  <<n, t.finding>> \in t.items
  BY DEF VerdictsCover
<1>1. n \in Notices' /\ notices'[n].state = "PUBLISHED"
      /\ notices'[n].type \in {"INFORMATION", "DEFICIENCY"}
  BY DEF OpenNotices, Published
<1>2. n \in Notices
  BY <1>1 DEF Quiet
<1>3. /\ notices'[n].type = notices[n].type /\ notices'[n].items = notices[n].items
      /\ notices[n].state = "PUBLISHED"
  BY <1>1, <1>2 DEF Quiet
<1>4. n \in OpenNotices
  BY <1>1, <1>2, <1>3 DEF OpenNotices, Published
<1>5. QED
  BY <1>3, <1>4 DEF VerdictsCover

\* The items a write sets: those of a response, of a reviewed item, of a verdict.
Pairs(t) ==
  CASE t.command = "SubmitResponse" -> {t.notice} \X t.items
    [] t.command = "ReviewItem" -> {<<t.notice, t.item>>}
    [] t.command = "VerifyFinding" -> IF t.outcome = "REINSPECTION_REQUIRED" THEN {} ELSE t.items
    [] OTHER -> {}

\* A write sets those items and no other, and waits for the items that a response
\* or a verdict sets; only a response makes an item wait for its review.
LEMMA WriteItems ==
  ASSUME notices \in Seq(NoticeRow), NEW t, Able(t), Write(t)
  PROVE  /\ Notices' = Notices
         /\ \A n \in Notices :
              /\ notices'[n].type = notices[n].type /\ notices'[n].state = notices[n].state
              /\ DOMAIN notices'[n].items = DOMAIN notices[n].items
              /\ \A i \in DOMAIN notices[n].items :
                   /\ <<n, i>> \notin Pairs(t) => notices'[n].items[i] = notices[n].items[i]
                   /\ notices'[n].items[i] = "RESPONSE_RECEIVED" =>
                        \/ notices[n].items[i] = "RESPONSE_RECEIVED"
                        \/ t.command = "SubmitResponse" /\ i \in t.items
         /\ t.command # "ReviewItem" => \A n, i : <<n, i>> \in Pairs(t) => ItemFree(n, i)
<1> DEFINE Result(pairs, state) ==
             /\ Notices' = Notices
             /\ \A n \in Notices :
                  /\ notices'[n].type = notices[n].type /\ notices'[n].state = notices[n].state
                  /\ DOMAIN notices'[n].items = DOMAIN notices[n].items
                  /\ \A i \in DOMAIN notices[n].items :
                       notices'[n].items[i] = IF <<n, i>> \in pairs THEN state ELSE notices[n].items[i]
<1>1. ASSUME NEW pairs, NEW state \in ItemState, notices' = SetItems(pairs, state)
      PROVE  Result(pairs, state)
  <2>1. /\ DOMAIN notices' = Notices
        /\ \A n \in Notices :
             /\ notices'[n].type = notices[n].type /\ notices'[n].state = notices[n].state
             /\ DOMAIN notices'[n].items = DOMAIN notices[n].items
             /\ \A i \in DOMAIN notices[n].items :
                  notices'[n].items[i] = IF <<n, i>> \in pairs THEN state ELSE notices[n].items[i]
    BY <1>1, SetItemsKeeps DEF SameRounds
  <2>2. Notices' = Notices
    BY <2>1 DEF Notices
  <2>3. QED
    BY <2>1, <2>2
<1>2. ASSUME UNCHANGED notices PROVE Result({}, "OPEN")
  BY <1>2 DEF Notices
<1>3. "RESPONSE_RECEIVED" \in ItemState /\ "ACCEPTED" \in ItemState /\ "RETURNED" \in ItemState
  BY DEF ItemState
<1>4. CASE t.command = "SubmitResponse"
  <2>1. PICK pairs : pairs = {t.notice} \X t.items
    OBVIOUS
  <2>2. \A n, i : <<n, i>> \in {t.notice} \X t.items => n = t.notice /\ i \in t.items
    OBVIOUS
  <2>3. \A n, i : <<n, i>> \in pairs => n = t.notice /\ i \in t.items
    BY <2>1, <2>2
  <2>4. Pairs(t) = pairs
    BY <1>4, <2>1 DEF Pairs
  <2>5. notices' = SetItems(pairs, "RESPONSE_RECEIVED") /\ \A i \in t.items : ItemFree(t.notice, i)
    BY <1>4, <2>1 DEF Write, Respond
  <2>6. Result(pairs, "RESPONSE_RECEIVED")
    BY <1>1, <1>3, <2>5
  <2>7. \A n, i : <<n, i>> \in Pairs(t) => ItemFree(n, i)
    BY <2>3, <2>4, <2>5
  <2> HIDE DEF Result
  <2>8. \A n \in Notices : \A i \in DOMAIN notices[n].items :
          /\ <<n, i>> \notin Pairs(t) => notices'[n].items[i] = notices[n].items[i]
          /\ notices'[n].items[i] = "RESPONSE_RECEIVED" =>
               notices[n].items[i] = "RESPONSE_RECEIVED" \/ i \in t.items
    BY <2>3, <2>4, <2>6 DEF Result
  <2>9. QED
    BY <1>4, <2>6, <2>7, <2>8 DEF Result
<1>5. CASE t.command = "ReviewItem"
  <2>1. PICK pairs : pairs = {<<t.notice, t.item>>}
    OBVIOUS
  <2>2. Pairs(t) = pairs /\ notices' = SetItems(pairs, t.outcome) /\ t.outcome \in {"ACCEPTED", "RETURNED"}
    BY <1>5, <2>1 DEF Pairs, Write, Review, Able
  <2>3. Result(pairs, t.outcome)
    BY <1>1, <1>3, <2>2
  <2>4. QED
    BY <1>5, <2>2, <2>3
<1>6. CASE t.command = "VerifyFinding"
  <2>1. Verify(t)
    BY <1>6 DEF Write
  <2>2. CASE t.outcome = "REINSPECTION_REQUIRED"
    <3>1. Pairs(t) = {} /\ UNCHANGED notices
      BY <1>6, <2>1, <2>2 DEF Pairs, Verify
    <3>2. QED
      BY <1>2, <3>1
  <2>3. CASE t.outcome # "REINSPECTION_REQUIRED"
    <3>1. PICK state \in {"ACCEPTED", "RETURNED"} : notices' = SetItems(t.items, state)
      BY <2>1, <2>3 DEF Verify
    <3>2. Pairs(t) = t.items /\ \A p \in t.items : ItemFree(p[1], p[2])
      BY <1>6, <2>1, <2>3 DEF Pairs, Verify
    <3>3. \A n, i : <<n, i>> \in t.items => ItemFree(n, i)
      <4> SUFFICES ASSUME NEW n, NEW i, <<n, i>> \in t.items PROVE ItemFree(n, i)
        OBVIOUS
      <4>1. ItemFree(<<n, i>>[1], <<n, i>>[2])
        BY <3>2
      <4>2. QED
        BY <4>1
    <3>4. Result(t.items, state)
      BY <1>1, <1>3, <3>1
    <3>5. QED
      BY <3>1, <3>2, <3>3, <3>4
  <2>4. QED
    BY <2>2, <2>3
<1>7. CASE t.command = "ReleaseHold"
  <2>1. Pairs(t) = {} /\ UNCHANGED notices
    BY <1>7 DEF Pairs, Write
  <2>2. QED
    BY <1>2, <2>1
<1>8. QED
  BY <1>4, <1>5, <1>6, <1>7 DEF Able, RowCommands

\* A write leaves alone the items of the reviews that stay in flight.
LEMMA WriteMissesReview ==
  ASSUME RowsGood, ReleaseGood, ReviewsGood, NEW t \in Issue \cup inflight, Runs(t),
         NEW r \in inflight', r.command = "ReviewItem"
  PROVE  <<r.notice, r.item>> \notin Pairs(t)
<1>1. Able(t) /\ Write(t) /\ notices \in Seq(NoticeRow) /\ r \in inflight
  BY WritersAble DEF Runs, RowsGood
<1>2. ~ItemFree(r.notice, r.item)
  BY <1>1 DEF ItemFree
<1>3. CASE t.command # "ReviewItem"
  BY <1>1, <1>2, <1>3, WriteItems
<1>4. CASE t.command = "ReviewItem"
  <2>1. Pairs(t) = {<<t.notice, t.item>>}
    BY <1>4 DEF Pairs
  <2>2. CASE t \in Issue
    <3>1. ItemFree(t.notice, t.item)
      BY <1>4, <2>2, IssueReadsItems DEF ReviewReads
    <3>2. QED
      BY <1>2, <2>1, <3>1
  <2>3. CASE t \notin Issue
    <3>1. t \in inflight /\ r # t
      BY <2>3 DEF Runs
    <3>2. ~(r.notice = t.notice /\ r.item = t.item)
      BY <1>1, <1>4, <3>1 DEF ReviewsGood
    <3>3. QED
      BY <2>1, <3>2
  <2>4. QED
    BY <2>2, <2>3
<1>5. QED
  BY <1>3, <1>4

\* A verdict that closes a finding waits for the review of its item.
LEMMA VerdictWaits ==
  ASSUME RowsGood, ReleaseGood, FlightsGood, ReviewsGood, VerdictsCover,
         NEW t \in Issue \cup inflight, Runs(t), t.command = "VerifyFinding",
         NEW r \in inflight', r.command = "ReviewItem", r.reopens, notices[r.notice].state = "PUBLISHED",
         r.item = t.finding, t.outcome # "REINSPECTION_REQUIRED"
  PROVE  FALSE
<1>1. r \in inflight
  BY DEF Runs
<1>2. /\ r.notice \in Notices /\ r.item \in DOMAIN notices[r.notice].items
      /\ notices[r.notice].items[r.item] = "RESPONSE_RECEIVED"
      /\ notices[r.notice].type = "DEFICIENCY"
  BY <1>1 DEF ReviewsGood
<1>3. r.notice \in OpenNotices
  BY <1>2 DEF OpenNotices, Published
<1>4. <<r.notice, r.item>> \in t.items
  <2>1. CASE t \in Issue
    <3>1. t.items = ItemsOf(t.finding)
      BY <2>1, IssueReadsItems DEF VerdictReads
    <3>2. QED
      BY <1>2, <1>3, <3>1 DEF ItemsOf
  <2>2. CASE t \in inflight
    BY <1>2, <1>3, <2>2 DEF VerdictsCover
  <2>3. QED
    BY <2>1, <2>2
<1>5. Pairs(t) = t.items
  BY DEF Pairs
<1>6. QED
  BY <1>4, <1>5, WriteMissesReview

\* A write leaves a review in flight what it relies on.
LEMMA WriteKeepsReview ==
  ASSUME RowsGood, ReleaseGood, FlightsGood, ReviewsGood, VerdictsCover,
         NEW t \in Issue \cup inflight, Runs(t),
         NEW r \in inflight', r.command = "ReviewItem"
  PROVE  ItemHeld(r)' /\ (r.reopens => ReturnGood(r)')
<1>1. /\ Able(t) /\ Write(t) /\ r \in inflight
      /\ notices \in Seq(NoticeRow) /\ findings \in Seq(FindingRow)
      /\ t.command = "VerifyFinding" => t.finding \in Findings
  BY WritersAble, WritersHold DEF Runs, RowsGood, Unresolved
<1>2. ItemHeld(r) /\ (r.reopens => ReturnGood(r))
  BY <1>1, ReviewsByParts
<1>3. /\ r.notice \in Notices' /\ notices'[r.notice].type = notices[r.notice].type
      /\ notices'[r.notice].state = notices[r.notice].state
      /\ r.item \in DOMAIN notices'[r.notice].items
      /\ notices'[r.notice].items[r.item] = "RESPONSE_RECEIVED"
  <2>1. <<r.notice, r.item>> \notin Pairs(t)
    BY WriteMissesReview
  <2>2. /\ r.notice \in Notices /\ r.item \in DOMAIN notices[r.notice].items
        /\ notices[r.notice].items[r.item] = "RESPONSE_RECEIVED"
    BY <1>2 DEF ItemHeld
  <2>3. /\ Notices' = Notices
        /\ \A n \in Notices :
             /\ notices'[n].type = notices[n].type /\ notices'[n].state = notices[n].state
             /\ DOMAIN notices'[n].items = DOMAIN notices[n].items
             /\ \A i \in DOMAIN notices[n].items :
                  <<n, i>> \notin Pairs(t) => notices'[n].items[i] = notices[n].items[i]
    BY <1>1, WriteItems
  <2>4. QED
    BY <2>1, <2>2, <2>3
<1>4. ItemHeld(r)'
  BY <1>3 DEF ItemHeld
<1>5. ASSUME r.reopens PROVE ReturnGood(r)'
  <2>1. ReturnGood(r)
    BY <1>2, <1>5
  <2>2. /\ SameFindings(findings') /\ DOMAIN findings' = Findings
        /\ \A f \in Findings : \/ t.command = "VerifyFinding" /\ f = t.finding
                               \/ findings'[f].state = "VERIFIED_CLOSED" => findings[f].state = "VERIFIED_CLOSED"
    BY <1>1, WriteFindings DEF Able
  <2>3. /\ r.item \in Findings' /\ findings'[r.item].item = findings[r.item].item
        /\ UNCHANGED status
    BY <1>1, <2>1, <2>2, WriteFrame DEF ReturnGood, SameFindings, Findings
  <2>4. ASSUME notices[r.notice].state = "PUBLISHED" PROVE r.item \in Unresolved'
    <3>1. r.item \in Unresolved
      BY <2>1, <2>4 DEF ReturnGood
    <3>2. CASE ~(t.command = "VerifyFinding" /\ r.item = t.finding)
      BY <2>2, <2>3, <3>1, <3>2 DEF Unresolved, Findings
    <3>3. CASE t.command = "VerifyFinding" /\ r.item = t.finding
      <4>1. t.outcome = "REINSPECTION_REQUIRED"
        BY <1>5, <2>4, <3>3, VerdictWaits
      <4>2. findings' = [findings EXCEPT ![t.finding] = Verdict(findings[t.finding], t.outcome)]
        BY <1>1, <3>3 DEF Write, Verify
      <4>3. findings'[t.finding].state = findings[t.finding].state
        BY <1>1, <3>3, <4>1, <4>2 DEF Verdict, Findings
      <4>4. QED
        BY <2>3, <3>1, <3>3, <4>3 DEF Unresolved
    <3>4. QED
      BY <3>2, <3>3
  <2>5. QED
    BY <1>3, <2>1, <2>3, <2>4 DEF ReturnGood
<1>6. QED
  BY <1>4, <1>5

\* And a verification in flight.
LEMMA WriteKeepsCover ==
  ASSUME RowsGood, ReleaseGood, VerdictsCover, NEW t \in Issue \cup inflight, Runs(t)
  PROVE  VerdictsCover'
<1>1. Able(t) /\ Write(t) /\ notices \in Seq(NoticeRow)
  BY WritersAble DEF Runs, RowsGood
<1> SUFFICES ASSUME NEW v \in inflight', v.command = "VerifyFinding", NEW n \in OpenNotices',
                    v.finding \in DOMAIN notices'[n].items,
                    notices'[n].items[v.finding] = "RESPONSE_RECEIVED"
             PROVE  <<n, v.finding>> \in v.items
  BY DEF VerdictsCover
<1>2. v \in inflight
  BY DEF Runs
<1>3. /\ n \in Notices /\ n \in OpenNotices /\ v.finding \in DOMAIN notices[n].items
      /\ \/ notices[n].items[v.finding] = "RESPONSE_RECEIVED"
         \/ t.command = "SubmitResponse" /\ v.finding \in t.items
  <2>1. n \in Notices' /\ notices'[n].state = "PUBLISHED"
        /\ notices'[n].type \in {"INFORMATION", "DEFICIENCY"}
    BY DEF OpenNotices, Published
  <2>2. n \in Notices
    BY <1>1, <2>1, WriteItems
  <2>3. /\ notices'[n].type = notices[n].type /\ notices'[n].state = notices[n].state
        /\ DOMAIN notices'[n].items = DOMAIN notices[n].items
    BY <1>1, <2>2, WriteItems
  <2>4. v.finding \in DOMAIN notices[n].items
    BY <2>3
  <2>5. notices'[n].items[v.finding] = "RESPONSE_RECEIVED" =>
          \/ notices[n].items[v.finding] = "RESPONSE_RECEIVED"
          \/ t.command = "SubmitResponse" /\ v.finding \in t.items
    <3>1. \A m \in Notices : \A i \in DOMAIN notices[m].items :
            notices'[m].items[i] = "RESPONSE_RECEIVED" =>
              \/ notices[m].items[i] = "RESPONSE_RECEIVED"
              \/ t.command = "SubmitResponse" /\ i \in t.items
      BY <1>1, WriteItems
    <3>2. QED
      BY <2>2, <2>4, <3>1
  <2>6. n \in OpenNotices
    BY <2>1, <2>2, <2>3 DEF OpenNotices, Published
  <2>7. QED
    BY <2>2, <2>4, <2>5, <2>6
<1>4. ~(t.command = "SubmitResponse" /\ v.finding \in t.items)
  BY <1>1, <1>2 DEF Write, Respond, FindingFree
<1>5. QED
  BY <1>2, <1>3, <1>4 DEF VerdictsCover

\* Every step keeps what reviews and verifications in flight rely on.
LEMMA LateFollow ==
  ASSUME ClocksGood, RowsGood, ReleaseGood, FlightsGood, ReviewsGood, VerdictsCover, [Next]_vars
  PROVE  ReviewsGood' /\ VerdictsCover'
<1>1. CASE Begin
  <2>1. PICK t \in Issue : inflight' = inflight \cup {t}
    BY <1>1 DEF Begin
  <2>2. UNCHANGED <<notices, findings, status>>
    BY <1>1 DEF Begin
  <2>3. /\ t.command = "ReviewItem" => ReviewReads(t)
        /\ t.command = "VerifyFinding" => VerdictReads(t)
    BY <2>1, IssueReadsItems
  <2>4. ReviewsGood'
    <3>1. ASSUME t.command = "ReviewItem"
          PROVE  /\ ItemHeld(t) /\ (t.reopens => ReturnGood(t))
                 /\ \A u \in inflight : ~(u.command = "ReviewItem" /\ u.notice = t.notice /\ u.item = t.item)
      <4>1. ReviewReads(t)
        BY <2>3, <3>1
      <4>2. \A u \in inflight : ~(u.command = "ReviewItem" /\ u.notice = t.notice /\ u.item = t.item)
        BY <4>1 DEF ReviewReads, ItemFree
      <4>3. ItemHeld(t)
        BY <4>1 DEF ReviewReads, ItemHeld
      <4>4. ASSUME t.reopens PROVE ReturnGood(t)
        <5>1. t.item \in Unresolved /\ t.item \in Findings /\ t.item # 0
          BY <4>1, <4>4 DEF ReviewReads, Unresolved, Findings, RowsGood
        <5>2. notices[t.notice] \in NoticeRow
          BY <4>1 DEF ReviewReads, RowsGood, Notices
        <5>3. notices[t.notice].type \in {"INFORMATION", "DEFICIENCY"}
          BY <5>2 DEF NoticeRow
        <5>4. notices[t.notice].type # "INFORMATION"
          BY <4>1, <5>1 DEF ReviewReads, RowsGood, Completeness
        <5>5. QED
          BY <4>1, <5>1, <5>3, <5>4 DEF ReturnGood, ReviewReads
      <4>5. QED
        BY <4>2, <4>3, <4>4
    <3>2. \A r : /\ ItemHeld(r) => ItemHeld(r)'
                 /\ ReturnGood(r) => ReturnGood(r)'
      BY <2>2 DEF ItemHeld, ReturnGood, Notices, Findings, Unresolved
    <3>3. ASSUME NEW r \in inflight', r.command = "ReviewItem"
          PROVE  ItemHeld(r)' /\ Alone(r)' /\ (r.reopens => ReturnGood(r)')
      <4>1. CASE r = t
        BY <2>1, <3>1, <3>2, <3>3, <4>1 DEF Alone
      <4>2. CASE r # t
        <5>1. r \in inflight
          BY <2>1, <4>2
        <5>2. ItemHeld(r) /\ Alone(r) /\ (r.reopens => ReturnGood(r))
          BY <3>3, <5>1, ReviewsByParts
        <5>3. Alone(r)'
          BY <2>1, <3>1, <3>3, <5>1, <5>2 DEF Alone
        <5>4. QED
          BY <3>2, <5>2, <5>3
      <4>3. QED
        BY <4>1, <4>2
    <3>4. QED
      BY <3>3 DEF ReviewsGood, ItemHeld, Alone, ReturnGood
  <2>5. VerdictsCover'
    <3>1. OpenNotices' = OpenNotices
      BY <2>2 DEF OpenNotices, Published, Notices
    <3>2. ASSUME t.command = "VerifyFinding", NEW n \in OpenNotices,
                 t.finding \in DOMAIN notices[n].items,
                 notices[n].items[t.finding] = "RESPONSE_RECEIVED"
          PROVE  <<n, t.finding>> \in t.items
      BY <2>3, <3>2 DEF VerdictReads, ItemsOf
    <3>3. QED
      BY <2>1, <2>2, <3>1, <3>2 DEF VerdictsCover
  <2>6. QED
    BY <2>4, <2>5
<1>2. ASSUME inflight' \subseteq inflight,
             \A r \in inflight' : r.command = "ReviewItem" =>
               ItemHeld(r)' /\ (r.reopens => ReturnGood(r)')
      PROVE  ReviewsGood'
  <2>1. \A r \in inflight' : r.command = "ReviewItem" => Alone(r)'
    BY <1>2 DEF ReviewsGood, Alone
  <2>2. QED
    BY <1>2, <2>1 DEF ReviewsGood, ItemHeld, Alone, ReturnGood
<1>3. CASE Quiet /\ inflight' \subseteq inflight
  <2>1. \A r \in inflight' : r.command = "ReviewItem" =>
          ItemHeld(r)' /\ (r.reopens => ReturnGood(r)')
    BY <1>3, QuietKeepsReview, ReviewsByParts
  <2>2. QED
    BY <1>2, <1>3, <2>1, QuietKeepsCover
<1>4. CASE Execute \/ Commit
  <2>1. PICK t \in Issue \cup inflight : Runs(t)
    BY <1>4, Executions
  <2>2. inflight' \subseteq inflight
    BY <2>1 DEF Runs
  <2>3. \A r \in inflight' : r.command = "ReviewItem" =>
          ItemHeld(r)' /\ (r.reopens => ReturnGood(r)')
    BY <2>1, WriteKeepsReview
  <2>4. QED
    BY <1>2, <2>1, <2>2, <2>3, WriteKeepsCover
<1>5. QED
  BY <1>1, <1>3, <1>4, QuietSteps, OnlyBeginAdds

-----------------------------------------------------------------------------
(* The approval. *)

\* Every step keeps a decided case routed, its report eligible and its rounds closed.
LEMMA ApprovalFollows ==
  ASSUME RowsGood, ReleaseGood, FlightsGood, ApprovalGood, [Next]_vars
  PROVE  ApprovalGood'
<1> SUFFICES ASSUME status' \in Approved
             PROVE  ~routing' /\ report' = "ELIGIBLE" /\ OpenNotices' = {}
  BY DEF ApprovalGood
<1>1. UNCHANGED notices => OpenNotices' = OpenNotices
  BY DEF OpenNotices, Published, Notices
<1> USE TransitionTable DEF Turns, Moves, Approved
<1>2. CASE Approve
  BY <1>1, <1>2 DEF Approve, Ready
<1>3. CASE Publish
  BY <1>1, <1>3 DEF Publish, ApprovalGood
<1>4. CASE ResolveRoutingException \/ CreateHold \/ InspectionStep \/ Begin \/ Abort \/ UNCHANGED vars
  BY <1>1, <1>4 DEF ResolveRoutingException, CreateHold, InspectionStep, Begin, Abort, vars, ApprovalGood
<1>5. CASE Execute \/ Commit
  <2>1. PICK t \in Issue \cup inflight : Runs(t)
    BY <1>5, Executions
  <2>2. Write(t) /\ UNCHANGED <<status, report, routing>> /\ Able(t) /\ notices \in Seq(NoticeRow)
    BY <2>1, WritersAble DEF Runs, Write, RowsGood
  <2>3. ~routing /\ report = "ELIGIBLE" /\ OpenNotices = {}
    BY <2>2 DEF ApprovalGood
  <2>4. \A type : Published(type)' = Published(type)
    BY <2>2, WriteRounds, PublishedKept DEF Able
  <2>5. OpenNotices' = {}
    BY <2>3, <2>4 DEF OpenNotices
  <2>6. QED
    BY <2>2, <2>3, <2>5
<1>6. CASE \E n \in Notices : SupersedeNotice(n)
  <2>1. PICK n \in Notices : SupersedeNotice(n)
    BY <1>6
  <2>2. notices[n].type \in {"INFORMATION", "DEFICIENCY"}
    <3>1. notices[n] \in NoticeRow
      BY DEF Notices, RowsGood
    <3>2. QED
      BY <3>1 DEF NoticeRow
  <2>3. QED
    BY <2>1, <2>2 DEF SupersedeNotice, Waiting
<1>7. ~ (\/ Submit \/ StartScrutiny \/ WithdrawApplication \/ RequireInspection \/ SubmitReport
         \/ ReturnForClarification \/ RequireReinspection \/ CompleteCorrections \/ Reject
         \/ (\E n \in Notices : AcceptInformation(n))
         \/ (\E type \in {"INFORMATION", "DEFICIENCY"} : PublishNotice(type)))
  BY DEF Submit, StartScrutiny, WithdrawApplication, RequireInspection, SubmitReport,
    ReturnForClarification, RequireReinspection, CompleteCorrections, Reject, AcceptInformation, PublishNotice
<1>8. QED
  BY <1>2, <1>3, <1>4, <1>5, <1>6, <1>7 DEF Next

\* Of a decided case, a write opens no mandatory finding but one that a late
\* return of a superseded round had read.
LEMMA ApprovedWrites ==
  ASSUME RowsGood, ReleaseGood, FlightsGood, ReviewsGood, ApprovalGood, status \in Approved,
         NEW t \in Issue \cup inflight, Runs(t), NEW f \in OpenMandatory', f \notin OpenMandatory
  PROVE  t \in LateReturns \ inflight' /\ t.item = f
<1>1. /\ Able(t) /\ Write(t) /\ notices \in Seq(NoticeRow) /\ findings \in Seq(FindingRow)
      /\ t.command = "VerifyFinding" => t.finding \in Unresolved
      /\ t.command = "SubmitResponse" => t.notice \in OpenNotices
  BY WritersAble, WritersHold DEF Runs, RowsGood
<1>2. OpenNotices = {} /\ t.command # "SubmitResponse"
  BY <1>1 DEF ApprovalGood
<1>3. /\ SameFindings(findings') /\ DOMAIN findings' = Findings
      /\ t.command \in {"VerifyFinding", "ReleaseHold"} =>
           \A g \in Findings : \/ t.command = "VerifyFinding" /\ g = t.finding
                               \/ findings'[g] = findings[g]
  BY <1>1, WriteFindings DEF Able, Unresolved
<1>4. f \in Findings /\ findings'[f].item \in Mandatory /\ findings'[f].state # "VERIFIED_CLOSED"
  BY <1>3 DEF OpenMandatory, Unresolved, Findings
<1>5. findings[f].item \in Mandatory
  BY <1>3, <1>4 DEF SameFindings
<1>6. f \notin Unresolved
  BY <1>5 DEF OpenMandatory
<1>7. findings'[f] # findings[f]
  BY <1>4, <1>6 DEF Unresolved
<1>8. t.command = "ReviewItem"
  <2>1. t.command \notin {"VerifyFinding", "ReleaseHold"}
    BY <1>1, <1>3, <1>4, <1>6, <1>7
  <2>2. QED
    BY <1>1, <1>2, <2>1 DEF Able, RowCommands
<1>9. /\ t.outcome = "RETURNED" /\ t.reopens /\ findings' = SetFindings({t.item}, "OPEN")
  BY <1>1, <1>7, <1>8 DEF Write, Review
<1>10. f = t.item
  <2>1. \A g \in Findings : findings'[g].state = IF g \in {t.item} THEN "OPEN" ELSE findings[g].state
    BY <1>1, <1>9, SetFindingsKeeps
  <2>2. QED
    BY <1>4, <1>6, <2>1 DEF Unresolved
<1>11. t \notin Issue
  <2>1. ASSUME t \in Issue PROVE FALSE
    <3>1. Reads(t)
      BY <1>1, <2>1, IssueReads
    <3>2. QED
      BY <1>2, <1>8, <3>1 DEF Reads
  <2>2. QED
    BY <2>1
<1>12. t \in inflight /\ t \notin inflight'
  BY <1>11 DEF Runs
<1>13. /\ t.notice \in Notices /\ notices[t.notice].type = "DEFICIENCY"
       /\ notices[t.notice].state = "PUBLISHED" => t.item \in Unresolved
       /\ notices[t.notice].state = "SATISFIED" => findings[t.item].item \notin Mandatory
       /\ notices[t.notice].state = "CANCELLED" => status = "WITHDRAWN"
  BY <1>8, <1>9, <1>12 DEF ReviewsGood
<1>14. notices[t.notice].state \in {"PUBLISHED", "SATISFIED", "SUPERSEDED", "CANCELLED"}
  <2>1. notices[t.notice] \in NoticeRow
    BY <1>1, <1>13 DEF Notices
  <2>2. QED
    BY <2>1 DEF NoticeRow
<1>15. notices[t.notice].state = "SUPERSEDED"
  BY <1>5, <1>6, <1>10, <1>13, <1>14 DEF Approved
<1>16. QED
  BY <1>8, <1>9, <1>10, <1>12, <1>15 DEF LateReturns

\* No other step of a decided case changes a finding.
LEMMA ApprovedSteps ==
  ASSUME [Next]_vars, status \in Approved
  PROVE  UNCHANGED findings \/ Execute \/ Commit
<1>1. ~(SubmitReport \/ RequireReinspection)
  BY TransitionTable DEF Turns, Moves, Approved, SubmitReport, RequireReinspection
<1>2. QED
  BY <1>1 DEF vars, Next, Submit, StartScrutiny, ResolveRoutingException, WithdrawApplication, CreateHold,
    RequireInspection, InspectionStep, ReturnForClarification, PublishNotice, SupersedeNotice,
    AcceptInformation, CompleteCorrections, Begin, Abort, Approve, Reject, Publish

\* What is open of a case when it is approved, and what may be later.
LEMMA ApprovedFindings ==
  ASSUME RowsGood, ReleaseGood, FlightsGood, ReviewsGood, ApprovalGood, [Next]_vars, status' \in Approved
  PROVE  IF status \in Approved
           THEN OpenMandatory' \subseteq OpenMandatory \cup {t.item : t \in LateReturns \ inflight'}
           ELSE OpenMandatory' = {} /\ Outstanding' = {}
<1>1. UNCHANGED findings => OpenMandatory' = OpenMandatory /\ Outstanding' = Outstanding
  BY DEF OpenMandatory, Outstanding, Unresolved, Findings
<1>2. CASE status \in Approved
  <2>1. CASE UNCHANGED findings
    BY <1>1, <1>2, <2>1
  <2>2. CASE Execute \/ Commit
    <3>1. PICK t \in Issue \cup inflight : Runs(t)
      BY <2>2, Executions
    <3>2. ASSUME NEW f \in OpenMandatory', f \notin OpenMandatory
          PROVE  t \in LateReturns \ inflight' /\ t.item = f
      BY <1>2, <3>1, <3>2, ApprovedWrites
    <3>3. QED
      BY <1>2, <3>2
  <2>3. QED
    BY <1>2, <2>1, <2>2, ApprovedSteps
<1>3. CASE status \notin Approved
  <2>1. Approve
    BY <1>3, TransitionTable, WriteFrame DEF Turns, Moves, Approved, vars, Next, Submit, StartScrutiny,
      ResolveRoutingException, WithdrawApplication, CreateHold, RequireInspection, InspectionStep,
      SubmitReport, ReturnForClarification, RequireReinspection, PublishNotice, SupersedeNotice,
      AcceptInformation, CompleteCorrections, Execute, Begin, Commit, Abort, Reject, Publish
  <2>2. QED
    BY <1>1, <1>3, <2>1 DEF Approve, Ready
<1>4. QED
  BY <1>2, <1>3

-----------------------------------------------------------------------------
(* The theorems. *)

IInv ==
  /\ VisitsGood /\ OneVisit
  /\ ClocksGood /\ ReleaseGood
  /\ RowsGood /\ RoundsGood /\ FlightsGood
  /\ ReviewsGood /\ VerdictsCover /\ ApprovalGood

\* The invariant holds when the draft is created.
LEMMA InitIInv == Init => IInv
<1> SUFFICES ASSUME Init PROVE IInv
  OBVIOUS
<1> USE DEF Init, Visit!Init, Clock!Init
<1>1. VisitsGood
  BY CaseAssumption DEF CaseAssumption, VisitsGood, Visit!TypeOK, Visit!AssignmentFollowsAttempt, Visit!Visits
<1>2. OneVisit
  BY DEF OneVisit, Visit!OpenAttempts, Visit!InStatus, Visit!Visits
<1>3. ClocksGood
  <2>1. Clock!TypeOK /\ ~hold.active
    BY CaseAssumption DEF CaseAssumption, Clock!TypeOK, Clock!NoHold
  <2>2. ClockStopsOnlyOnHold
    BY DEF ClockStopsOnlyOnHold, Clock!ClockStopsOnlyOnHold, Clock!InState
  <2>3. StageHasClock
    BY DEF StageHasClock, TaskOf
  <2>4. QED
    BY <2>1, <2>2, <2>3 DEF ClocksGood, Notices
<1>4. ReleaseGood /\ FlightsGood
  BY DEF ReleaseGood, FlightsGood
<1>5. RowsGood
  <2>1. findings \in Seq(FindingRow) /\ notices \in Seq(NoticeRow) /\ DOMAIN notices = {}
    OBVIOUS
  <2>2. QED
    BY <2>1 DEF RowsGood, Notices
<1>6. RoundsGood /\ ReviewsGood /\ VerdictsCover /\ ApprovalGood
  BY DEF RoundsGood, Published, Notices, ReviewsGood, VerdictsCover, ApprovalGood, Approved
<1>7. QED
  BY <1>1, <1>2, <1>3, <1>4, <1>5, <1>6 DEF IInv

\* Every step keeps it.
LEMMA StepIInv == IInv /\ [Next]_vars => IInv'
BY VisitsFollow, ClocksFollow, ReleaseFollows, RowsFollow, RoundsFollow, FlightsFollow, LateFollow,
  ApprovalFollows DEF IInv

\* Visits, clocks, rounds and the commands in flight agree in every reachable state
\* of a case (agni.cases, inspections, notices): the invariant the theorems below rest on.
THEOREM Invariance == Spec => []IInv
BY InitIInv, StepIInv, PTL DEF Spec

\* Every row keeps to its columns, and what refers to a row refers to one that exists.
THEOREM TypeCorrect == Spec => []TypeOK
<1>1. IInv => TypeOK
  <2> SUFFICES ASSUME IInv PROVE TypeOK
    OBVIOUS
  <2>1. findings \in Seq([item: Items, state: {"OPEN", "RESPONSE_RECEIVED", "VERIFIED_CLOSED"},
                          reinspection: BOOLEAN])
    BY DEF IInv, RowsGood, FindingRow
  <2>2. ASSUME NEW n \in Notices
        PROVE  /\ notices[n].state \in {"PUBLISHED", "SATISFIED", "SUPERSEDED", "CANCELLED"}
               /\ notices[n].due \in DOMAIN obligations
               /\ \A i \in DOMAIN notices[n].items :
                    /\ notices[n].items[i] \in ItemState
                    /\ IF notices[n].type = "INFORMATION" THEN i = Completeness ELSE i \in Findings
    <3>1. notices[n] \in NoticeRow
      BY DEF IInv, RowsGood, Notices
    <3>2. PICK S \in SUBSET Nat : notices[n].items \in [S -> ItemState]
      BY <3>1 DEF NoticeRow
    <3>3. QED
      BY <3>1, <3>2 DEF IInv, RowsGood, ClocksGood, NoticeRow
  <2>3. QED
    BY <2>1, <2>2 DEF TypeOK, IInv, RowsGood, ClocksGood, VisitsGood
<1>2. QED
  BY Invariance, <1>1, PTL

\* A case waits for an inspection exactly while one visit is open, however often
\* visits are cancelled, fail or are asked for again.
THEOREM WaitingCaseHasItsVisit == Spec => []WaitingHasOneVisit
BY Invariance, VisitsCounted, PTL DEF IInv

\* Assignments follow their attempts through the commands of the case.
THEOREM AssignmentsFollow == Spec => []AssignmentFollowsAttempt
<1>1. IInv => AssignmentFollowsAttempt
  BY DEF IInv, VisitsGood, AssignmentFollowsAttempt
<1>2. QED
  BY Invariance, <1>1, PTL

\* A case that waits for the applicant has its one information round, or rounds
\* about deficiencies, whatever responses and reviews commit late.
THEOREM WaitingCaseHasItsNotice == Spec => []WaitingHasNotice
<1>1. RoundsGood => WaitingHasNotice
  <2> SUFFICES ASSUME RoundsGood PROVE WaitingHasNotice
    OBVIOUS
  <2>1. CASE status = "INFO_REQUIRED"
    <3>1. PICK n : Published("INFORMATION") = {n}
      BY <2>1 DEF RoundsGood
    <3>2. Cardinality(Published("INFORMATION")) = 1
      BY <3>1, FS_Singleton
    <3>3. QED
      BY <2>1, <3>1, <3>2 DEF WaitingHasNotice
  <2>2. CASE status # "INFO_REQUIRED"
    <3>1. Published("INFORMATION") = {} /\ Cardinality({}) = 0
      BY <2>2, FS_EmptySet DEF RoundsGood
    <3>2. QED
      BY <2>2, <3>1 DEF RoundsGood, WaitingHasNotice
  <2>3. QED
    BY <2>1, <2>2
<1>2. QED
  BY Invariance, <1>1, PTL DEF IInv

\* Whoever the case waits for has an open clock of the stage's kind, the last one
\* opened, and the case target is open to the end.
THEOREM StageIsTimed == Spec => []StageHasClock
<1>1. IInv => StageHasClock
  BY DEF IInv, ClocksGood
<1>2. QED
  BY Invariance, <1>1, PTL

\* A clock stands still only while a hold is in force, with releases in flight.
THEOREM ClocksRunUnlessHeld == Spec => []ClockStopsOnlyOnHold
<1>1. IInv => ClockStopsOnlyOnHold
  BY DEF IInv, ClocksGood
<1>2. QED
  BY Invariance, <1>1, PTL

\* A hold on transitions freezes the case but for the publication of what was
\* approved: no hold is made on a draft, which is the one stage left unguarded.
THEOREM HoldFreezes == Spec => HoldFreezesCase
<1>1. ASSUME IInv, [Next]_vars, hold.active, "TRANSITIONS" \in hold.scope, status' # status
      PROVE  status' = "COMPLETED"
  <2>1. \A scope : Clock!Blocks(scope)
    BY <1>1 DEF Clock!Blocks
  <2>2. status # "DRAFT"
    BY <1>1 DEF IInv, ClocksGood
  <2>3. CASE Publish
    BY <2>3, TransitionTable DEF Turns, Publish
  <2>4. ~Submit
    BY <2>2, TransitionTable DEF Turns, Submit
  <2>5. CASE ~Publish /\ ~Submit
    BY <1>1, <2>1, <2>5, WriteFrame DEF vars, Next, Moves, StartScrutiny, ResolveRoutingException,
      WithdrawApplication, CreateHold, RequireInspection, InspectionStep, SubmitReport,
      ReturnForClarification, RequireReinspection, PublishNotice, SupersedeNotice, AcceptInformation,
      CompleteCorrections, Execute, Begin, Commit, Abort, Approve, Reject
  <2>6. QED
    BY <2>3, <2>4, <2>5
<1>2. IInv /\ [Next]_vars => [(hold.active /\ "TRANSITIONS" \in hold.scope /\ status' # status)
                                => status' = "COMPLETED"]_vars
  BY <1>1
<1>3. QED
  BY Invariance, <1>2, PTL DEF Spec, HoldFreezesCase

\* An approval rests on what approve_blockers checks, with any responses, reviews,
\* verifications and releases in flight, and what it rested on stays true but for
\* the findings that late returns of superseded rounds reopen.
THEOREM ApprovalHolds == Spec => ApprovalStands
<1>1. ASSUME IInv, [Next]_vars, status' \in Approved
      PROVE  /\ ~routing' /\ report' = "ELIGIBLE" /\ Visit!OpenAttempts' = {} /\ OpenNotices' = {}
             /\ IF status \in Approved
                  THEN OpenMandatory' \subseteq OpenMandatory \cup {t.item : t \in LateReturns \ inflight'}
                  ELSE OpenMandatory' = {} /\ Outstanding' = {}
  <2>1. OneVisit' /\ ApprovalGood'
    BY <1>1, StepIInv DEF IInv
  <2>2. Visit!OpenAttempts' = {}
    BY <1>1, <2>1 DEF OneVisit, Approved
  <2>3. ~routing' /\ report' = "ELIGIBLE" /\ OpenNotices' = {}
    BY <1>1, <2>1 DEF ApprovalGood
  <2>4. IF status \in Approved
          THEN OpenMandatory' \subseteq OpenMandatory \cup {t.item : t \in LateReturns \ inflight'}
          ELSE OpenMandatory' = {} /\ Outstanding' = {}
    BY <1>1, ApprovedFindings DEF IInv
  <2>5. QED
    BY <2>2, <2>3, <2>4
<1>2. IInv /\ [Next]_vars =>
        [status' \in Approved =>
           /\ ~routing' /\ report' = "ELIGIBLE" /\ Visit!OpenAttempts' = {} /\ OpenNotices' = {}
           /\ IF status \in Approved
                THEN OpenMandatory' \subseteq OpenMandatory \cup {t.item : t \in LateReturns \ inflight'}
                ELSE OpenMandatory' = {} /\ Outstanding' = {}]_vars
  BY <1>1
<1>3. QED
  BY Invariance, <1>2, PTL DEF Spec, ApprovalStands
=============================================================================
