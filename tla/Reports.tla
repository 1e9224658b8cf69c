--------------------------------- MODULE Reports ---------------------------------
(***************************************************************************)
(* What a decision rests on: the report an officer saves as a draft and    *)
(* submits, its evaluation against the pinned checklist, the findings it   *)
(* leaves, who closes them on which evidence, and the readiness a decider  *)
(* reads before the decision.                                              *)
(*                                                                         *)
(* CaseLifecycle has the stages, notices, clocks and holds around it,      *)
(* Bookings who may be assigned. Here no hold, notice or routing exception *)
(* stands in the way and authority does not change. A request carries the  *)
(* versions the page has just shown; only the decider's page may be old.   *)
(***************************************************************************)
EXTENDS Naturals, Sequences, FiniteSets

Sequence == INSTANCE SequencesExt

CONSTANTS
  ChecklistItems, MandatoryItems, EvidenceItems,
  OptionalItems,                     \* those for which NOT_APPLICABLE is permitted
  Inspectors, Verifiers, Deciders,   \* staff with the powers of each part
  MaxReports, MaxVerifying

ReportsAssumption ==
  /\ IsFiniteSet(ChecklistItems) /\ MandatoryItems \subseteq ChecklistItems /\ EvidenceItems \subseteq ChecklistItems
  /\ OptionalItems \subseteq ChecklistItems
  /\ MaxReports \in Nat /\ MaxVerifying \in Nat

VARIABLES
  stage,         \* of the case
  caseVersion,   \* moves of the case
  visit,         \* the attempt in progress, or the last one
  reportDrafts,  \* officers with a server draft of that attempt
  reports,       \* accepted reports, in order
  deficiencies,  \* findings, in the order they were made
  verifying,     \* findings a verification has locked and not committed
  decisionPages, \* what each decider read last
  decision

reportsVars == <<stage, caseVersion, visit, reportDrafts, reports, deficiencies, verifying,
                 decisionPages, decision>>

NoDecision == [kind |-> "none", by |-> "none", report |-> 0]

Init ==
  /\ stage = "INSPECTION_PENDING" /\ caseVersion = 1
  /\ visit = [status |-> "REQUESTED", officer |-> "none"]
  /\ reportDrafts = {} /\ reports = <<>> /\ deficiencies = <<>> /\ verifying = {}
  /\ decisionPages = [p \in Deciders |-> [version |-> 0, report |-> 0]]
  /\ decision = NoDecision

-----------------------------------------------------------------------------
(* Observations and their evaluation.                                      *)

\* validate_observations: every item once, NOT_APPLICABLE where it is permitted.
\* Evidence is a CLEAN file of the case, and is told apart on a PASS only.
Outcomes(i) ==
  {"PASS", "FAIL", "NOT_VERIFIED"} \cup (IF i \in EvidenceItems THEN {"BARE_PASS"} ELSE {})
    \cup (IF i \in OptionalItems THEN {"NOT_APPLICABLE"} ELSE {})

ValidObservations == {o \in [ChecklistItems -> UNION {Outcomes(i) : i \in ChecklistItems}] :
                        \A i \in ChecklistItems : o[i] \in Outcomes(i)}

\* evaluate: what blocks a favourable decision, and what becomes a finding.
Blockers(o) ==
  {i \in ChecklistItems : \/ i \in MandatoryItems /\ o[i] \in {"FAIL", "NOT_VERIFIED"}
                          \/ o[i] = "BARE_PASS"
                          \/ o[i] = "NOT_APPLICABLE" /\ i \notin OptionalItems}

Failed(o) ==
  {i \in ChecklistItems : \/ o[i] = "FAIL"
                          \/ o[i] = "NOT_VERIFIED" /\ i \notin MandatoryItems}

Findings == DOMAIN deficiencies
Unresolved == {f \in Findings : deficiencies[f].state # "VERIFIED_CLOSED"}

Finding(i, r) ==
  [item |-> i, report |-> r, state |-> "OPEN", reinspection |-> FALSE, evidence |-> "none", closedAfter |-> 0]

\* An item with an unresolved finding gets no second one.
MaterialiseFindings(o) ==
  LET codes == Sequence!SetToSeq(Failed(o) \ {deficiencies[f].item : f \in Unresolved})
  IN deficiencies \o [k \in DOMAIN codes |-> Finding(codes[k], Len(reports) + 1)]

-----------------------------------------------------------------------------
(* The officer.                                                            *)

\* ScheduleInspection, and ReassignInspection of an unstarted visit.
Assign(p) ==
  /\ visit.status \in {"REQUESTED", "SCHEDULED"} /\ visit.officer # p
  /\ visit' = [status |-> "SCHEDULED", officer |-> p]
  /\ UNCHANGED <<stage, caseVersion, reportDrafts, reports, deficiencies, verifying, decisionPages, decision>>

AssignedOfficerOnly(p) == visit.officer = p /\ visit.status # "COMPLETED"

CheckIn(p) ==
  /\ AssignedOfficerOnly(p) /\ visit.status = "SCHEDULED"
  /\ visit' = [visit EXCEPT !.status = "IN_PROGRESS"]
  /\ UNCHANGED <<stage, caseVersion, reportDrafts, reports, deficiencies, verifying, decisionPages, decision>>

\* One draft for an officer; what it says is checked like a report that need not be complete.
SaveReportDraft(p) ==
  /\ AssignedOfficerOnly(p) /\ visit.status \in {"SCHEDULED", "IN_PROGRESS"}
  /\ reportDrafts' = reportDrafts \cup {p}
  /\ UNCHANGED <<stage, caseVersion, visit, reports, deficiencies, verifying, decisionPages, decision>>

SubmitReport(p) ==
  /\ AssignedOfficerOnly(p) /\ visit.status = "IN_PROGRESS" /\ stage = "INSPECTION_PENDING"
  /\ \E o \in ValidObservations :
       /\ reports' = Append(reports, [by |-> p, observations |-> o])
       /\ deficiencies' = MaterialiseFindings(o)
  /\ visit' = [visit EXCEPT !.status = "COMPLETED"]
  /\ reportDrafts' = {}
  /\ stage' = "REVIEW_PENDING" /\ caseVersion' = caseVersion + 1
  /\ UNCHANGED <<verifying, decisionPages, decision>>

-----------------------------------------------------------------------------
(* The supervisors.                                                        *)

\* A new visit; the accepted report stays.
ReturnForClarification ==
  /\ stage = "REVIEW_PENDING" /\ Len(reports) < MaxReports
  /\ stage' = "INSPECTION_PENDING" /\ caseVersion' = caseVersion + 1
  /\ visit' = [status |-> "REQUESTED", officer |-> "none"]
  /\ UNCHANGED <<reportDrafts, reports, deficiencies, verifying, decisionPages, decision>>

\* What may be cited for closing f: documents of the reviewer or an accepted
\* report that passes the item, or the response alone if f is advisory. For
\* "none" the finding is not closed, and needs a reinspection. (One returned to
\* the applicant stays as it is here.)
Basis(f) == {"reviewer", "none"} \cup (IF deficiencies[f].item \in MandatoryItems THEN {} ELSE {"response"})

\* The finding is locked, the case is not: a report may be accepted before the
\* commit. What the request cites cannot change in between.
BeginVerification(p, f) ==
  /\ f \in Unresolved \ verifying /\ Cardinality(verifying) < MaxVerifying
  /\ reports[deficiencies[f].report].by # p
  /\ verifying' = verifying \cup {f}
  /\ UNCHANGED <<stage, caseVersion, visit, reportDrafts, reports, deficiencies, decisionPages, decision>>

VerifyFinding(f, evidence) ==
  /\ deficiencies' = [deficiencies EXCEPT ![f] =
       IF evidence # "none"
       THEN [@ EXCEPT !.state = "VERIFIED_CLOSED", !.reinspection = FALSE,
                      !.evidence = evidence, !.closedAfter = Len(reports)]
       ELSE [@ EXCEPT !.reinspection = TRUE]]
  /\ verifying' = verifying \ {f}
  /\ UNCHANGED <<stage, caseVersion, visit, reportDrafts, reports, decisionPages, decision>>

RollBack(f) ==
  /\ verifying' = verifying \ {f}
  /\ UNCHANGED <<stage, caseVersion, visit, reportDrafts, reports, deficiencies, decisionPages, decision>>

-----------------------------------------------------------------------------
(* The decision.                                                           *)

\* A page read before or after the review decides nothing: its version is not the case's.
ReadReadiness(p) ==
  /\ stage = "REVIEW_PENDING"
  /\ decisionPages' = [decisionPages EXCEPT ![p] = [version |-> caseVersion, report |-> Len(reports)]]
  /\ UNCHANGED <<stage, caseVersion, visit, reportDrafts, reports, deficiencies, verifying, decision>>

\* actor_facts: any report of the case counts, not the last one alone.
InspectedThisCase(p) == \E r \in DOMAIN reports : reports[r].by = p
AuthorityBlocked(p) == InspectedThisCase(p)

ApproveBlocked(p) ==
  \/ decision # NoDecision
  \/ stage # "REVIEW_PENDING"
  \/ visit.status # "COMPLETED"
  \/ reports = <<>> \/ Blockers(Sequence!Last(reports).observations) # {}
  \/ \E f \in Unresolved : deficiencies[f].item \in MandatoryItems \/ deficiencies[f].reinspection
  \/ AuthorityBlocked(p)

RejectBlocked(p) == decision # NoDecision \/ stage # "REVIEW_PENDING" \/ AuthorityBlocked(p)

\* A favourable decision cites the report that was read, a rejection may.
RecordDecision(p, kind) ==
  LET page == decisionPages[p] IN
  /\ page.version = caseVersion
  /\ kind = "APPROVE" => page.report > 0
  /\ page.report \in {0, Len(reports)}
  /\ IF kind = "APPROVE" THEN ~ApproveBlocked(p) ELSE ~RejectBlocked(p)
  /\ decision' = [kind |-> kind, by |-> p, report |-> page.report]
  /\ stage' = IF kind = "APPROVE" THEN "APPROVED_PENDING_ISSUE" ELSE "REJECTED"
  /\ caseVersion' = caseVersion + 1
  /\ UNCHANGED <<visit, reportDrafts, reports, deficiencies, verifying, decisionPages>>

Next ==
  \/ \E p \in Inspectors : Assign(p) \/ CheckIn(p) \/ SaveReportDraft(p) \/ SubmitReport(p)
  \/ ReturnForClarification
  \/ \E p \in Verifiers, f \in Findings : BeginVerification(p, f)
  \/ \E f \in verifying : RollBack(f) \/ \E evidence \in Basis(f) : VerifyFinding(f, evidence)
  \/ \E p \in Deciders : ReadReadiness(p)
  \/ \E p \in Deciders, kind \in {"APPROVE", "REJECT"} : RecordDecision(p, kind)

Spec == Init /\ [][Next]_reportsVars

-----------------------------------------------------------------------------
\* The rows have values the code can give them.
TypeOK ==
  /\ stage \in {"INSPECTION_PENDING", "REVIEW_PENDING", "APPROVED_PENDING_ISSUE", "REJECTED"}
  /\ visit.status \in {"REQUESTED", "SCHEDULED", "IN_PROGRESS", "COMPLETED"}
  /\ visit.officer \in Inspectors \cup {"none"} /\ reportDrafts \subseteq Inspectors
  /\ \A r \in DOMAIN reports : reports[r].by \in Inspectors /\ reports[r].observations \in ValidObservations
  /\ \A f \in Findings : deficiencies[f].item \in ChecklistItems /\ deficiencies[f].report \in DOMAIN reports
  /\ verifying \subseteq Unresolved

\* SubmitReport removes the drafts of the officers before a reassignment too:
\* once a visit has its report nothing of it can still be edited.
NoDraftOutlivesReport == visit.status \in {"REQUESTED", "COMPLETED"} => reportDrafts = {}

\* However verifications overlap with further visits, an item has one finding
\* at most to be corrected, and whatever a report found deficient has a finding
\* that is open, or that was closed once the report was there. A verification
\* that read its finding before the report may be the one that closes it.
DeficienciesAreKept ==
  /\ \A f, g \in Unresolved : deficiencies[f].item = deficiencies[g].item => f = g
  /\ \A r \in DOMAIN reports : \A i \in Failed(reports[r].observations) :
       \E f \in Findings : /\ deficiencies[f].item = i /\ deficiencies[f].report <= r
                           /\ f \in Unresolved \/ deficiencies[f].closedAfter >= r

\* The evaluation's blockers cannot be outvoted: the last report of an approved
\* case passed or properly excused each mandatory item, what any report failed
\* of them was closed on a document or a passing report, and the decider is
\* none of those who inspected and had read that last report.
ApprovalIsEarned ==
  decision.kind = "APPROVE" =>
    /\ decision.report = Len(reports) /\ \A r \in DOMAIN reports : reports[r].by # decision.by
    /\ \A i \in MandatoryItems :
         LET last == Sequence!Last(reports).observations[i] IN
         /\ last = "PASS" \/ (last = "NOT_APPLICABLE" /\ i \in OptionalItems)
         /\ \A r \in DOMAIN reports : reports[r].observations[i] = "FAIL" =>
              \E f \in Findings : /\ deficiencies[f].item = i /\ deficiencies[f].closedAfter >= r
                                  /\ deficiencies[f].evidence = "reviewer"
=================================================================================
