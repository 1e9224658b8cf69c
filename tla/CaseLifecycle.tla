---------------------------- MODULE CaseLifecycle ----------------------------
(***************************************************************************)
(* One application from draft to its final outcome: the transitions of     *)
(* agni.cases, the notices and findings of agni.notices, the decision of   *)
(* agni.decisions, composed with its inspection attempts (Inspections) and *)
(* its clocks and hold (CaseClock).                                        *)
(*                                                                         *)
(* Commands that move the case lock the application row, and every other   *)
(* command inserts a case event that refers to it, so their foreign-key    *)
(* checks at commit wait for that lock: a command that moves the case is   *)
(* one atomic action.  The four commands that lock only a notice, an item, *)
(* a finding or a hold read other rows without a lock; one listed in       *)
(* Racing reads when it begins and writes when it commits, with other      *)
(* commands in between and only its own row locked.                        *)
(*                                                                         *)
(* Actors are authorised, payloads valid, evidence documents CLEAN, and    *)
(* the policy gives every task a budget.  Every notice item is required.   *)
(***************************************************************************)
EXTENDS Naturals, Sequences, FiniteSets

Sequence == INSTANCE SequencesExt

CONSTANTS
  Items, Mandatory,   \* checklist items, and those whose failure is a mandatory finding
  WithdrawFrom,       \* the stages the pinned policy lets the applicant withdraw from
  Racing,             \* the commands whose reads and writes are separate steps
  MaxFindings, MaxNotices, MaxInflight, MaxVisits, MaxBookings,
  HoldScopes, MaxHolds, MaxPauses

RowCommands == {"SubmitResponse", "ReviewItem", "VerifyFinding", "ReleaseHold"}

ASSUME CaseAssumption ==
  /\ IsFiniteSet(Items) /\ Mandatory \subseteq Items
  /\ Racing \subseteq RowCommands
  /\ MaxVisits \in Nat /\ MaxHolds \in Nat

VARIABLES
  status,      \* the application's status
  routing,     \* whether a routing exception is open
  report,      \* the evaluation of the report accepted last
  findings,    \* the findings in the order they were made
  notices,     \* the notices in the order they were published, with their items
  inflight,    \* commands that have read and not yet written
  attempts,                  \* of Inspections
  obligations, hold, holds   \* of CaseClock

Visit == INSTANCE Inspections
Clock == INSTANCE CaseClock

vars == <<status, routing, report, findings, notices, inflight, attempts,
          obligations, hold, holds>>

Findings == DOMAIN findings
Notices == DOMAIN notices
Completeness == 0   \* the item of an INFORMATION notice: it is about no finding

Init ==
  /\ status = "DRAFT"
  /\ routing = FALSE
  /\ report = "NONE"
  /\ findings = <<>>
  /\ notices = <<>>
  /\ inflight = {}
  /\ Visit!Init
  /\ Clock!Init

-----------------------------------------------------------------------------
(* Transitions, and the rows a command must wait for. *)

Transitions ==
  [Submit                 |-> [from |-> {"DRAFT"}, to |-> "SUBMITTED"],
   StartScrutiny          |-> [from |-> {"SUBMITTED"}, to |-> "SCRUTINY"],
   RequestInformation     |-> [from |-> {"SCRUTINY"}, to |-> "INFO_REQUIRED"],
   AcceptInformation      |-> [from |-> {"INFO_REQUIRED"}, to |-> "SCRUTINY"],
   RequireInspection      |-> [from |-> {"SCRUTINY"}, to |-> "INSPECTION_PENDING"],
   AcceptReport           |-> [from |-> {"INSPECTION_PENDING"}, to |-> "REVIEW_PENDING"],
   IssueDeficiencies      |-> [from |-> {"REVIEW_PENDING"}, to |-> "COMPLIANCE_PENDING"],
   CompleteCorrections    |-> [from |-> {"COMPLIANCE_PENDING"}, to |-> "REVIEW_PENDING"],
   RequireReinspection    |-> [from |-> {"COMPLIANCE_PENDING"}, to |-> "INSPECTION_PENDING"],
   Approve                |-> [from |-> {"REVIEW_PENDING"}, to |-> "APPROVED_PENDING_ISSUE"],
   PublishInstrument      |-> [from |-> {"APPROVED_PENDING_ISSUE"}, to |-> "COMPLETED"],
   Reject                 |-> [from |-> {"REVIEW_PENDING"}, to |-> "REJECTED"],
   Withdraw               |-> [from |-> {"DRAFT", "SUBMITTED", "SCRUTINY", "INFO_REQUIRED",
                                         "INSPECTION_PENDING", "COMPLIANCE_PENDING"},
                               to |-> "WITHDRAWN"],
   ReturnForClarification |-> [from |-> {"REVIEW_PENDING"}, to |-> "INSPECTION_PENDING"]]

Terminal == {"COMPLETED", "REJECTED", "WITHDRAWN"}

Takes(command) ==
  /\ status \in Transitions[command].from
  /\ status' = Transitions[command].to

Moves(command) == Takes(command) /\ ~Clock!Blocks("transition")

MutNoticeFree(n) == TRUE
NoticeFree(n) == \A t \in inflight : t.command = "SubmitResponse" => t.notice # n
ItemFree(n, i) == \A t \in inflight : t.command = "ReviewItem" => <<t.notice, t.item>> # <<n, i>>
FindingFree(f) == \A t \in inflight : t.command = "VerifyFinding" => t.finding # f

Closes(kind) == Clock!Satisfy(obligations, kind)
Replaces(done, next) == obligations' = Clock!Open(Closes(done), next)

-----------------------------------------------------------------------------
(* Notices and findings as sets. *)

Unresolved == {f \in Findings : findings[f].state # "VERIFIED_CLOSED"}
OpenMandatory == {f \in Unresolved : findings[f].item \in Mandatory}
Outstanding == {f \in Unresolved : findings[f].reinspection}
Published(type) == {n \in Notices : notices[n].type = type /\ notices[n].state = "PUBLISHED"}
OpenNotices == Published("INFORMATION") \cup Published("DEFICIENCY")
AllAccepted(n) == \A i \in DOMAIN notices[n].items : notices[n].items[i] = "ACCEPTED"

CloseNotices(which, state) ==
  [n \in Notices |-> IF n \in which THEN [notices[n] EXCEPT !.state = state] ELSE notices[n]]

-----------------------------------------------------------------------------
(* Submission, scrutiny, withdrawal, holds. *)

Submit ==
  /\ Takes("Submit")
  /\ routing' \in BOOLEAN
  /\ obligations' = Clock!Open(Clock!Open(obligations, "CASE_TARGET"), "SCRUTINY_TASK")
  /\ UNCHANGED <<report, findings, notices, inflight, attempts, hold, holds>>

StartScrutiny ==
  /\ Moves("StartScrutiny")
  /\ ~routing
  /\ UNCHANGED <<routing, report, findings, notices, inflight, attempts, obligations, hold, holds>>

ResolveRoutingException ==
  /\ routing
  /\ routing' = FALSE
  /\ UNCHANGED <<status, report, findings, notices, inflight, attempts, obligations, hold, holds>>

\* The withdrawal disposes of clocks, notices and unstarted visits; a visit
\* under way is left alone.
WithdrawApplication ==
  /\ Moves("Withdraw")
  /\ status \in WithdrawFrom
  /\ \A n \in OpenNotices : NoticeFree(n)
  /\ obligations' = Clock!CancelAll(obligations)
  /\ notices' = CloseNotices(OpenNotices, "CANCELLED")
  /\ Visit!CancelUnstarted
  /\ UNCHANGED <<routing, report, findings, inflight, hold, holds>>

CreateHold ==
  /\ status \notin Terminal \cup {"DRAFT"}
  /\ \E scope \in HoldScopes, pauses \in SUBSET Clock!InState("ACTIVE") :
       Clock!CreateHold(scope, pauses)
  /\ UNCHANGED <<status, routing, report, findings, notices, inflight, attempts>>

-----------------------------------------------------------------------------
(* Inspection. *)

RequireInspection ==
  /\ Moves("RequireInspection")
  /\ Visit!Request
  /\ Replaces("SCRUTINY_TASK", "INSPECTION_TASK")
  /\ UNCHANGED <<routing, report, findings, notices, inflight, hold, holds>>

InspectionStep ==
  /\ \E i \in Visit!Visits : Visit!Step(i)
  /\ UNCHANGED <<status, routing, report, findings, notices, inflight, obligations, hold, holds>>

\* Failed items that already have an unresolved finding get no second one.
NewFindings(failed) == failed \ {findings[f].item : f \in Unresolved}

Materialise(new) ==
  findings \o [k \in 1..Cardinality(new) |->
    [item |-> Sequence!SetToSeq(new)[k], state |-> "OPEN", reinspection |-> FALSE]]

\* A mandatory item that failed blocks, as does an item left unverified or
\* passed without its evidence: the blockers decide the report's eligibility.
SubmitReport ==
  /\ Moves("AcceptReport")
  /\ \E i \in Visit!Visits : Visit!Complete(i)
  /\ \E failed \in SUBSET Items, otherBlockers \in BOOLEAN :
       /\ Len(findings) + Cardinality(NewFindings(failed)) <= MaxFindings
       /\ report' = IF failed \cap Mandatory = {} /\ ~otherBlockers THEN "ELIGIBLE" ELSE "BLOCKED"
       /\ findings' = Materialise(NewFindings(failed))
  /\ Replaces("INSPECTION_TASK", "REVIEW_TASK")
  /\ UNCHANGED <<routing, notices, inflight, hold, holds>>

ReturnForClarification ==
  /\ Moves("ReturnForClarification")
  /\ report # "NONE"
  /\ Visit!Request
  /\ Replaces("REVIEW_TASK", "INSPECTION_TASK")
  /\ UNCHANGED <<routing, report, findings, notices, inflight, hold, holds>>

\* The deficiency notice and the applicant's clock are left open.
RequireReinspection ==
  /\ Moves("RequireReinspection")
  /\ Visit!InStatus({"COMPLETED"}) # {}
  /\ Visit!Request
  /\ \E F \in SUBSET Unresolved \ {{}} :
       /\ \A f \in F : FindingFree(f)
       /\ findings' = [f \in Findings |->
            IF f \in F THEN [findings[f] EXCEPT !.reinspection = TRUE] ELSE findings[f]]
  /\ obligations' = Clock!Open(obligations, "INSPECTION_TASK")
  /\ UNCHANGED <<routing, report, notices, inflight, hold, holds>>

-----------------------------------------------------------------------------
(* Notice rounds. *)

\* What a notice may itemise: an INFORMATION round its completeness question,
\* a DEFICIENCY round some of the unresolved findings.
Itemised(type) == IF type = "INFORMATION" THEN {{Completeness}} ELSE SUBSET Unresolved \ {{}}

MutNotice(type, items, due) ==
  [type |-> type, state |-> "PUBLISHED", items |-> [i \in items |-> "OPEN"], due |-> due + 1]
Notice(type, items, due) ==
  [type |-> type, state |-> "PUBLISHED", items |-> [i \in items |-> "OPEN"], due |-> due]

PublishNotice(type) ==
  /\ Moves(IF type = "INFORMATION" THEN "RequestInformation" ELSE "IssueDeficiencies")
  /\ Len(notices) < MaxNotices
  /\ Replaces(IF type = "INFORMATION" THEN "SCRUTINY_TASK" ELSE "REVIEW_TASK",
              "APPLICANT_RESPONSE")
  /\ \E items \in Itemised(type) :
       notices' = Append(notices, Notice(type, items, Len(obligations) + 1))
  /\ UNCHANGED <<routing, report, findings, inflight, attempts, hold, holds>>

Waiting == [INFORMATION |-> "INFO_REQUIRED", DEFICIENCY |-> "COMPLIANCE_PENDING"]

MutSupersede(n) == notices
Supersede(n) == CloseNotices({n}, "SUPERSEDED")

\* A superseding round makes no transition, so no hold stops it.
SupersedeNotice(n) ==
  LET old == notices[n] IN
  /\ old.state = "PUBLISHED" /\ NoticeFree(n)
  /\ status = Waiting[old.type]
  /\ Len(notices) < MaxNotices
  /\ obligations' = Clock!Open(Clock!CancelOne(obligations, old.due), "APPLICANT_RESPONSE")
  /\ \E items \in Itemised(old.type) :
       notices' = Append(Supersede(n), Notice(old.type, items, Len(obligations) + 1))
  /\ UNCHANGED <<status, routing, report, findings, inflight, attempts, hold, holds>>

AcceptInformation(n) ==
  /\ notices[n].type = "INFORMATION" /\ notices[n].state = "PUBLISHED" /\ NoticeFree(n)
  /\ AllAccepted(n)
  /\ Moves("AcceptInformation")
  /\ notices' = CloseNotices({n}, "SATISFIED")
  /\ Replaces("APPLICANT_RESPONSE", "SCRUTINY_TASK")
  /\ UNCHANGED <<routing, report, findings, inflight, attempts, hold, holds>>

Corrected == OpenMandatory = {} /\ Outstanding = {}

CompleteCorrections ==
  /\ Moves("CompleteCorrections")
  /\ Corrected
  /\ Visit!OpenAttempts = {}
  /\ \A n \in Published("DEFICIENCY") : NoticeFree(n)
  /\ notices' = CloseNotices(Published("DEFICIENCY"), "SATISFIED")
  /\ Replaces("APPLICANT_RESPONSE", "REVIEW_TASK")
  /\ UNCHANGED <<routing, report, findings, inflight, attempts, hold, holds>>

-----------------------------------------------------------------------------
(* The commands that lock one row: what they read, and what they then write. *)

SubmitResponse(n) ==
  {[command |-> "SubmitResponse", notice |-> n, items |-> S] :
     S \in IF NoticeFree(n) /\ notices[n].state = "PUBLISHED"
           THEN SUBSET {i \in DOMAIN notices[n].items : notices[n].items[i] # "ACCEPTED"} \ {{}}
           ELSE {}}

\* A deficiency item is accepted only once its finding is closed; a return
\* reopens the finding unless it was closed when it was read.
ReviewItem(n, i) ==
  {[command |-> "ReviewItem", notice |-> n, item |-> i, outcome |-> o, reopens |-> i \in Unresolved] :
     o \in IF ItemFree(n, i) /\ notices[n].state = "PUBLISHED"
                /\ notices[n].items[i] = "RESPONSE_RECEIVED"
           THEN IF i \in Unresolved THEN {"RETURNED"} ELSE {"ACCEPTED", "RETURNED"}
           ELSE {}}

ItemsOf(f) ==
  {<<n, f>> : n \in {m \in OpenNotices : /\ f \in DOMAIN notices[m].items
                                        /\ notices[m].items[f] # "ACCEPTED"}}

VerifyFinding(f) ==
  {[command |-> "VerifyFinding", finding |-> f, outcome |-> o, items |-> ItemsOf(f)] :
     o \in IF FindingFree(f) /\ f \in Unresolved
           THEN {"VERIFIED_CLOSED", "RETURNED", "REINSPECTION_REQUIRED"} ELSE {}}

ReleaseHold ==
  IF hold.active /\ \A t \in inflight : t.command # "ReleaseHold"
  THEN {[command |-> "ReleaseHold", paused |-> Clock!InState("PAUSED")]} ELSE {}

\* The notices with the given items, of the given <<notice, item>>, set to a state.
SetItems(pairs, state) ==
  [n \in Notices |-> [notices[n] EXCEPT !.items = [i \in DOMAIN @ |->
     IF <<n, i>> \in pairs THEN state ELSE @[i]]]]

SetFindings(F, state) ==
  [f \in Findings |-> IF f \in F THEN [findings[f] EXCEPT !.state = state] ELSE findings[f]]

Respond(t) ==
  /\ \A i \in t.items : ItemFree(t.notice, i) /\ FindingFree(i)
  /\ notices' = SetItems({t.notice} \X t.items, "RESPONSE_RECEIVED")
  /\ findings' = SetFindings(t.items, "RESPONSE_RECEIVED")

Review(t) ==
  /\ notices' = SetItems({<<t.notice, t.item>>}, t.outcome)
  /\ IF t.outcome = "RETURNED" /\ t.reopens
       THEN FindingFree(t.item) /\ findings' = SetFindings({t.item}, "OPEN")
       ELSE UNCHANGED findings

Verdict(f, outcome) ==
  [item |-> f.item,
   state |-> CASE outcome = "VERIFIED_CLOSED" -> "VERIFIED_CLOSED"
               [] outcome = "RETURNED" -> "OPEN"
               [] OTHER -> f.state,
   reinspection |-> CASE outcome = "VERIFIED_CLOSED" -> FALSE
                      [] outcome = "REINSPECTION_REQUIRED" -> TRUE
                      [] OTHER -> f.reinspection]

Verify(t) ==
  /\ findings' = [findings EXCEPT ![t.finding] = Verdict(@, t.outcome)]
  /\ IF t.outcome = "REINSPECTION_REQUIRED" THEN UNCHANGED notices
     ELSE /\ \A p \in t.items : ItemFree(p[1], p[2])
          /\ notices' = SetItems(t.items,
               IF t.outcome = "VERIFIED_CLOSED" THEN "ACCEPTED" ELSE "RETURNED")

Write(t) ==
  /\ CASE t.command = "SubmitResponse" -> Respond(t) /\ UNCHANGED <<obligations, hold, holds>>
       [] t.command = "ReviewItem" -> Review(t) /\ UNCHANGED <<obligations, hold, holds>>
       [] t.command = "VerifyFinding" -> Verify(t) /\ UNCHANGED <<obligations, hold, holds>>
       [] t.command = "ReleaseHold" -> Clock!ReleaseHold(t.paused) /\ UNCHANGED <<findings, notices>>
  /\ UNCHANGED <<status, routing, report, attempts>>

Issue ==
  UNION ({SubmitResponse(n) : n \in Notices}
         \cup (UNION {{ReviewItem(n, i) : i \in DOMAIN notices[n].items} : n \in Notices})
         \cup {VerifyFinding(f) : f \in Findings}
         \cup {ReleaseHold})

\* A command that nothing interferes with reads and writes in one step.
Execute == \E t \in Issue : Write(t) /\ UNCHANGED inflight

Begin ==
  /\ Cardinality(inflight) < MaxInflight
  /\ \E t \in Issue : t.command \in Racing /\ inflight' = inflight \cup {t}
  /\ UNCHANGED <<status, routing, report, findings, notices, attempts, obligations, hold, holds>>

Commit == \E t \in inflight : Write(t) /\ inflight' = inflight \ {t}

\* A deadlock, a time-out or a lost connection rolls the command back.
Abort ==
  /\ \E t \in inflight : inflight' = inflight \ {t}
  /\ UNCHANGED <<status, routing, report, findings, notices, attempts, obligations, hold, holds>>

-----------------------------------------------------------------------------
(* Decision and publication. *)

\* approve_blockers on case_facts.
Ready ==
  /\ Visit!OpenAttempts = {}
  /\ report = "ELIGIBLE"
  /\ OpenMandatory = {}
  /\ Outstanding = {}
  /\ OpenNotices = {}

Approve ==
  /\ Takes("Approve")
  /\ Ready
  /\ ~routing
  /\ ~Clock!Blocks("decision")
  /\ Replaces("REVIEW_TASK", "ISSUANCE_TASK")
  /\ UNCHANGED <<routing, report, findings, notices, inflight, attempts, hold, holds>>

Reject ==
  /\ Takes("Reject")
  /\ ~Clock!Blocks("decision")
  /\ obligations' = Clock!CancelAll(Closes("REVIEW_TASK"))
  /\ UNCHANGED <<routing, report, findings, notices, inflight, attempts, hold, holds>>

\* The part of publish() that touches the case; Issuance models the rest.
Publish ==
  /\ Takes("PublishInstrument")
  /\ obligations' = Clock!SatisfyAtPublication(obligations)
  /\ UNCHANGED <<routing, report, findings, notices, inflight, attempts, hold, holds>>

-----------------------------------------------------------------------------
(* The specification. *)

Next ==
  \/ Submit
  \/ StartScrutiny
  \/ ResolveRoutingException
  \/ WithdrawApplication
  \/ CreateHold
  \/ RequireInspection
  \/ InspectionStep
  \/ SubmitReport
  \/ ReturnForClarification
  \/ RequireReinspection
  \/ \E type \in {"INFORMATION", "DEFICIENCY"} : PublishNotice(type)
  \/ \E n \in Notices : SupersedeNotice(n) \/ AcceptInformation(n)
  \/ CompleteCorrections
  \/ Execute
  \/ Begin
  \/ Commit
  \/ Abort
  \/ Approve
  \/ Reject
  \/ Publish

Spec == Init /\ [][Next]_vars

-----------------------------------------------------------------------------
(* Properties. *)

ItemState == {"OPEN", "RESPONSE_RECEIVED", "RETURNED", "ACCEPTED"}

\* Every row holds values of its columns, and every item of a notice, and
\* every command in flight, refers to rows that exist.
TypeOK ==
  /\ status \in {Transitions[c].to : c \in DOMAIN Transitions} \cup {"DRAFT"}
  /\ routing \in BOOLEAN
  /\ report \in {"NONE", "ELIGIBLE", "BLOCKED"}
  /\ findings \in Seq([item: Items, state: {"OPEN", "RESPONSE_RECEIVED", "VERIFIED_CLOSED"},
                       reinspection: BOOLEAN])
  /\ \A n \in Notices :
       /\ notices[n].state \in {"PUBLISHED", "SATISFIED", "SUPERSEDED", "CANCELLED"}
       /\ notices[n].due \in DOMAIN obligations
       /\ \A i \in DOMAIN notices[n].items :
            /\ notices[n].items[i] \in ItemState
            /\ IF notices[n].type = "INFORMATION" THEN i = Completeness ELSE i \in Findings
  /\ \A t \in inflight : t.command \in Racing
  /\ Visit!TypeOK
  /\ Clock!TypeOK

\* A case waits for an inspection exactly while one attempt is open: however
\* often visits are cancelled, fail or are asked for again, there is never a
\* case without its next visit, nor a visit for a case that moved on.  After a
\* withdrawal the visit that was under way, or its follow-up, may remain.
WaitingHasOneVisit ==
  CASE status = "INSPECTION_PENDING" -> Cardinality(Visit!OpenAttempts) = 1
    [] status = "WITHDRAWN" -> Cardinality(Visit!OpenAttempts) <= 1
    [] OTHER -> Visit!OpenAttempts = {}

\* Assignments follow the attempts through every command of the case as well.
AssignmentFollowsAttempt == Visit!AssignmentFollowsAttempt

\* A case that waits for the applicant has a notice to answer: exactly one
\* information round, or at least one deficiency round, in every correction
\* round, and no information round is left open once the case moves on.
WaitingHasNotice ==
  /\ status = "INFO_REQUIRED" <=> Published("INFORMATION") # {}
  /\ Cardinality(Published("INFORMATION")) <= 1
  /\ status = "COMPLIANCE_PENDING" => Published("DEFICIENCY") # {}

TaskOf ==
  [SUBMITTED |-> "SCRUTINY_TASK", SCRUTINY |-> "SCRUTINY_TASK",
   INFO_REQUIRED |-> "APPLICANT_RESPONSE", COMPLIANCE_PENDING |-> "APPLICANT_RESPONSE",
   INSPECTION_PENDING |-> "INSPECTION_TASK", REVIEW_PENDING |-> "REVIEW_TASK",
   APPROVED_PENDING_ISSUE |-> "ISSUANCE_TASK"]

\* Whoever the case waits for has a running or paused clock of the stage's
\* kind, opened last of all, whatever rounds, holds and releases came before;
\* and the case target stays open to the end.
StageHasClock ==
  status \in DOMAIN TaskOf =>
    /\ LET last == obligations[Len(obligations)] IN
         last.kind = TaskOf[status] /\ last.state \in Clock!OpenState
    /\ \E o \in DOMAIN obligations :
         obligations[o].kind = "CASE_TARGET" /\ obligations[o].state \in Clock!OpenState

\* The paused clocks of the case are those of a hold in force.
ClockStopsOnlyOnHold == Clock!ClockStopsOnlyOnHold

Approved == {"APPROVED_PENDING_ISSUE", "COMPLETED"}

\* The returns that read an open finding in a round superseded since.
LateReturns ==
  {t \in inflight : t.command = "ReviewItem" /\ t.outcome = "RETURNED" /\ t.reopens
                    /\ notices[t.notice].state = "SUPERSEDED"}

\* An approval rests on an eligible report and a routed case, without an open
\* visit, notice or mandatory finding and without a reinspection to come; and
\* what it rested on stays true until the certificate is out and after.
\* Responses, reviews, verifications and releases that read before the decision
\* and write after it change none of it, but for one way the code leaves open:
\* the return of an item of a superseded round reopens the finding that was
\* closed, for the next round, after the return had read it.
ApprovalStands ==
  [][status' \in Approved =>
       /\ ~routing' /\ report' = "ELIGIBLE" /\ Visit!OpenAttempts' = {} /\ OpenNotices' = {}
       /\ IF status \in Approved
            THEN OpenMandatory' \subseteq OpenMandatory \cup {t.item : t \in LateReturns \ inflight'}
            ELSE OpenMandatory' = {} /\ Outstanding' = {}]_vars

\* Under a hold on transitions the case does not move, except that the
\* certificate of an approved case is still published.
HoldFreezesCase ==
  [][(hold.active /\ "TRANSITIONS" \in hold.scope /\ status' # status)
       => status' = "COMPLETED"]_vars

\* The blocker "A published notice is still awaiting the applicant": a notice
\* that blocks the approval of a case under review still has an item to answer.
NoticeAwaitsApplicant ==
  status = "REVIEW_PENDING" => \A n \in OpenNotices : ~AllAccepted(n)
=============================================================================
