-------------------------------- MODULE Services --------------------------------
(***************************************************************************)
(* The services around the case: documents, authority, sign-in, policies,  *)
(* the partner inbox, the status of certificates, thresholds, drafts,      *)
(* support, exports, the officers' bookings, the review of offline         *)
(* conflicts, the intake of applications and the reports that decisions    *)
(* rest on, each the module of its name.                                   *)
(*                                                                         *)
(* Their commands lock and write disjoint rows: what one reads of another  *)
(* is an input of its own module (the scope of an export's reader, the     *)
(* accounts of editors). An interleaving of two of them therefore reaches  *)
(* no state that the two alone do not, and a behaviour moves one of them,  *)
(* its focus, while the others stay as they began.                         *)
(***************************************************************************)
EXTENDS Naturals

CONSTANTS
  Uploads, Hashes, MaxFiles, MaxPuts,
  Staff, GrantIds, AccessRequests, InitialGrants, Founders, Beneficiary, Involved, MaxEpoch,
  Lifetime, Cooldown, SendsPerWindow, MaxAttempts, MaxChallenges, LastInstant,
  Versions, Editors, Payloads, MaxTime,
  Events, SequenceOf, VersionOf, MaxOperators, MaxConflicts,
  Certificates, Renewals, Perpetual,
  Windows, Forever, StartedAt, Budget, ReminderBudget, EscalationDelay, Schedulers, MaxManual, MaxHolds,
  Pages, Delegated, Fields, Values, Blank, MaxRevision, MaxFailures, MaxEdits, Until,
  Tickets, Own,
  ExportIds, Cases, MaxHandlers,
  People, Supervisors, Attempts, Intervals, MaxAssignments, MaxAbsences,
  Proposers, Reviewers, Operations,
  Applications, ServiceOf, WardOf, CategoryOf, Entries, Readings, Queues, ActiveQueues, DedicatedTo, CentralOf, Tries,
  ChecklistItems, MandatoryItems, EvidenceItems, OptionalItems, Inspectors, Verifiers, Deciders, MaxReports, MaxVerifying

VARIABLES
  focus,
  reservations, staged, objects, transfers, completions, scanState, versionHash, scans, accesses,
  account, epoch, admin, grants, consumed, sessions,
  instant, limiter, starting, challenges, identity, verified, started,
  policyTime, policy, contributors, passed, approvals, pinned,
  integration, inbox, reflected, conflicts, resolutions,
  recorded, expired, predecessor, superseding, renewals,
  clockNow, obligation, clockPauses, clockHold, actions, passes, escalations,
  draft, pages, wire, answers, delegation, today,
  tickets, answered,
  scope, permitted, exports, handlers, jobOpen, exportTickets,
  eligible, visits, assignments, absences, working,
  assignee, former, ended, proposing, proposals,
  table, filings, cases,
  stage, caseVersion, visit, reportDrafts, reports, deficiencies, verifying, decisionPages, decision

documentsRows == <<reservations, staged, objects, transfers, completions, scanState, versionHash, scans, accesses>>
authorityRows == <<account, epoch, admin, grants, consumed, sessions>>
signInRows == <<instant, limiter, starting, challenges, identity, verified, started>>
policyRows == <<policyTime, policy, contributors, passed, approvals, pinned>>
inboxRows == <<integration, inbox, reflected, conflicts, resolutions>>
statusRows == <<recorded, expired, predecessor, superseding, renewals>>
thresholdRows == <<clockNow, obligation, clockPauses, clockHold, actions, passes, escalations>>
draftRows == <<draft, pages, wire, answers, delegation, today>>
supportRows == <<tickets, answered>>
exportRows == <<scope, permitted, exports, handlers, jobOpen, exportTickets>>
bookingRows == <<eligible, visits, assignments, absences, working>>
reviewRows == <<assignee, former, ended, proposing, proposals>>
intakeRows == <<table, filings, cases>>
reportRows == <<stage, caseVersion, visit, reportDrafts, reports, deficiencies, verifying, decisionPages, decision>>

Docs == INSTANCE Documents
Auth == INSTANCE Authority
Sign == INSTANCE SignIn
Poli == INSTANCE Policies
Inbx == INSTANCE PartnerInbox
Stat == INSTANCE CertificateStatus
Thre == INSTANCE Thresholds
Drft == INSTANCE Drafts
Supp == INSTANCE Support
Expo == INSTANCE Exports
Book == INSTANCE Bookings
Revw == INSTANCE ConflictReview
Intk == INSTANCE Intake
Rprt == INSTANCE Reports

ServicesAssumption ==
  /\ Docs!DocumentsAssumption /\ Auth!AuthorityAssumption /\ Sign!SignInAssumption
  /\ Poli!PoliciesAssumption /\ Inbx!InboxAssumption /\ Stat!StatusAssumption
  /\ Thre!ClockAssumption /\ Thre!ThresholdsAssumption
  /\ Drft!DraftsAssumption /\ Supp!SupportAssumption /\ Expo!ExportsAssumption
  /\ Book!BookingsAssumption /\ Revw!ReviewAssumption /\ Intk!IntakeAssumption /\ Rprt!ReportsAssumption
ASSUME ServicesAssumption

Components == {"documents", "authority", "sign-in", "policies", "inbox", "status",
               "thresholds", "drafts", "support", "exports", "bookings", "review", "intake", "reports"}

Init ==
  /\ focus \in Components
  /\ Docs!Init /\ Auth!Init /\ Sign!Init /\ Poli!Init /\ Inbx!Init
  /\ Stat!Init /\ Thre!Init /\ Drft!Init /\ Supp!Init
  /\ Book!Init /\ Revw!Init /\ Rprt!Init
  /\ Expo!Init /\ (focus = "exports" \/ scope = Cases)
  /\ Intk!Init /\ (focus = "intake" \/ table = {})

Next ==
  /\ UNCHANGED focus
  /\ IF focus = "support" THEN Supp!Next ELSE UNCHANGED supportRows
  /\ IF focus = "exports" THEN Expo!Next ELSE UNCHANGED exportRows
  /\ IF focus = "sign-in" THEN Sign!Next ELSE UNCHANGED signInRows
  /\ IF focus = "policies" THEN Poli!Next ELSE UNCHANGED policyRows
  /\ IF focus = "review" THEN Revw!Next ELSE UNCHANGED reviewRows
  /\ IF focus = "intake" THEN Intk!Next ELSE UNCHANGED intakeRows
  /\ IF focus = "reports" THEN Rprt!Next ELSE UNCHANGED reportRows
  /\ IF focus = "documents" THEN Docs!Next ELSE UNCHANGED documentsRows
  /\ IF focus = "authority" THEN Auth!Next ELSE UNCHANGED authorityRows
  /\ IF focus = "status" THEN Stat!Next ELSE UNCHANGED statusRows
  /\ IF focus = "thresholds" THEN Thre!Next ELSE UNCHANGED thresholdRows
  /\ IF focus = "drafts" THEN Drft!Next ELSE UNCHANGED draftRows
  /\ IF focus = "bookings" THEN Book!Next ELSE UNCHANGED bookingRows
  /\ IF focus = "inbox" THEN Inbx!Next ELSE UNCHANGED inboxRows

Spec == Init /\ [][Next]_<<focus, documentsRows, authorityRows, signInRows, policyRows,
                          inboxRows, statusRows, thresholdRows, draftRows,
                          supportRows, exportRows, bookingRows, reviewRows, intakeRows, reportRows>>

-----------------------------------------------------------------------------
(* The properties; each is stated and explained in the module it is of.    *)
(* A component out of focus is as it began, which its own focus checks.    *)

Of(component, property) == focus = component => property

\* The rows have values the code can give them.
TypeOK ==
  /\ Of("documents", Docs!TypeOK) /\ Of("authority", Auth!TypeOK)
  /\ Of("sign-in", Sign!TypeOK) /\ Of("policies", Poli!TypeOK)
  /\ Of("inbox", Inbx!TypeOK) /\ Of("status", Stat!TypeOK)
  /\ Of("thresholds", Thre!TypeOK) /\ Of("drafts", Drft!TypeOK)
  /\ Of("support", Supp!TypeOK) /\ Of("exports", Expo!TypeOK)
  /\ Of("bookings", Book!TypeOK) /\ Of("review", Revw!TypeOK) /\ Of("intake", Intk!TypeOK)
  /\ Of("reports", Rprt!TypeOK)

\* A session that is still valid was begun with the powers its account has now.
SessionsKnowPowers == Of("authority", Auth!SessionsKnowPowers)

\* At every instant one policy at most is in force.
OnePolicyAtATime == Of("policies", Poli!OnePolicyAtATime)

\* What takes two people took two: grants and policies are approved by nobody
\* who proposed or edited them, as they were reviewed.
FourEyes == Of("authority", Auth!TwoPeople) /\ Of("policies", Poli!ApprovedAsReviewed)

\* Retries, losses and reordering: partner events wait for their gap and no
\* longer, a draft is saved once for an attempt and keeps what was typed, and
\* a sign-in code is spent once.
DeliveredOnce ==
  /\ Of("inbox", Inbx!GapsClose) /\ Of("sign-in", Sign!CodesAreSpent)
  /\ Of("drafts", Drft!EachSaveOnce) /\ Of("drafts", Drft!TypedIsKept)

\* Rows of one component agree with each other: a successor stands for what it
\* superseded, a ticket's times and state, an export and its frozen scope, an
\* obligation's due instant and its pauses, one row for a threshold of a clock,
\* an officer's bookings with each other and with the reported absences, the
\* server's side of a conflict, a case with the routing table and its reference,
\* the findings and the decision of a case with its reports.
RowsAgree ==
  /\ Of("status", Stat!SuccessionStands) /\ Of("support", Supp!TicketsAgree) /\ Of("exports", Expo!FrozenFile)
  /\ Of("thresholds", Thre!DueIsEarliest) /\ Of("thresholds", Thre!ThresholdOnce)
  /\ Of("bookings", Book!NoDoubleBooking) /\ Of("bookings", Book!AbsenceIsKnown) /\ Of("review", Revw!SnapshotAgrees)
  /\ Of("intake", Intk!RoutedOrOwned) /\ Of("intake", Intk!NumberedOnce)
  /\ Of("reports", Rprt!NoDraftOutlivesReport) /\ Of("reports", Rprt!DeficienciesAreKept)
  /\ Of("reports", Rprt!ApprovalIsEarned)

\* What is final stays so: a scan verdict, a revoked grant, the partner's
\* progress, a revoked or superseded certificate, a complete export,
\* a decided conflict.
FinalIsFinal ==
  [][/\ Of("documents", Docs!VerdictIsFinal) /\ Of("authority", Auth!RevokedStaysRevoked)
     /\ Of("inbox", Inbx!NeverBack) /\ Of("status", Stat!NeverResurrected)
     /\ Of("exports", Expo!FileStays) /\ Of("review", Revw!DecidedOnce)
    ]_<<scanState, versionHash, grants, reflected, recorded, exports, proposals>>
=================================================================================
