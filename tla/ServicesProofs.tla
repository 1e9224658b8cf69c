------------------------------ MODULE ServicesProofs ------------------------------
(***************************************************************************)
(* Proofs about the services around the case, for any number of accounts,  *)
(* grants, policy versions, files, events, certificates, exports and       *)
(* conflicts. Each component has an invariant of its own rows; since a     *)
(* step moves one component at most, the invariants hold together. The     *)
(* working clock is proved to find the earliest due instant, for every     *)
(* calendar and all pauses.                                                *)
(***************************************************************************)
EXTENDS Services, Sequences, FiniteSetTheorems, FunctionTheorems, TLAPS

vars == <<focus, documentsRows, authorityRows, signInRows, policyRows,
          inboxRows, statusRows, thresholdRows, draftRows,
          supportRows, exportRows, bookingRows, reviewRows, intakeRows, reportRows>>

-----------------------------------------------------------------------------
(* Authority. *)

Hands == Staff \cup {"none"} \cup UNION {{InitialGrants[g].preparer, InitialGrants[g].approver} :
                                         g \in DOMAIN InitialGrants}

\* An AuthorityGrant row; "checked" is a proposal that did not commit yet.
GrantRow == [state: {"checked", "PROPOSED", "APPROVED", "REVOKED"}, subject: Staff,
             capability: Auth!Capabilities, preparer: Hands, approver: Hands]

\* An epoch only grows, so a session that knows an older one is never accepted
\* again; and an account that was never opened has no session.
SessionsBehind ==
  \A p \in Staff : /\ sessions[p].epoch <= epoch[p]
                   /\ account[p] = "absent" => sessions[p].epoch = 0

\* Who approved a grant that was proposed here is another person.
ApprovedByOthers ==
  \A g \in GrantIds \ DOMAIN InitialGrants :
    grants[g].state = "APPROVED" => grants[g].approver \notin {"none", grants[g].preparer, grants[g].subject}

AuthorityGood ==
  /\ account \in [Staff -> {"absent", "active", "disabled"}]
  /\ epoch \in [Staff -> 1..MaxEpoch]
  /\ admin \subseteq Staff /\ \A p \in admin : account[p] = "active"
  /\ grants \in [GrantIds -> GrantRow \cup {Auth!NoGrant}]
  /\ sessions \in [Staff -> [epoch: 0..MaxEpoch, powers: SUBSET (GrantIds \cup {"ADMIN"})]]
  /\ \A g \in DOMAIN InitialGrants : grants[g] \in GrantRow /\ grants[g].approver # "none"
  /\ SessionsBehind /\ Auth!SessionsKnowPowers /\ ApprovedByOthers

-----------------------------------------------------------------------------
(* Policies. *)

PolicyRow == [state: {"none", "DRAFT", "IN_REVIEW", "RETURNED", "RETIRED"} \cup Poli!Effective,
              payload: Payloads \cup {"none"}, candidate: Payloads \cup {"none"},
              approver: Editors \cup {"none"}, from: 0..Poli!Open, until: 0..Poli!Open]

Approval == [version: Versions, approver: Editors, from: Poli!Instants,
             until: Poli!Instants \cup {Poli!Open}, closes: SUBSET Versions]

\* What an approval checked stays so until it commits, since it holds the rows.
StillApprovable(a) ==
  /\ policy[a.version].state = "IN_REVIEW"
  /\ a.approver \notin contributors[a.version]
  /\ policy[a.version].candidate = policy[a.version].payload
  /\ <<a.version, policy[a.version].payload>> \in passed
  /\ a.from < a.until
  /\ \A o \in a.closes : /\ policy[o].state \in Poli!Effective
                         /\ policy[o].until = Poli!Open /\ policy[o].from < a.from

\* Two approvals under way hold different rows.
ApprovalsApart ==
  \A a, b \in approvals : a # b => a.version # b.version /\ a.closes \cap b.closes = {}

PolicyGood ==
  /\ policyTime \in 1..MaxTime
  /\ policy \in [Versions -> PolicyRow]
  /\ contributors \in [Versions -> SUBSET Editors]
  /\ approvals \subseteq Approval
  /\ \A a \in approvals : StillApprovable(a)
  /\ ApprovalsApart
  /\ pinned \subseteq Versions \X (1..MaxTime)
  /\ Poli!TypeOK /\ Poli!OnePolicyAtATime /\ Poli!ApprovedAsReviewed

-----------------------------------------------------------------------------
(* Documents, the inbox, certificates, exports and the review of conflicts. *)

Reservation == [state: {"none", "checked", "RESERVED", "UPLOADED", "COMPLETED"},
                sha256: Hashes \cup {"none"}, expired: BOOLEAN, puts: Nat]

DocumentsGood ==
  /\ reservations \in [Uploads -> Reservation]
  /\ \A u \in Uploads : reservations[u].state = "UPLOADED" => reservations[u].sha256 # "none"
  /\ staged \in [Uploads -> Hashes \cup {"none"}]
  /\ objects \in [Hashes -> Hashes \cup {"none"}]
  /\ transfers \subseteq [upload: Uploads, sha256: Hashes, stored: BOOLEAN]
  /\ completions \subseteq [upload: Uploads, sha256: Hashes, promoted: BOOLEAN]
  /\ scanState \in [Uploads -> {"none", "QUARANTINED", "CLEAN", "REJECTED"}]
  /\ versionHash \in [Uploads -> Hashes \cup {"none"}]
  /\ \A u \in Uploads : (scanState[u] = "none") = (versionHash[u] = "none")
  /\ scans \subseteq [upload: Uploads, verdict: {"CLEAN", "REJECTED"}]
  /\ accesses \subseteq Uploads /\ \A u \in accesses : scanState[u] = "CLEAN"

SourcePositions == {SequenceOf[e] : e \in Events}

InboxGood ==
  /\ inbox \in [Events -> {"none", "RECEIVED", "PROCESSED", "CONFLICT", "QUARANTINED"}]
  /\ reflected.sequence \in {0} \cup SourcePositions
  /\ conflicts \subseteq [event: Events, reason: {"PAYLOAD_MISMATCH", "SEQUENCE_GAP", "OLDER_THAN_APPLIED"}]
  /\ \A r \in resolutions : r.conflict \in conflicts /\ r.lookup \in SourcePositions
  /\ \A q, r \in resolutions : q.conflict = r.conflict => q = r
  /\ Inbx!GapsClose

\* A superseded certificate has one successor, every other none.
OneSuccessor ==
  \A c \in Certificates :
    LET successors == {s \in Certificates : predecessor[s] = c}
    IN IF recorded[c] = "SUPERSEDED" THEN \E s \in Certificates : successors = {s} ELSE successors = {}

StatusGood ==
  /\ Stat!TypeOK
  /\ \A c \in expired : recorded[c] # "none"
  /\ superseding \subseteq [target: Certificates, successor: Certificates]
  /\ OneSuccessor

ExportRow == [state: {"none", "READY", "RUNNING", "COMPLETE", "FAILED", "EXPIRED"}, kind: Expo!Kinds,
              frozen: SUBSET Cases, late: BOOLEAN, file: [rows: SUBSET Cases, written: BOOLEAN]]

\* A job that can still be completed has written no file.
OpenJobUnwritten ==
  \A e \in ExportIds : e \in jobOpen \/ exports[e].state = "none" => ~exports[e].file.written

ExportsGood ==
  /\ scope \in SUBSET Cases
  /\ exports \in [ExportIds -> ExportRow]
  /\ jobOpen \subseteq ExportIds
  /\ handlers \subseteq [export: ExportIds, leased: BOOLEAN, rows: [rows: SUBSET Cases, written: BOOLEAN]]
  /\ OpenJobUnwritten

ProposalRow == [state: {"none", "OPEN", "RESOLVED"}, mine: BOOLEAN, ended: BOOLEAN, synced: BOOLEAN,
                outcome: Revw!Outcomes \cup {"none"}, by: Reviewers \cup {Revw!Nobody}]

\* What an officer read of the visit stays true while the fence is held: he is
\* the only one who could end the visit, and needs the fence for it.
ReadUnderFence ==
  \A o \in Proposers : ~Revw!FenceFree(o) /\ ended.officer = o => proposing[o].ended /\ ~proposing[o].mine

ReviewGood ==
  /\ proposing \in [Proposers -> [operation: Operations \cup {"none"}, mine: BOOLEAN, ended: BOOLEAN]]
  /\ proposals \in [Proposers -> [Operations -> ProposalRow]]
  /\ ended # Revw!NotEnded => assignee = Revw!Nobody
  /\ ReadUnderFence /\ Revw!SnapshotAgrees

IInv ==
  /\ AuthorityGood /\ PolicyGood /\ DocumentsGood /\ InboxGood /\ StatusGood /\ ExportsGood /\ ReviewGood

-----------------------------------------------------------------------------
(* Authority is kept. *)

\* What a grant row is, field by field.
LEMMA GrantRows ==
  /\ \A r \in GrantRow : r.state # "none" /\ r.subject \in Staff
  /\ Auth!NoGrant.state = "none"
  /\ \A r : r \in GrantRow \cup {Auth!NoGrant} /\ r.state # "none" => r \in GrantRow
BY DEF GrantRow, Auth!NoGrant

\* The powers of an account depend on its binding and on its approved grants.
LEMMA SamePowers ==
  ASSUME NEW p \in Staff, p \in admin' <=> p \in admin,
         \A g \in GrantIds : (grants'[g].state = "APPROVED" /\ grants'[g].subject = p)
                               <=> (grants[g].state = "APPROVED" /\ grants[g].subject = p)
  PROVE  Auth!Powers(p)' = Auth!Powers(p)
<1>1. admin' \cap {p} = admin \cap {p}
  OBVIOUS
<1>2. Auth!InForce(p)' = Auth!InForce(p)
  BY DEF Auth!InForce
<1>3. QED
  BY <1>1, <1>2 DEF Auth!Powers

\* Accounts either have their epoch raised or keep the powers a session knows.
LEMMA SessionsKept ==
  ASSUME AuthorityGood, UNCHANGED sessions, epoch' \in [Staff -> 1..MaxEpoch],
         \A p \in Staff :
           /\ account'[p] = "absent" => account[p] = "absent"
           /\ \/ epoch'[p] = epoch[p] + 1
              \/ /\ epoch'[p] = epoch[p]
                 /\ account'[p] = "active" =>
                      \/ account[p] = "absent"
                      \/ account[p] = "active" /\ Auth!Powers(p)' = Auth!Powers(p)
  PROVE  SessionsBehind' /\ Auth!SessionsKnowPowers'
<1>1. \A p \in Staff : sessions[p].epoch \in Nat /\ epoch[p] \in Nat /\ epoch[p] > 0 /\ sessions[p].epoch <= epoch[p]
  BY DEF AuthorityGood, SessionsBehind
<1>2. SessionsBehind'
  BY <1>1 DEF AuthorityGood, SessionsBehind
<1>3. ASSUME NEW p \in Staff, account'[p] = "active", sessions[p].epoch = epoch'[p]
      PROVE  sessions[p].powers = Auth!Powers(p)'
  <2>1. epoch'[p] = epoch[p]
    BY <1>1, <1>3
  <2>2. account[p] # "absent"
    BY <1>1, <1>3, <2>1 DEF AuthorityGood, SessionsBehind
  <2>3. account[p] = "active" /\ Auth!Powers(p)' = Auth!Powers(p)
    BY <1>1, <1>3, <2>1, <2>2
  <2>4. QED
    BY <1>3, <2>1, <2>3 DEF AuthorityGood, Auth!SessionsKnowPowers, Auth!ValidSession
<1>4. QED
  BY <1>2, <1>3 DEF Auth!SessionsKnowPowers, Auth!ValidSession

\* The accounts and grants of the installation satisfy the invariant.
LEMMA AuthorityStarts == Auth!Init => AuthorityGood
<1> SUFFICES ASSUME Auth!Init PROVE AuthorityGood
  OBVIOUS
<1> USE ServicesAssumption DEF ServicesAssumption, Auth!AuthorityAssumption, Auth!Init
<1>1. ASSUME NEW g \in DOMAIN InitialGrants
      PROVE  InitialGrants[g] \in GrantRow /\ InitialGrants[g].approver # "none" /\ g \in GrantIds
             /\ InitialGrants[g].state = "APPROVED"
  <2> DEFINE r == InitialGrants[g]
  <2>1. /\ r = [state |-> "APPROVED", subject |-> r.subject, capability |-> r.capability,
                preparer |-> r.preparer, approver |-> r.approver]
        /\ r.subject \in Staff /\ r.capability \in Auth!Capabilities /\ r.approver # "none" /\ g \in GrantIds
    OBVIOUS
  <2>2. r.preparer \in Hands /\ r.approver \in Hands
    BY DEF Hands
  <2> HIDE DEF r
  <2>3. [state |-> "APPROVED", subject |-> r.subject, capability |-> r.capability,
         preparer |-> r.preparer, approver |-> r.approver] \in GrantRow
    BY <2>1, <2>2 DEF GrantRow
  <2>4. r \in GrantRow /\ r.state = "APPROVED"
    BY <2>1, <2>3
  <2>5. QED
    BY <2>1, <2>4 DEF r
<1>2. grants \in [GrantIds -> GrantRow \cup {Auth!NoGrant}]
  BY <1>1
<1>3. /\ account \in [Staff -> {"absent", "active", "disabled"}]
      /\ epoch \in [Staff -> 1..MaxEpoch]
      /\ admin \subseteq Staff /\ \A p \in admin : account[p] = "active"
  OBVIOUS
<1>4. sessions \in [Staff -> [epoch: 0..MaxEpoch, powers: SUBSET (GrantIds \cup {"ADMIN"})]]
  BY DEF Auth!NoSession
<1>5. \A p \in Staff : sessions[p].epoch = 0 /\ epoch[p] = 1
  BY DEF Auth!NoSession
<1>6. SessionsBehind /\ Auth!SessionsKnowPowers
  BY <1>5 DEF SessionsBehind, Auth!SessionsKnowPowers, Auth!ValidSession
<1>7. ApprovedByOthers
  BY DEF ApprovedByOthers, Auth!NoGrant
<1>8. \A g \in DOMAIN InitialGrants : grants[g] \in GrantRow /\ grants[g].approver # "none"
  BY <1>1
<1>9. QED
  BY <1>2, <1>3, <1>4, <1>6, <1>7, <1>8 DEF AuthorityGood

\* ProvisionStaff opens an account that had no session.
LEMMA ProvisionStaffKeeps ==
  ASSUME AuthorityGood, NEW actor \in Staff, NEW r \in AccessRequests, Auth!ProvisionStaff(actor, r)
  PROVE  AuthorityGood'
<1> DEFINE p == Beneficiary[r]
<1>1. p \in Staff
  BY ServicesAssumption DEF ServicesAssumption, Auth!AuthorityAssumption
<1> HIDE DEF p
<1>2. /\ account[p] = "absent" /\ account' = [account EXCEPT ![p] = "active"] /\ admin' = admin \cup {p}
      /\ UNCHANGED <<epoch, grants, sessions>>
  BY DEF Auth!ProvisionStaff, p
<1>3. /\ account' \in [Staff -> {"absent", "active", "disabled"}] /\ admin' \subseteq Staff
      /\ account'[p] = "active" /\ \A q \in Staff : q # p => account'[q] = account[q]
      /\ \A q \in admin' : account'[q] = "active"
  BY <1>1, <1>2 DEF AuthorityGood
<1>4. \A q \in Staff : q # p => Auth!Powers(q)' = Auth!Powers(q)
  BY <1>2, SamePowers
<1>5. SessionsBehind' /\ Auth!SessionsKnowPowers'
  BY <1>1, <1>2, <1>3, <1>4, SessionsKept DEF AuthorityGood
<1>6. QED
  BY <1>2, <1>3, <1>5 DEF AuthorityGood, ApprovedByOthers

\* What raising an epoch by one below its bound gives.
LEMMA Bumped ==
  ASSUME AuthorityGood, NEW p \in Staff, epoch[p] < MaxEpoch, Auth!Bump(p)
  PROVE  /\ epoch' \in [Staff -> 1..MaxEpoch] /\ epoch'[p] = epoch[p] + 1
         /\ \A q \in Staff : q # p => epoch'[q] = epoch[q]
<1>1. MaxEpoch \in Nat /\ epoch[p] \in 1..MaxEpoch
  BY ServicesAssumption DEF ServicesAssumption, Auth!AuthorityAssumption, AuthorityGood
<1>2. epoch[p] + 1 \in 1..MaxEpoch
  BY <1>1
<1>3. QED
  BY <1>2 DEF AuthorityGood, Auth!Bump

\* ReactivatePrincipal gives the power back and bumps the epoch.
LEMMA ReactivatePrincipalKeeps ==
  ASSUME AuthorityGood, NEW actor \in Staff, NEW r \in AccessRequests, Auth!ReactivatePrincipal(actor, r)
  PROVE  AuthorityGood'
<1> DEFINE p == Beneficiary[r]
<1>1. p \in Staff
  BY ServicesAssumption DEF ServicesAssumption, Auth!AuthorityAssumption
<1> HIDE DEF p
<1>2. /\ account[p] = "disabled" /\ account' = [account EXCEPT ![p] = "active"] /\ admin' = admin \cup {p}
      /\ epoch[p] < MaxEpoch /\ Auth!Bump(p) /\ UNCHANGED <<grants, sessions>>
  BY DEF Auth!ReactivatePrincipal, p
<1>3. /\ account' \in [Staff -> {"absent", "active", "disabled"}] /\ admin' \subseteq Staff
      /\ account'[p] = "active" /\ \A q \in Staff : q # p => account'[q] = account[q]
      /\ \A q \in admin' : account'[q] = "active"
  BY <1>1, <1>2 DEF AuthorityGood
<1>4. \A q \in Staff : q # p => Auth!Powers(q)' = Auth!Powers(q)
  BY <1>2, SamePowers
<1>5. /\ epoch' \in [Staff -> 1..MaxEpoch] /\ epoch'[p] = epoch[p] + 1
      /\ \A q \in Staff : q # p => epoch'[q] = epoch[q]
  BY <1>1, <1>2, Bumped
<1>6. \A q \in Staff : account[q] \in {"absent", "active", "disabled"}
  BY DEF AuthorityGood
<1>7. SessionsBehind' /\ Auth!SessionsKnowPowers'
  BY <1>1, <1>2, <1>3, <1>4, <1>5, <1>6, SessionsKept
<1>8. QED
  BY <1>2, <1>3, <1>5, <1>7 DEF AuthorityGood, ApprovedByOthers

\* Grants whose subject and people stay, and that reach APPROVED only by others.
GrantsMove ==
  \A g \in GrantIds : grants'[g] # grants[g] =>
    /\ grants[g] \in GrantRow /\ grants'[g] \in GrantRow
    /\ grants'[g].subject = grants[g].subject
    /\ grants'[g].approver \in {grants[g].approver} \cup Staff
    /\ grants'[g].state = "APPROVED" => grants'[g].approver \notin {"none", grants'[g].preparer, grants'[g].subject}

\* Grants that only moved from one state to the next keep their shape.
LEMMA GrantsMoved ==
  ASSUME AuthorityGood, GrantsMove, DOMAIN grants' = GrantIds,
         grants' = [g \in GrantIds |-> grants'[g]]
  PROVE  /\ grants' \in [GrantIds -> GrantRow \cup {Auth!NoGrant}]
         /\ \A g \in DOMAIN InitialGrants : grants'[g] \in GrantRow /\ grants'[g].approver # "none"
         /\ ApprovedByOthers'
<1>0. "none" \notin Staff /\ DOMAIN InitialGrants \subseteq GrantIds
  BY ServicesAssumption DEF ServicesAssumption, Auth!AuthorityAssumption
<1>1. \A g \in GrantIds : grants'[g] \in GrantRow \cup {Auth!NoGrant}
  BY DEF AuthorityGood, GrantsMove
<1>2. \A g \in DOMAIN InitialGrants : grants'[g] \in GrantRow /\ grants'[g].approver # "none"
  BY <1>0 DEF AuthorityGood, GrantsMove
<1>3. ApprovedByOthers'
  BY DEF AuthorityGood, GrantsMove, ApprovedByOthers
<1>4. QED
  BY <1>1, <1>2, <1>3

\* DisablePrincipal bumps the epoch and revokes every grant of the account.
LEMMA DisablePrincipalKeeps ==
  ASSUME AuthorityGood, NEW actor \in Staff, NEW p \in Staff, Auth!DisablePrincipal(actor, p)
  PROVE  AuthorityGood' /\ GrantsMove
         /\ \A g \in GrantIds : grants'[g].state \in {"PROPOSED", "APPROVED"} => grants'[g].subject # p
<1>1. /\ account[p] = "active" /\ account' = [account EXCEPT ![p] = "disabled"] /\ admin' = admin \ {p}
      /\ epoch[p] < MaxEpoch /\ Auth!Bump(p) /\ UNCHANGED sessions
      /\ grants' = [g \in GrantIds |-> IF g \in Auth!PowersOf(p) THEN [grants[g] EXCEPT !.state = "REVOKED"]
                                                                ELSE grants[g]]
  BY DEF Auth!DisablePrincipal
<1>2. /\ account' \in [Staff -> {"absent", "active", "disabled"}] /\ admin' \subseteq Staff
      /\ account'[p] = "disabled" /\ \A q \in Staff : q # p => account'[q] = account[q]
      /\ \A q \in admin' : account'[q] = "active"
  BY <1>1 DEF AuthorityGood
<1>3. ASSUME NEW g \in GrantIds, g \in Auth!PowersOf(p)
      PROVE  /\ grants[g] \in GrantRow /\ grants'[g] \in GrantRow /\ grants[g].subject = p
             /\ grants'[g].subject = p /\ grants'[g].state = "REVOKED"
             /\ grants'[g].approver = grants[g].approver
  <2>1. grants[g] \in GrantRow
    BY <1>3, GrantRows DEF AuthorityGood, Auth!PowersOf
  <2>2. grants'[g] = [grants[g] EXCEPT !.state = "REVOKED"] /\ grants[g].subject = p
    BY <1>1, <1>3 DEF Auth!PowersOf
  <2>3. QED
    BY <2>1, <2>2 DEF GrantRow
<1>4. \A g \in GrantIds : g \notin Auth!PowersOf(p) => grants'[g] = grants[g]
  BY <1>1
<1>5. GrantsMove
  BY <1>3, <1>4 DEF GrantsMove
<1>6. \A q \in Staff : q # p => Auth!Powers(q)' = Auth!Powers(q)
  <2> SUFFICES ASSUME NEW q \in Staff, q # p PROVE Auth!Powers(q)' = Auth!Powers(q)
    OBVIOUS
  <2>1. \A g \in GrantIds : (grants'[g].state = "APPROVED" /\ grants'[g].subject = q)
                              <=> (grants[g].state = "APPROVED" /\ grants[g].subject = q)
    BY <1>3, <1>4
  <2>2. q \in admin' <=> q \in admin
    BY <1>1
  <2>3. QED
    BY <2>1, <2>2, SamePowers
<1>7. /\ epoch' \in [Staff -> 1..MaxEpoch] /\ epoch'[p] = epoch[p] + 1
      /\ \A q \in Staff : q # p => epoch'[q] = epoch[q]
  BY <1>1, Bumped
<1>8. \A q \in Staff : account[q] \in {"absent", "active", "disabled"}
  BY DEF AuthorityGood
<1>9. SessionsBehind' /\ Auth!SessionsKnowPowers'
  BY <1>1, <1>2, <1>6, <1>7, <1>8, SessionsKept
<1>10. \A g \in GrantIds : grants'[g].state \in {"PROPOSED", "APPROVED"} => grants'[g].subject # p
  BY <1>3, <1>4 DEF Auth!PowersOf
<1>11. DOMAIN grants' = GrantIds /\ grants' = [g \in GrantIds |-> grants'[g]]
  BY <1>1
<1>12. QED
  BY <1>1, <1>2, <1>5, <1>7, <1>9, <1>10, <1>11, GrantsMoved DEF AuthorityGood

\* A proposal that is being checked has a row of its own and changes no other.
LEMMA CheckProposalKeeps ==
  ASSUME AuthorityGood, NEW actor \in Staff, NEW p \in Staff, NEW g \in GrantIds, NEW c \in Auth!Capabilities,
         Auth!CheckProposal(actor, g, p, c)
  PROVE  AuthorityGood' /\ \A h \in GrantIds : grants[h].state = "REVOKED" => grants'[h] = grants[h]
<1> DEFINE row == [state |-> "checked", subject |-> p, capability |-> c, preparer |-> actor, approver |-> "none"]
<1>1. /\ grants[g] = Auth!NoGrant /\ grants' = [grants EXCEPT ![g] = row]
      /\ UNCHANGED <<account, epoch, admin, sessions>>
  BY DEF Auth!CheckProposal
<1>2. row \in GrantRow /\ row.state = "checked"
  BY DEF GrantRow, Hands
<1> HIDE DEF row
<1>3. grants' \in [GrantIds -> GrantRow \cup {Auth!NoGrant}]
  BY <1>1, <1>2 DEF AuthorityGood
<1>4. grants'[g] = row /\ \A h \in GrantIds : h # g => grants'[h] = grants[h]
  BY <1>1 DEF AuthorityGood
<1>5. grants[g].state = "none"
  BY <1>1, GrantRows
<1>6. g \notin DOMAIN InitialGrants
  BY <1>5, GrantRows DEF AuthorityGood
<1>7. \A q \in Staff : Auth!Powers(q)' = Auth!Powers(q)
  <2> SUFFICES ASSUME NEW q \in Staff PROVE Auth!Powers(q)' = Auth!Powers(q)
    OBVIOUS
  <2>1. \A h \in GrantIds : (grants'[h].state = "APPROVED" /\ grants'[h].subject = q)
                              <=> (grants[h].state = "APPROVED" /\ grants[h].subject = q)
    BY <1>2, <1>4, <1>5
  <2>2. QED
    BY <1>1, <2>1, SamePowers
<1>8. \A q \in Staff : account[q] \in {"absent", "active", "disabled"}
  BY DEF AuthorityGood
<1>9. epoch' \in [Staff -> 1..MaxEpoch]
  BY <1>1 DEF AuthorityGood
<1>10. SessionsBehind' /\ Auth!SessionsKnowPowers'
  BY <1>1, <1>7, <1>8, <1>9, SessionsKept
<1>11. \A h \in DOMAIN InitialGrants : h \in GrantIds
  BY ServicesAssumption DEF ServicesAssumption, Auth!AuthorityAssumption
<1>12. \A h \in DOMAIN InitialGrants : grants'[h] \in GrantRow /\ grants'[h].approver # "none"
  BY <1>4, <1>6, <1>11 DEF AuthorityGood
<1>13. ApprovedByOthers'
  BY <1>2, <1>4 DEF AuthorityGood, ApprovedByOthers
<1>14. \A h \in GrantIds : grants[h].state = "REVOKED" => grants'[h] = grants[h]
  BY <1>4, <1>5
<1>15. QED
  BY <1>1, <1>3, <1>9, <1>10, <1>12, <1>13, <1>14 DEF AuthorityGood

\* A decision on one grant raises its subject's epoch or leaves the powers of everybody.
LEMMA OneGrantMoves ==
  ASSUME AuthorityGood, NEW g \in GrantIds, NEW row \in GrantRow, grants[g] \in GrantRow,
         grants' = [grants EXCEPT ![g] = row], row.subject = grants[g].subject,
         row.approver \in {grants[g].approver} \cup Staff,
         row.state = "APPROVED" => row.approver \notin {"none", row.preparer, row.subject},
         UNCHANGED <<account, admin, sessions>>,
         \/ row.state # "APPROVED" /\ grants[g].state # "APPROVED" /\ UNCHANGED epoch
         \/ epoch[row.subject] < MaxEpoch /\ Auth!Bump(row.subject)
  PROVE  AuthorityGood' /\ GrantsMove
<1>1. row.subject \in Staff
  BY GrantRows
<1>2. grants'[g] = row /\ \A h \in GrantIds : h # g => grants'[h] = grants[h]
  BY DEF AuthorityGood
<1>3. GrantsMove
  BY <1>2 DEF GrantsMove
<1>4. DOMAIN grants' = GrantIds /\ grants' = [h \in GrantIds |-> grants'[h]]
  BY DEF AuthorityGood
<1>5. /\ epoch' \in [Staff -> 1..MaxEpoch]
      /\ \A q \in Staff : q # row.subject => epoch'[q] = epoch[q]
      /\ \/ row.state # "APPROVED" /\ grants[g].state # "APPROVED" /\ epoch' = epoch
         \/ epoch'[row.subject] = epoch[row.subject] + 1
  <2>1. CASE row.state # "APPROVED" /\ grants[g].state # "APPROVED" /\ UNCHANGED epoch
    BY <2>1 DEF AuthorityGood
  <2>2. CASE epoch[row.subject] < MaxEpoch /\ Auth!Bump(row.subject)
    BY <1>1, <2>2, Bumped
  <2>3. QED
    BY <2>1, <2>2
<1>6. ASSUME NEW q \in Staff, q # row.subject \/ (row.state # "APPROVED" /\ grants[g].state # "APPROVED")
      PROVE  Auth!Powers(q)' = Auth!Powers(q)
  <2>1. \A h \in GrantIds : (grants'[h].state = "APPROVED" /\ grants'[h].subject = q)
                              <=> (grants[h].state = "APPROVED" /\ grants[h].subject = q)
    BY <1>2, <1>6
  <2>2. QED
    BY <2>1, SamePowers
<1>7. \A q \in Staff : account[q] \in {"absent", "active", "disabled"}
  BY DEF AuthorityGood
<1>8. SessionsBehind' /\ Auth!SessionsKnowPowers'
  BY <1>5, <1>6, <1>7, SessionsKept
<1>9. QED
  BY <1>3, <1>4, <1>5, <1>8, GrantsMoved DEF AuthorityGood

\* ProposeAuthorityGrant commits what was checked; no power changes.
LEMMA ProposeAuthorityGrantKeeps ==
  ASSUME AuthorityGood, NEW g \in GrantIds, Auth!ProposeAuthorityGrant(g)
  PROVE  AuthorityGood' /\ GrantsMove /\ grants[g].state # "REVOKED"
         /\ \A h \in GrantIds : h # g => grants'[h] = grants[h]
<1> DEFINE row == [grants[g] EXCEPT !.state = "PROPOSED"]
<1>1. /\ grants[g].state = "checked" /\ grants' = [grants EXCEPT ![g] = row]
      /\ UNCHANGED <<account, epoch, admin, sessions>>
  BY DEF Auth!ProposeAuthorityGrant
<1>2. grants[g] \in GrantRow
  BY <1>1, GrantRows DEF AuthorityGood
<1>3. row \in GrantRow /\ row.state = "PROPOSED" /\ row.subject = grants[g].subject /\ row.approver = grants[g].approver
  BY <1>2 DEF GrantRow
<1> HIDE DEF row
<1>4. QED
  BY <1>1, <1>2, <1>3, OneGrantMoves DEF AuthorityGood

\* ApproveAuthorityGrant is by another person and bumps the subject's epoch.
LEMMA ApproveAuthorityGrantKeeps ==
  ASSUME AuthorityGood, NEW actor \in Staff, NEW g \in GrantIds, Auth!ApproveAuthorityGrant(actor, g)
  PROVE  AuthorityGood' /\ GrantsMove /\ grants[g].state # "REVOKED"
         /\ \A h \in GrantIds : h # g => grants'[h] = grants[h]
<1> DEFINE row == [grants[g] EXCEPT !.state = "APPROVED", !.approver = actor]
<1>1. /\ grants[g].state = "PROPOSED" /\ actor \notin {grants[g].preparer, grants[g].subject}
      /\ epoch[grants[g].subject] < MaxEpoch /\ Auth!Bump(grants[g].subject)
      /\ UNCHANGED <<account, admin, sessions>>
  BY DEF Auth!ApproveAuthorityGrant, Auth!Independent
<1>2. grants' = [grants EXCEPT ![g] = row]
  BY DEF Auth!ApproveAuthorityGrant, AuthorityGood
<1>3. grants[g] \in GrantRow
  BY <1>1, GrantRows DEF AuthorityGood
<1>4. /\ row \in GrantRow /\ row.state = "APPROVED" /\ row.approver = actor
      /\ row.subject = grants[g].subject /\ row.preparer = grants[g].preparer
  BY <1>3 DEF GrantRow, Hands
<1>5. actor # "none"
  BY ServicesAssumption DEF ServicesAssumption, Auth!AuthorityAssumption
<1> HIDE DEF row
<1>6. QED
  BY <1>1, <1>2, <1>3, <1>4, <1>5, OneGrantMoves DEF AuthorityGood

\* RevokeAuthorityGrant bumps the subject's epoch.
LEMMA RevokeAuthorityGrantKeeps ==
  ASSUME AuthorityGood, NEW actor \in Staff, NEW g \in GrantIds, Auth!RevokeAuthorityGrant(actor, g)
  PROVE  AuthorityGood' /\ GrantsMove /\ grants[g].state # "REVOKED"
         /\ \A h \in GrantIds : h # g => grants'[h] = grants[h]
<1> DEFINE row == [grants[g] EXCEPT !.state = "REVOKED"]
<1>1. /\ grants[g].state \in {"PROPOSED", "APPROVED"} /\ grants' = [grants EXCEPT ![g] = row]
      /\ epoch[grants[g].subject] < MaxEpoch /\ Auth!Bump(grants[g].subject)
      /\ UNCHANGED <<account, admin, sessions>>
  BY DEF Auth!RevokeAuthorityGrant
<1>2. grants[g] \in GrantRow
  BY <1>1, GrantRows DEF AuthorityGood
<1>3. row \in GrantRow /\ row.state = "REVOKED" /\ row.subject = grants[g].subject /\ row.approver = grants[g].approver
  BY <1>2 DEF GrantRow
<1> HIDE DEF row
<1>4. QED
  BY <1>1, <1>2, <1>3, OneGrantMoves DEF AuthorityGood

\* A session is opened with the epoch and the powers of that moment, or ended.
LEMMA SessionsMoveKeeps ==
  ASSUME AuthorityGood, NEW p \in Staff, Auth!EstablishSession(p) \/ Auth!EndSession(p)
  PROVE  AuthorityGood' /\ UNCHANGED <<grants, account>>
<1>0. UNCHANGED <<account, epoch, admin, grants>>
  BY DEF Auth!EstablishSession, Auth!EndSession
<1>1. \A q \in Staff : Auth!Powers(q)' = Auth!Powers(q)
  BY <1>0, SamePowers
<1>2. \A q \in Staff : sessions[q].epoch <= epoch[q] /\ sessions[q].epoch \in 0..MaxEpoch /\ epoch[q] \in 1..MaxEpoch
  BY DEF AuthorityGood, SessionsBehind
<1>3. MaxEpoch \in Nat
  BY ServicesAssumption DEF ServicesAssumption, Auth!AuthorityAssumption
<1>4. Auth!Powers(p) \in SUBSET (GrantIds \cup {"ADMIN"})
  BY DEF Auth!Powers, Auth!InForce
<1>5. PICK s : /\ s \in [epoch: 0..MaxEpoch, powers: SUBSET (GrantIds \cup {"ADMIN"})]
               /\ sessions' = [sessions EXCEPT ![p] = s]
               /\ \/ s.epoch = epoch[p] /\ s.powers = Auth!Powers(p) /\ account[p] = "active"
                  \/ s.epoch = 0
  <2>1. CASE Auth!EstablishSession(p)
    <3> DEFINE s == [epoch |-> epoch[p], powers |-> Auth!Powers(p)]
    <3>1. /\ s \in [epoch: 0..MaxEpoch, powers: SUBSET (GrantIds \cup {"ADMIN"})]
          /\ s.epoch = epoch[p] /\ s.powers = Auth!Powers(p)
      BY <1>2, <1>3, <1>4
    <3>2. sessions' = [sessions EXCEPT ![p] = s] /\ account[p] = "active"
      BY <2>1 DEF Auth!EstablishSession
    <3>3. QED
      BY <3>1, <3>2
  <2>2. CASE Auth!EndSession(p)
    <3>1. Auth!NoSession \in [epoch: 0..MaxEpoch, powers: SUBSET (GrantIds \cup {"ADMIN"})] /\ Auth!NoSession.epoch = 0
      BY <1>3 DEF Auth!NoSession
    <3>2. sessions' = [sessions EXCEPT ![p] = Auth!NoSession]
      BY <2>2 DEF Auth!EndSession
    <3>3. QED
      BY <3>1, <3>2
  <2>3. QED
    BY <2>1, <2>2
<1>6. sessions' \in [Staff -> [epoch: 0..MaxEpoch, powers: SUBSET (GrantIds \cup {"ADMIN"})]]
  BY <1>5 DEF AuthorityGood
<1>7. sessions'[p] = s /\ \A q \in Staff : q # p => sessions'[q] = sessions[q]
  BY <1>5 DEF AuthorityGood
<1>8. SessionsBehind'
  BY <1>0, <1>2, <1>5, <1>7 DEF AuthorityGood, SessionsBehind
<1>9. ASSUME NEW q \in Staff, account'[q] = "active", sessions'[q].epoch = epoch'[q]
      PROVE  sessions'[q].powers = Auth!Powers(q)'
  <2>1. CASE q = p
    BY <1>0, <1>1, <1>2, <1>5, <1>7, <1>9, <2>1
  <2>2. CASE q # p
    BY <1>0, <1>1, <1>7, <1>9, <2>2 DEF AuthorityGood, Auth!SessionsKnowPowers, Auth!ValidSession
  <2>3. QED
    BY <2>1, <2>2
<1>10. Auth!SessionsKnowPowers'
  BY <1>9 DEF Auth!SessionsKnowPowers, Auth!ValidSession
<1>11. QED
  BY <1>0, <1>6, <1>8, <1>10 DEF AuthorityGood, ApprovedByOthers

\* Every command of agni.identity keeps the invariant, and revoked grants revoked.
LEMMA AuthorityKept ==
  AuthorityGood /\ [Auth!Next]_authorityRows => AuthorityGood' /\ (Auth!Next => Auth!RevokedStaysRevoked)
<1> SUFFICES ASSUME AuthorityGood, [Auth!Next]_authorityRows
             PROVE  AuthorityGood' /\ (Auth!Next => Auth!RevokedStaysRevoked)
  OBVIOUS
<1> DEFINE Done == AuthorityGood' /\ Auth!RevokedStaysRevoked
<1>0. ASSUME UNCHANGED grants, AuthorityGood', \A p \in Staff : ~(account[p] = "active" /\ account'[p] = "disabled")
      PROVE  Done
  BY <1>0 DEF Auth!RevokedStaysRevoked
<1>1. ASSUME NEW actor \in Staff, NEW r \in AccessRequests, Auth!ProvisionStaff(actor, r) PROVE Done
  <2>1. UNCHANGED grants /\ account' = [account EXCEPT ![Beneficiary[r]] = "active"]
    BY <1>1 DEF Auth!ProvisionStaff
  <2>2. QED
    BY <1>0, <1>1, <2>1, ProvisionStaffKeeps DEF AuthorityGood
<1>2. ASSUME NEW actor \in Staff, NEW r \in AccessRequests, Auth!ReactivatePrincipal(actor, r) PROVE Done
  <2>1. UNCHANGED grants /\ account' = [account EXCEPT ![Beneficiary[r]] = "active"]
    BY <1>2 DEF Auth!ReactivatePrincipal
  <2>2. QED
    BY <1>0, <1>2, <2>1, ReactivatePrincipalKeeps DEF AuthorityGood
<1>3. ASSUME NEW actor \in Staff, NEW p \in Staff, Auth!DisablePrincipal(actor, p) PROVE Done
  <2>1. /\ account' = [account EXCEPT ![p] = "disabled"]
        /\ grants' = [g \in GrantIds |-> IF g \in Auth!PowersOf(p) THEN [grants[g] EXCEPT !.state = "REVOKED"]
                                                                  ELSE grants[g]]
    BY <1>3 DEF Auth!DisablePrincipal
  <2>2. \A g \in GrantIds : grants[g].state = "REVOKED" => grants'[g] = grants[g]
    BY <2>1 DEF Auth!PowersOf
  <2>3. \A q \in Staff : account[q] = "active" /\ account'[q] = "disabled" => q = p
    BY <2>1 DEF AuthorityGood
  <2>4. QED
    BY <1>3, <2>2, <2>3, DisablePrincipalKeeps DEF Auth!RevokedStaysRevoked
<1>4. ASSUME NEW actor \in Staff, NEW p \in Staff, NEW g \in GrantIds, NEW c \in Auth!Capabilities,
             Auth!CheckProposal(actor, g, p, c)
      PROVE  Done
  <2>1. UNCHANGED account
    BY <1>4 DEF Auth!CheckProposal
  <2>2. QED
    BY <1>4, <2>1, CheckProposalKeeps DEF Auth!RevokedStaysRevoked
<1>5. ASSUME NEW g \in GrantIds, Auth!ProposeAuthorityGrant(g) PROVE Done
  <2>1. UNCHANGED account
    BY <1>5 DEF Auth!ProposeAuthorityGrant
  <2>2. QED
    BY <1>5, <2>1, ProposeAuthorityGrantKeeps DEF Auth!RevokedStaysRevoked
<1>6. ASSUME NEW actor \in Staff, NEW g \in GrantIds, Auth!ApproveAuthorityGrant(actor, g) PROVE Done
  <2>1. UNCHANGED account
    BY <1>6 DEF Auth!ApproveAuthorityGrant
  <2>2. QED
    BY <1>6, <2>1, ApproveAuthorityGrantKeeps DEF Auth!RevokedStaysRevoked
<1>7. ASSUME NEW actor \in Staff, NEW g \in GrantIds, Auth!RevokeAuthorityGrant(actor, g) PROVE Done
  <2>1. UNCHANGED account
    BY <1>7 DEF Auth!RevokeAuthorityGrant
  <2>2. QED
    BY <1>7, <2>1, RevokeAuthorityGrantKeeps DEF Auth!RevokedStaysRevoked
<1>8. ASSUME NEW p \in Staff, Auth!EstablishSession(p) \/ Auth!EndSession(p) PROVE Done
  BY <1>0, <1>8, SessionsMoveKeeps
<1>9. ASSUME UNCHANGED authorityRows PROVE AuthorityGood'
  <2>1. \A p \in Staff : Auth!Powers(p)' = Auth!Powers(p)
    BY <1>9, SamePowers DEF authorityRows
  <2>2. QED
    BY <1>9, <2>1 DEF authorityRows, AuthorityGood, SessionsBehind, ApprovedByOthers, Auth!SessionsKnowPowers, Auth!ValidSession
<1> HIDE DEF Done
<1>10. Auth!Next => Done
  BY <1>1, <1>2, <1>3, <1>4, <1>5, <1>6, <1>7, <1>8 DEF Auth!Next
<1>11. QED
  BY <1>9, <1>10 DEF Done

-----------------------------------------------------------------------------
(* Policies are kept. *)

\* The instants are numbers, and Open is after all of them.
LEMMA PolicyTimes ==
  /\ MaxTime \in Nat /\ Poli!Open \in Nat
  /\ \A i \in Poli!Instants : i \in Nat /\ 0 < i /\ i < Poli!Open /\ i \in 0..Poli!Open
  /\ \A i \in Poli!Instants \cup {Poli!Open} : i \in Nat /\ i \in 0..Poli!Open
  /\ "none" \notin Editors
BY ServicesAssumption DEF ServicesAssumption, Poli!PoliciesAssumption, Poli!Open, Poli!Instants

\* What the properties say of a version's own row, and what is shared.
VersionGood(v) ==
  /\ policy[v].state \in Poli!Effective =>
       policy[v].from < policy[v].until /\ policy[v].approver # "none"
  /\ (policy[v].state = "none") = (contributors[v] = {})
  /\ policy[v].state \in Poli!Effective \cup {"RETIRED"} =>
       /\ policy[v].approver \notin contributors[v]
       /\ policy[v].payload = policy[v].candidate
       /\ <<v, policy[v].payload>> \in passed

\* The policy invariant row by row, where a step that writes one row is seen best.
LEMMA VersionsGood ==
  ASSUME policy \in [Versions -> PolicyRow]
  PROVE  (Poli!TypeOK /\ Poli!ApprovedAsReviewed) <=>
           /\ \A v \in Versions : VersionGood(v)
           /\ \A x \in pinned : policy[x[1]].state \in {"ACTIVE", "SCHEDULED", "RETIRED"}
BY DEF VersionGood, PolicyRow, Poli!TypeOK, Poli!ApprovedAsReviewed, Poli!Effective

\* The same of the next state.
LEMMA VersionsGoodNext ==
  ASSUME policy' \in [Versions -> PolicyRow]
  PROVE  (Poli!TypeOK' /\ Poli!ApprovedAsReviewed') <=>
           /\ \A v \in Versions : VersionGood(v)'
           /\ \A x \in pinned' : policy'[x[1]].state \in {"ACTIVE", "SCHEDULED", "RETIRED"}
BY DEF VersionGood, PolicyRow, Poli!TypeOK, Poli!ApprovedAsReviewed, Poli!Effective

\* Intervals that did not meet do not meet when one of them gets shorter.
LEMMA MeetsLess ==
  ASSUME NEW a \in PolicyRow, NEW b \in PolicyRow, NEW c \in PolicyRow, NEW d \in PolicyRow,
         a.from = c.from, c.until <= a.until, b.from = d.from, d.until <= b.until,
         ~Poli!Meets(a.from, a.until, b)
  PROVE  ~Poli!Meets(c.from, c.until, d)
<1>1. \A r \in PolicyRow : r.from \in Nat /\ r.until \in Nat
  BY PolicyTimes DEF PolicyRow
<1>2. QED
  BY <1>1 DEF Poli!Meets

\* There is no version at the beginning.
LEMMA PolicyStarts == Poli!Init => PolicyGood
<1> SUFFICES ASSUME Poli!Init PROVE PolicyGood
  OBVIOUS
<1> USE DEF Poli!Init
<1>1. policyTime \in 1..MaxTime
  BY ServicesAssumption DEF ServicesAssumption, Poli!PoliciesAssumption
<1>2. policy \in [Versions -> PolicyRow]
  BY PolicyTimes DEF PolicyRow
<1>3. \A v \in Versions : VersionGood(v)
  BY DEF VersionGood, Poli!Effective
<1>4. Poli!TypeOK /\ Poli!ApprovedAsReviewed
  BY <1>2, <1>3, VersionsGood
<1>5. Poli!OnePolicyAtATime
  BY DEF Poli!OnePolicyAtATime
<1>6. QED
  BY <1>1, <1>2, <1>4, <1>5 DEF PolicyGood, ApprovalsApart

\* What an approval under way holds is in review, or in force.
LEMMA ApprovalsAway ==
  ASSUME PolicyGood, NEW v \in Versions, policy[v].state \notin {"IN_REVIEW"} \cup Poli!Effective
  PROVE  \A a \in approvals : a.version # v /\ v \notin a.closes
BY DEF PolicyGood, StillApprovable

\* A version that no approval holds changes its row; the intervals in force stay apart.
LEMMA VersionMoves ==
  ASSUME PolicyGood, NEW v \in Versions, policy' \in [Versions -> PolicyRow],
         \A o \in Versions : o # v => policy'[o] = policy[o] /\ contributors'[o] = contributors[o],
         \A a \in approvals : a.version # v /\ v \notin a.closes,
         contributors' \in [Versions -> SUBSET Editors], passed \subseteq passed',
         UNCHANGED <<policyTime, approvals, pinned>>,
         VersionGood(v)', policy'[v].state \notin {"ACTIVE", "SCHEDULED"},
         policy[v].state \notin {"ACTIVE", "SCHEDULED", "RETIRED"}
  PROVE  PolicyGood'
<1>1. \A o \in Versions : o # v => VersionGood(o)'
  <2>1. \A o \in Versions : VersionGood(o)
    BY VersionsGood DEF PolicyGood
  <2>2. QED
    BY <2>1 DEF VersionGood
<1>2. \A x \in pinned' : policy'[x[1]].state \in {"ACTIVE", "SCHEDULED", "RETIRED"}
  <2> SUFFICES ASSUME NEW x \in pinned PROVE policy'[x[1]].state \in {"ACTIVE", "SCHEDULED", "RETIRED"}
    OBVIOUS
  <2>1. x[1] \in Versions /\ policy[x[1]].state \in {"ACTIVE", "SCHEDULED", "RETIRED"}
    BY DEF PolicyGood, Poli!TypeOK
  <2>2. QED
    BY <2>1
<1>3. \A a \in approvals : StillApprovable(a)'
  <2> SUFFICES ASSUME NEW a \in approvals PROVE StillApprovable(a)'
    OBVIOUS
  <2>1. StillApprovable(a) /\ a \in Approval
    BY DEF PolicyGood
  <2>2. a.version \in Versions /\ a.closes \subseteq Versions /\ a.version # v /\ v \notin a.closes
    BY <2>1 DEF Approval
  <2>3. QED
    BY <2>1, <2>2 DEF StillApprovable
<1>4. Poli!OnePolicyAtATime'
  BY DEF PolicyGood, Poli!OnePolicyAtATime
<1>5. QED
  BY <1>1, <1>2, <1>3, <1>4, VersionsGoodNext DEF PolicyGood, ApprovalsApart

\* A draft is written while its version is not under review.
LEMMA PreparesPolicy ==
  ASSUME PolicyGood, NEW actor \in Editors, NEW v \in Versions, NEW p \in Payloads,
         Poli!PreparePolicyDraft(actor, v, p) \/ Poli!PatchPolicyDraft(actor, v, p)
  PROVE  PolicyGood'
<1>1. policy \in [Versions -> PolicyRow] /\ contributors \in [Versions -> SUBSET Editors]
  BY DEF PolicyGood
<1>2. /\ policy[v].state \in {"none", "DRAFT", "RETURNED"}
      /\ policy' = [policy EXCEPT ![v] = policy'[v]]
      /\ policy'[v] \in PolicyRow /\ policy'[v].state = "DRAFT"
      /\ contributors' = [contributors EXCEPT ![v] = contributors'[v]]
      /\ actor \in contributors'[v] /\ contributors'[v] \subseteq Editors
      /\ UNCHANGED <<policyTime, passed, approvals, pinned>>
  <2>1. CASE Poli!PreparePolicyDraft(actor, v, p)
    BY <1>1, <2>1 DEF Poli!PreparePolicyDraft, PolicyRow
  <2>2. CASE Poli!PatchPolicyDraft(actor, v, p)
    <3>1. PICK row : row = [policy[v] EXCEPT !.state = "DRAFT", !.payload = p, !.candidate = "none"]
      OBVIOUS
    <3>2. policy[v] \in PolicyRow /\ contributors[v] \subseteq Editors
      BY <1>1
    <3>3. row \in PolicyRow /\ row.state = "DRAFT"
      BY <3>1, <3>2 DEF PolicyRow
    <3>4. policy' = [policy EXCEPT ![v] = row] /\ policy[v].state \in {"DRAFT", "RETURNED"}
      BY <1>1, <2>2, <3>1 DEF Poli!PatchPolicyDraft, Poli!Editable
    <3>5. /\ contributors' = [contributors EXCEPT ![v] = contributors[v] \cup {actor}]
          /\ UNCHANGED <<policyTime, passed, approvals, pinned>>
      BY <2>2 DEF Poli!PatchPolicyDraft
    <3>6. policy'[v] = row /\ contributors'[v] = contributors[v] \cup {actor}
      BY <1>1, <3>4, <3>5
    <3>7. QED
      BY <3>2, <3>3, <3>4, <3>5, <3>6
  <2>3. QED
    BY <2>1, <2>2
<1>3. VersionGood(v)'
  BY <1>2 DEF VersionGood, Poli!Effective
<1>4. \A a \in approvals : a.version # v /\ v \notin a.closes
  BY <1>2, ApprovalsAway DEF Poli!Effective
<1>5. QED
  BY <1>1, <1>2, <1>3, <1>4, VersionMoves

\* Submission freezes the payload; a return needs the row unlocked.
LEMMA ReviewsPolicy ==
  ASSUME PolicyGood, NEW v \in Versions, Poli!SubmitPolicyForReview(v) \/ Poli!ReturnPolicy(v)
  PROVE  PolicyGood'
<1>1. policy \in [Versions -> PolicyRow] /\ contributors \in [Versions -> SUBSET Editors]
  BY DEF PolicyGood
<1>2. /\ policy[v].state \in {"DRAFT", "RETURNED", "IN_REVIEW"}
      /\ policy[v].state = "IN_REVIEW" => Poli!Unlocked(v)
      /\ policy' = [policy EXCEPT ![v] = policy'[v]]
      /\ policy'[v] \in PolicyRow /\ policy'[v].state \in {"IN_REVIEW", "RETURNED"}
      /\ UNCHANGED <<contributors, policyTime, passed, approvals, pinned>>
  <2>1. CASE Poli!SubmitPolicyForReview(v)
    BY <1>1, <2>1 DEF Poli!SubmitPolicyForReview, Poli!Editable, PolicyRow
  <2>2. CASE Poli!ReturnPolicy(v)
    BY <1>1, <2>2 DEF Poli!ReturnPolicy, PolicyRow
  <2>3. QED
    BY <2>1, <2>2
<1>3. VersionGood(v)'
  <2>1. contributors[v] # {}
    <3>1. VersionGood(v)
      BY VersionsGood DEF PolicyGood
    <3>2. QED
      BY <1>2, <3>1 DEF VersionGood
  <2>2. QED
    BY <1>2, <2>1 DEF VersionGood, Poli!Effective
<1>4. \A a \in approvals : a.version # v /\ v \notin a.closes
  <2>1. CASE policy[v].state = "IN_REVIEW"
    BY <1>2, <2>1 DEF Poli!Unlocked
  <2>2. CASE policy[v].state # "IN_REVIEW"
    BY <1>2, <2>2, ApprovalsAway DEF Poli!Effective
  <2>3. QED
    BY <2>1, <2>2
<1>5. QED
  BY <1>1, <1>2, <1>3, <1>4, VersionMoves

\* A simulation passes a payload of a version.
LEMMA SimulatesPolicy ==
  ASSUME PolicyGood, NEW v \in Versions, Poli!RunPolicySimulation(v)
  PROVE  PolicyGood'
<1>1. /\ passed \subseteq passed'
      /\ UNCHANGED <<policy, contributors, policyTime, approvals, pinned>>
  BY DEF Poli!RunPolicySimulation
<1>2. \A o \in Versions : VersionGood(o)'
  <2>1. \A o \in Versions : VersionGood(o)
    BY VersionsGood DEF PolicyGood
  <2>2. QED
    BY <1>1, <2>1 DEF VersionGood
<1>3. \A x \in pinned' : policy'[x[1]].state \in {"ACTIVE", "SCHEDULED", "RETIRED"}
  BY <1>1 DEF PolicyGood, Poli!TypeOK
<1>4. \A a \in approvals : StillApprovable(a)'
  BY <1>1 DEF PolicyGood, StillApprovable
<1>5. Poli!OnePolicyAtATime'
  BY <1>1 DEF PolicyGood, Poli!OnePolicyAtATime
<1>6. QED
  BY <1>1, <1>2, <1>3, <1>4, <1>5, VersionsGoodNext DEF PolicyGood, ApprovalsApart

\* An approval that was checked holds its version and the one it closes.
LEMMA ChecksApproval ==
  ASSUME PolicyGood, NEW actor \in Editors, NEW v \in Versions, NEW from \in Poli!Instants,
         NEW until \in Poli!Instants \cup {Poli!Open}, NEW closing \in BOOLEAN,
         Poli!CheckApproval(actor, v, from, until, closing)
  PROVE  PolicyGood'
<1> DEFINE found == IF closing THEN Poli!Predecessors(v, from) ELSE {}
           closes == IF Poli!Cardinality(found) = 1 THEN found ELSE {}
           x == [version |-> v, approver |-> actor, from |-> from, until |-> until, closes |-> closes]
<1>1. /\ Poli!Unlocked(v) /\ \A o \in found : Poli!Unlocked(o)
      /\ Poli!Reviewed(actor, v) /\ from < until
      /\ approvals' = approvals \cup {x}
      /\ UNCHANGED <<policyTime, policy, contributors, passed, pinned>>
  BY DEF Poli!CheckApproval
<1>2. closes \subseteq found /\ found \subseteq Poli!Predecessors(v, from)
  OBVIOUS
<1> HIDE DEF closes, found
<1>3. closes \subseteq Versions
  BY <1>2 DEF Poli!Predecessors
<1>4. /\ x \in Approval
      /\ x.version = v /\ x.approver = actor /\ x.from = from /\ x.until = until /\ x.closes = closes
  BY <1>3 DEF Approval
<1> HIDE DEF x
<1>5. StillApprovable(x)
  BY <1>1, <1>2, <1>4 DEF StillApprovable, Poli!Reviewed, Poli!Predecessors
<1>6. \A a \in approvals' : a \in Approval /\ StillApprovable(a)'
  <2>1. \A a \in approvals' : a \in Approval /\ StillApprovable(a)
    BY <1>1, <1>4, <1>5 DEF PolicyGood
  <2>2. QED
    BY <1>1, <2>1 DEF StillApprovable
<1>7. ApprovalsApart'
  <2>1. \A a \in approvals : a.version # x.version /\ a.closes \cap x.closes = {}
    BY <1>1, <1>2, <1>4 DEF Poli!Unlocked
  <2>2. QED
    BY <1>1, <2>1 DEF PolicyGood, ApprovalsApart
<1>8. Poli!TypeOK' /\ Poli!OnePolicyAtATime' /\ Poli!ApprovedAsReviewed'
  BY <1>1 DEF PolicyGood, Poli!TypeOK, Poli!OnePolicyAtATime, Poli!ApprovedAsReviewed
<1>9. QED
  BY <1>1, <1>6, <1>7, <1>8 DEF PolicyGood

\* An approval commits: its version is approved, the open predecessor gets an end.
LEMMA ApprovesPolicy ==
  ASSUME PolicyGood, NEW a \in approvals, Poli!ApprovePolicy(a)
  PROVE  PolicyGood'
<1>1. PICK v, closes : v = a.version /\ closes = a.closes
  OBVIOUS
<1>2. /\ policy \in [Versions -> PolicyRow]
      /\ v \in Versions /\ closes \subseteq Versions /\ a.approver \in Editors
      /\ a.from \in Poli!Instants /\ a.until \in Poli!Instants \cup {Poli!Open}
  BY <1>1 DEF PolicyGood, Approval
<1>3. /\ policy[v].state = "IN_REVIEW" /\ a.approver \notin contributors[v]
      /\ policy[v].candidate = policy[v].payload /\ <<v, policy[v].payload>> \in passed
      /\ a.from < a.until
      /\ \A o \in closes : /\ policy[o].state \in Poli!Effective
                           /\ policy[o].until = Poli!Open /\ policy[o].from < a.from
  BY <1>1 DEF PolicyGood, StillApprovable
<1>4. v \notin closes
  BY <1>3 DEF Poli!Effective
<1>5. /\ policy'[v] = [policy[v] EXCEPT !.state = "APPROVED", !.approver = a.approver,
                                        !.from = a.from, !.until = a.until]
      /\ \A o \in Versions : o # v =>
           policy'[o] = IF o \in closes THEN [policy[o] EXCEPT !.until = a.from] ELSE policy[o]
      /\ DOMAIN policy' = Versions /\ policy' = [o \in Versions |-> policy'[o]]
      /\ approvals' = approvals \ {a}
      /\ UNCHANGED <<policyTime, contributors, passed, pinned>>
  BY <1>1, <1>2, <1>4 DEF Poli!ApprovePolicy, Poli!Closed
<1>6. /\ policy'[v] \in PolicyRow /\ policy'[v].state = "APPROVED" /\ policy'[v].approver = a.approver
      /\ policy'[v].from = a.from /\ policy'[v].until = a.until
      /\ policy'[v].payload = policy[v].payload /\ policy'[v].candidate = policy[v].candidate
  <2>1. policy[v] \in PolicyRow
    BY <1>2
  <2>2. a.from \in 0..Poli!Open /\ a.until \in 0..Poli!Open
    BY <1>2, PolicyTimes
  <2>3. QED
    BY <1>2, <1>5, <2>1, <2>2 DEF PolicyRow, Poli!Effective
<1>7. ASSUME NEW o \in Versions, o # v
      PROVE  /\ policy'[o] \in PolicyRow
             /\ policy'[o].state = policy[o].state /\ policy'[o].approver = policy[o].approver
             /\ policy'[o].payload = policy[o].payload /\ policy'[o].candidate = policy[o].candidate
             /\ policy'[o].from = policy[o].from /\ policy'[o].until <= policy[o].until
             /\ o \notin closes => policy'[o] = policy[o]
             /\ o \in closes => policy'[o].from < policy'[o].until
  <2>1. policy[o] \in PolicyRow
    BY <1>2
  <2>2. /\ policy[o].from \in Nat /\ policy[o].until \in Nat
        /\ a.from \in 0..Poli!Open /\ a.from \in Nat /\ a.from < Poli!Open
    BY <1>2, <2>1, PolicyTimes DEF PolicyRow
  <2>3. CASE o \in closes
    BY <1>3, <1>5, <1>7, <2>1, <2>2, <2>3 DEF PolicyRow
  <2>4. CASE o \notin closes
    BY <1>5, <1>7, <2>1, <2>2, <2>4
  <2>5. QED
    BY <2>3, <2>4
<1>8. policy' \in [Versions -> PolicyRow]
  BY <1>5, <1>6, <1>7
<1>9. \A o \in Versions : VersionGood(o)
  BY VersionsGood DEF PolicyGood
<1>10. VersionGood(v)'
  <2>1. contributors[v] # {}
    BY <1>2, <1>3, <1>9 DEF VersionGood
  <2>2. a.approver # "none"
    BY <1>2, PolicyTimes
  <2>3. QED
    BY <1>3, <1>5, <1>6, <2>1, <2>2 DEF VersionGood
<1>11. ASSUME NEW o \in Versions, o # v PROVE VersionGood(o)'
  <2>1. CASE o \in closes
    BY <1>5, <1>7, <1>9, <1>11, <2>1 DEF VersionGood
  <2>2. CASE o \notin closes
    BY <1>5, <1>7, <1>9, <1>11, <2>2 DEF VersionGood
  <2>3. QED
    BY <2>1, <2>2
<1>12. \A x \in pinned' : policy'[x[1]].state \in {"ACTIVE", "SCHEDULED", "RETIRED"}
  <2> SUFFICES ASSUME NEW x \in pinned PROVE policy'[x[1]].state \in {"ACTIVE", "SCHEDULED", "RETIRED"}
    BY <1>5
  <2>1. x[1] \in Versions /\ policy[x[1]].state \in {"ACTIVE", "SCHEDULED", "RETIRED"}
    BY DEF PolicyGood, Poli!TypeOK
  <2>2. x[1] # v
    BY <1>3, <2>1
  <2>3. QED
    BY <1>7, <2>1, <2>2
<1>13. ASSUME NEW b \in approvals' PROVE StillApprovable(b)'
  <2>1. /\ b \in approvals /\ b # a /\ b \in Approval /\ StillApprovable(b)
    BY <1>5, <1>13 DEF PolicyGood
  <2>2. b.version \in Versions /\ b.closes \subseteq Versions
    BY <2>1 DEF Approval
  <2>3. b.version # v /\ b.closes \cap closes = {}
    BY <1>1, <2>1 DEF PolicyGood, ApprovalsApart
  <2>4. b.version \notin closes /\ v \notin b.closes
    BY <1>3, <2>1 DEF StillApprovable, Poli!Effective
  <2>5. policy'[b.version] = policy[b.version] /\ \A o \in b.closes : policy'[o] = policy[o]
    BY <1>7, <2>2, <2>3, <2>4
  <2>6. QED
    BY <1>5, <2>1, <2>5 DEF StillApprovable
<1>14. Poli!OnePolicyAtATime'
  <2> SUFFICES ASSUME NEW u \in Versions, NEW o \in Versions, u # o,
                      policy'[u].state \in {"ACTIVE", "SCHEDULED"}, policy'[o].state \in {"ACTIVE", "SCHEDULED"}
               PROVE  ~Poli!Meets(policy'[u].from, policy'[u].until, policy'[o])
    BY ZenonT(30) DEF Poli!OnePolicyAtATime, Poli!Meets
  <2>1. u # v /\ o # v
    BY <1>6
  <2>2. policy[u].state \in {"ACTIVE", "SCHEDULED"} /\ policy[o].state \in {"ACTIVE", "SCHEDULED"}
    BY <1>7, <2>1
  <2>3. ~Poli!Meets(policy[u].from, policy[u].until, policy[o])
    BY <2>2 DEF PolicyGood, Poli!OnePolicyAtATime
  <2>4. policy[u] \in PolicyRow /\ policy[o] \in PolicyRow /\ policy'[u] \in PolicyRow /\ policy'[o] \in PolicyRow
    BY <1>2, <1>8
  <2>5. policy'[u].from = policy[u].from /\ policy'[u].until <= policy[u].until
        /\ policy'[o].from = policy[o].from /\ policy'[o].until <= policy[o].until
    BY <1>7, <2>1
  <2>6. PICK ru, ro, su, so : ru = policy[u] /\ ro = policy[o] /\ su = policy'[u] /\ so = policy'[o]
    OBVIOUS
  <2>7. ~Poli!Meets(su.from, su.until, so)
    BY <2>3, <2>4, <2>5, <2>6, MeetsLess
  <2>8. QED
    BY <2>6, <2>7 DEF Poli!Meets
<1>15. approvals' \subseteq Approval /\ ApprovalsApart'
  BY <1>5 DEF PolicyGood, ApprovalsApart
<1>16. QED
  BY <1>5, <1>8, <1>10, <1>11, <1>12, <1>13, <1>14, <1>15, VersionsGoodNext DEF PolicyGood

\* ActivatePolicy checks the overlap again, so no instant gets a second version.
LEMMA ActivatesPolicy ==
  ASSUME PolicyGood, NEW v \in Versions, Poli!ActivatePolicy(v)
  PROVE  PolicyGood'
<1> DEFINE over == {o \in Versions \ {v} : policy[o].state = "ACTIVE" /\ policy[o].until <= policyTime}
           retired == IF policy[v].from <= policyTime THEN over ELSE {}
<1>1. policy \in [Versions -> PolicyRow] /\ policyTime \in 1..MaxTime
  BY DEF PolicyGood
<1>2. /\ Poli!Unlocked(v) /\ policy[v].state \in {"APPROVED", "SCHEDULED"}
      /\ Poli!NoOverlap(v, policy[v].from, policy[v].until, policy)
      /\ policy' = [o \in Versions |-> policy'[o]]
      /\ policy'[v] = [policy[v] EXCEPT !.state = IF policy[v].from > policyTime THEN "SCHEDULED" ELSE "ACTIVE"]
      /\ \A o \in Versions : o # v =>
           policy'[o] = IF o \in retired THEN [policy[o] EXCEPT !.state = "RETIRED"] ELSE policy[o]
      /\ UNCHANGED <<policyTime, contributors, passed, approvals, pinned>>
  BY <1>1 DEF Poli!ActivatePolicy
<1>3. \A o \in retired : o \in Versions /\ o # v /\ policy[o].state = "ACTIVE" /\ policy[o].until <= policyTime
  OBVIOUS
<1> HIDE DEF retired, over
<1>4. ASSUME NEW o \in Versions
      PROVE  /\ policy'[o] \in PolicyRow
             /\ policy'[o].approver = policy[o].approver
             /\ policy'[o].payload = policy[o].payload /\ policy'[o].candidate = policy[o].candidate
             /\ policy'[o].from = policy[o].from /\ policy'[o].until = policy[o].until
             /\ o = v => policy'[o].state \in {"SCHEDULED", "ACTIVE"}
             /\ o \in retired => policy'[o].state = "RETIRED"
             /\ o # v /\ o \notin retired => policy'[o] = policy[o]
  <2>1. policy[o] \in PolicyRow
    BY <1>1
  <2>2. CASE o = v
    BY <1>2, <1>3, <2>1, <2>2 DEF PolicyRow, Poli!Effective
  <2>3. CASE o # v
    BY <1>2, <2>1, <2>3 DEF PolicyRow
  <2>4. QED
    BY <2>2, <2>3
<1>5. policy' \in [Versions -> PolicyRow]
  BY <1>2, <1>4
<1>6. ASSUME NEW o \in Versions PROVE VersionGood(o)'
  <2>1. VersionGood(o)
    BY VersionsGood DEF PolicyGood
  <2>2. CASE o = v
    BY <1>2, <1>4, <2>1, <2>2 DEF VersionGood, Poli!Effective
  <2>3. CASE o \in retired
    BY <1>2, <1>3, <1>4, <2>1, <2>3 DEF VersionGood, Poli!Effective
  <2>4. CASE o # v /\ o \notin retired
    BY <1>2, <1>4, <2>1, <2>4 DEF VersionGood
  <2>5. QED
    BY <2>2, <2>3, <2>4
<1>7. \A x \in pinned' : policy'[x[1]].state \in {"ACTIVE", "SCHEDULED", "RETIRED"}
  <2> SUFFICES ASSUME NEW x \in pinned PROVE policy'[x[1]].state \in {"ACTIVE", "SCHEDULED", "RETIRED"}
    BY <1>2
  <2>1. x[1] \in Versions /\ policy[x[1]].state \in {"ACTIVE", "SCHEDULED", "RETIRED"}
    BY DEF PolicyGood, Poli!TypeOK
  <2>2. QED
    BY <1>4, <2>1
<1>8. ASSUME NEW a \in approvals PROVE StillApprovable(a)'
  <2>1. StillApprovable(a) /\ a \in Approval
    BY DEF PolicyGood
  <2>2. a.version \in Versions /\ a.closes \subseteq Versions /\ a.version # v /\ v \notin a.closes
    BY <1>2, <2>1 DEF Approval, Poli!Unlocked
  <2>3. a.version \notin retired
    BY <1>3, <2>1 DEF StillApprovable
  <2>4. a.closes \cap retired = {}
    <3>1. ASSUME NEW o \in a.closes, o \in retired PROVE FALSE
      <4>1. policy[o].until = Poli!Open /\ policy[o].until <= policyTime
        BY <1>3, <2>1, <3>1 DEF StillApprovable
      <4>2. Poli!Open = MaxTime + 2 /\ MaxTime \in Nat
        BY PolicyTimes DEF Poli!Open
      <4>3. QED
        BY <1>1, <4>1, <4>2
    <3>2. QED
      BY <3>1
  <2>5. policy'[a.version] = policy[a.version] /\ \A o \in a.closes : policy'[o] = policy[o]
    BY <1>4, <2>2, <2>3, <2>4
  <2>6. QED
    BY <1>2, <2>1, <2>5 DEF StillApprovable
<1>9. Poli!OnePolicyAtATime'
  <2> SUFFICES ASSUME NEW u \in Versions, NEW o \in Versions, u # o,
                      policy'[u].state \in {"ACTIVE", "SCHEDULED"}, policy'[o].state \in {"ACTIVE", "SCHEDULED"}
               PROVE  ~Poli!Meets(policy'[u].from, policy'[u].until, policy'[o])
    BY ZenonT(30) DEF Poli!OnePolicyAtATime, Poli!Meets
  <2>1. u \notin retired /\ o \notin retired
    BY <1>4
  <2>2. /\ u # v => policy[u].state \in {"ACTIVE", "SCHEDULED"}
        /\ o # v => policy[o].state \in {"ACTIVE", "SCHEDULED"}
    BY <1>4, <2>1
  <2>3. CASE u = v
    BY <1>2, <1>4, <2>2, <2>3 DEF Poli!NoOverlap, Poli!Effective, Poli!Meets
  <2>4. CASE o = v
    <3>1. ~Poli!Meets(policy[v].from, policy[v].until, policy[u])
      BY <1>2, <2>2, <2>4 DEF Poli!NoOverlap, Poli!Effective
    <3>2. QED
      BY <1>4, <2>4, <3>1 DEF Poli!Meets
  <2>5. CASE u # v /\ o # v
    <3>1. ~Poli!Meets(policy[u].from, policy[u].until, policy[o])
      BY <2>2, <2>5 DEF PolicyGood, Poli!OnePolicyAtATime
    <3>2. QED
      BY <1>4, <3>1 DEF Poli!Meets
  <2>6. QED
    BY <2>3, <2>4, <2>5
<1>10. QED
  BY <1>2, <1>5, <1>6, <1>7, <1>8, <1>9, VersionsGoodNext DEF PolicyGood, ApprovalsApart

\* A submission pins the version in force; time passes.
LEMMA SubmitsUnderPolicy ==
  ASSUME PolicyGood, Poli!Submit \/ Poli!PassTime
  PROVE  PolicyGood'
<1>1. /\ UNCHANGED <<policy, contributors, passed, approvals>>
      /\ policyTime' \in 1..MaxTime
      /\ pinned' \subseteq Versions \X (1..MaxTime)
      /\ \A x \in pinned' : x \in pinned \/ policy[x[1]].state \in {"ACTIVE", "SCHEDULED"}
  <2>1. CASE Poli!Submit
    BY <2>1 DEF Poli!Submit, Poli!EffectiveVersions, PolicyGood
  <2>2. CASE Poli!PassTime
    <3>1. policyTime < MaxTime /\ policyTime' = policyTime + 1 /\ MaxTime \in Nat /\ policyTime \in 1..MaxTime
      BY <2>2, PolicyTimes DEF Poli!PassTime, PolicyGood
    <3>2. policyTime' \in 1..MaxTime
      BY <3>1
    <3>3. QED
      BY <2>2, <3>2 DEF Poli!PassTime, PolicyGood
  <2>3. QED
    BY <2>1, <2>2
<1>2. \A a \in approvals' : StillApprovable(a)'
  BY <1>1 DEF PolicyGood, StillApprovable
<1>3. Poli!TypeOK'
  BY <1>1 DEF PolicyGood, Poli!TypeOK
<1>4. Poli!OnePolicyAtATime' /\ Poli!ApprovedAsReviewed'
  BY <1>1 DEF PolicyGood, Poli!OnePolicyAtATime, Poli!ApprovedAsReviewed
<1>5. QED
  BY <1>1, <1>2, <1>3, <1>4 DEF PolicyGood, ApprovalsApart

\* Every operation on policies keeps the invariant.
LEMMA PolicyKept == PolicyGood /\ [Poli!Next]_policyRows => PolicyGood'
<1> SUFFICES ASSUME PolicyGood, [Poli!Next]_policyRows PROVE PolicyGood'
  OBVIOUS
<1>1. ASSUME NEW actor \in Editors, NEW v \in Versions, NEW p \in Payloads,
             Poli!PreparePolicyDraft(actor, v, p) \/ Poli!PatchPolicyDraft(actor, v, p)
      PROVE  PolicyGood'
  BY <1>1, PreparesPolicy
<1>2. ASSUME NEW v \in Versions, Poli!SubmitPolicyForReview(v) \/ Poli!ReturnPolicy(v)
      PROVE  PolicyGood'
  BY <1>2, ReviewsPolicy
<1>3. ASSUME NEW v \in Versions, Poli!RunPolicySimulation(v)
      PROVE  PolicyGood'
  BY <1>3, SimulatesPolicy
<1>4. ASSUME NEW v \in Versions, Poli!ActivatePolicy(v)
      PROVE  PolicyGood'
  BY <1>4, ActivatesPolicy
<1>5. ASSUME NEW actor \in Editors, NEW v \in Versions, NEW from \in Poli!Instants,
             NEW until \in Poli!Instants \cup {Poli!Open}, NEW closing \in BOOLEAN,
             Poli!CheckApproval(actor, v, from, until, closing)
      PROVE  PolicyGood'
  BY <1>5, ChecksApproval
<1>6. ASSUME NEW a \in approvals, Poli!ApprovePolicy(a)
      PROVE  PolicyGood'
  BY <1>6, ApprovesPolicy
<1>7. CASE Poli!Submit \/ Poli!PassTime
  BY <1>7, SubmitsUnderPolicy
<1>8. CASE UNCHANGED policyRows
  BY <1>8 DEF policyRows, PolicyGood, StillApprovable, ApprovalsApart,
              Poli!TypeOK, Poli!OnePolicyAtATime, Poli!ApprovedAsReviewed
<1>9. QED
  BY <1>1, <1>2, <1>3, <1>4, <1>5, <1>6, <1>7, <1>8 DEF Poli!Next

-----------------------------------------------------------------------------
(* Documents: a verdict is final. *)

\* A reservation whose own columns are written has values of its columns.
LEMMA ReservationWrites ==
  ASSUME DocumentsGood, NEW u \in Uploads
  PROVE  /\ \A s \in {"checked", "RESERVED", "COMPLETED"} : [reservations[u] EXCEPT !.state = s] \in Reservation
         /\ [reservations[u] EXCEPT !.expired = TRUE] \in Reservation
         /\ [reservations[u] EXCEPT !.puts = @ + 1] \in Reservation
         /\ \A h \in Hashes : [reservations[u] EXCEPT !.state = "UPLOADED", !.sha256 = h] \in Reservation
<1>1. reservations[u] \in Reservation
  BY DEF DocumentsGood
<1>2. \A s \in {"checked", "RESERVED", "COMPLETED"} : [reservations[u] EXCEPT !.state = s] \in Reservation
  BY <1>1 DEF Reservation
<1>3. [reservations[u] EXCEPT !.expired = TRUE] \in Reservation
  BY <1>1 DEF Reservation
<1>5. [reservations[u] EXCEPT !.puts = @ + 1] \in Reservation
  <2>1. reservations[u].puts \in Nat
    BY <1>1 DEF Reservation
  <2>2. PICK n : n = reservations[u].puts + 1
    OBVIOUS
  <2>3. n \in Nat
    BY <2>1, <2>2
  <2>4. [reservations[u] EXCEPT !.puts = n] \in Reservation
    BY <1>1, <2>3 DEF Reservation
  <2>5. QED
    BY <2>2, <2>4
<1>4. \A h \in Hashes : [reservations[u] EXCEPT !.state = "UPLOADED", !.sha256 = h] \in Reservation
  BY <1>1 DEF Reservation
<1>6. QED
  BY <1>2, <1>3, <1>4, <1>5

\* A step on the reservation of one upload that leaves the versions alone.
LEMMA ReservationMoves ==
  ASSUME DocumentsGood, NEW u \in Uploads, NEW row \in Reservation,
         reservations' = [reservations EXCEPT ![u] = row],
         row.state = "UPLOADED" => row.sha256 # "none",
         transfers' \subseteq [upload: Uploads, sha256: Hashes, stored: BOOLEAN],
         UNCHANGED <<staged, objects, completions, scanState, versionHash, scans, accesses>>
  PROVE  DocumentsGood'
<1>1. reservations' \in [Uploads -> Reservation]
  BY DEF DocumentsGood
<1>2. \A x \in Uploads : reservations'[x] = IF x = u THEN row ELSE reservations[x]
  BY DEF DocumentsGood
<1>3. \A x \in Uploads : reservations'[x].state = "UPLOADED" => reservations'[x].sha256 # "none"
  BY <1>2 DEF DocumentsGood
<1>4. QED
  BY <1>1, <1>3 DEF DocumentsGood

\* Every step of an upload, a scan or a download keeps the invariant, and a
\* verdict is final.
LEMMA DocumentsKept ==
  DocumentsGood /\ [Docs!Next]_documentsRows => DocumentsGood' /\ (Docs!Next => Docs!VerdictIsFinal)
<1> SUFFICES ASSUME DocumentsGood, [Docs!Next]_documentsRows
             PROVE  DocumentsGood' /\ (Docs!Next => Docs!VerdictIsFinal)
  OBVIOUS
<1>0. "none" \notin Hashes
  BY ServicesAssumption DEF ServicesAssumption, Docs!DocumentsAssumption, Docs!None
<1>1. scanState' = scanState /\ accesses' = accesses => Docs!VerdictIsFinal
  BY DEF DocumentsGood, Docs!VerdictIsFinal
<1>2. ASSUME NEW u \in Uploads, Docs!CheckReservation(u) \/ Docs!ReserveUpload(u) \/ Docs!PassExpiry(u)
      PROVE  DocumentsGood' /\ Docs!VerdictIsFinal
  <2>1. PICK row : row = reservations'[u]
    OBVIOUS
  <2>2. /\ reservations' = [reservations EXCEPT ![u] = row]
        /\ \/ row = [reservations[u] EXCEPT !.state = "checked"] /\ row.state = "checked"
           \/ row = [reservations[u] EXCEPT !.state = "RESERVED"] /\ row.state = "RESERVED"
           \/ row = [reservations[u] EXCEPT !.expired = TRUE]
                /\ row.state = reservations[u].state /\ row.sha256 = reservations[u].sha256
        /\ UNCHANGED <<staged, objects, transfers, completions, scanState, versionHash, scans, accesses>>
    <3>1. reservations \in [Uploads -> Reservation] /\ reservations[u] \in Reservation
      BY DEF DocumentsGood
    <3>2. CASE Docs!CheckReservation(u)
      BY <2>1, <3>1, <3>2 DEF Docs!CheckReservation, Reservation
    <3>3. CASE Docs!ReserveUpload(u)
      BY <2>1, <3>1, <3>3 DEF Docs!ReserveUpload, Reservation
    <3>4. CASE Docs!PassExpiry(u)
      BY <2>1, <3>1, <3>4 DEF Docs!PassExpiry, Reservation
    <3>5. QED
      BY <1>2, <3>2, <3>3, <3>4
  <2>3. row \in Reservation
    BY <2>2, ReservationWrites
  <2>4. row.state = "UPLOADED" => row.sha256 # "none"
    BY <2>2 DEF DocumentsGood
  <2>5. transfers' \subseteq [upload: Uploads, sha256: Hashes, stored: BOOLEAN]
    BY <2>2 DEF DocumentsGood
  <2>6. QED
    BY <1>1, <2>2, <2>3, <2>4, <2>5, ReservationMoves
<1>3. ASSUME NEW u \in Uploads, NEW h \in Hashes, Docs!Put(u, h)
      PROVE  DocumentsGood' /\ Docs!VerdictIsFinal
  <2>1. PICK row : row = [reservations[u] EXCEPT !.puts = @ + 1]
    OBVIOUS
  <2>2. row \in Reservation /\ reservations[u] \in Reservation
    BY <2>1, ReservationWrites DEF DocumentsGood
  <2>3. row.state = reservations[u].state /\ row.sha256 = reservations[u].sha256
    BY <2>1, <2>2 DEF Reservation
  <2>4. /\ reservations' = [reservations EXCEPT ![u] = row]
        /\ transfers' \subseteq [upload: Uploads, sha256: Hashes, stored: BOOLEAN]
        /\ UNCHANGED <<staged, objects, completions, scanState, versionHash, scans, accesses>>
    <3>1. [upload |-> u, sha256 |-> h, stored |-> FALSE] \in [upload: Uploads, sha256: Hashes, stored: BOOLEAN]
      OBVIOUS
    <3>2. transfers \subseteq [upload: Uploads, sha256: Hashes, stored: BOOLEAN]
      BY DEF DocumentsGood
    <3>3. transfers' = transfers \cup {[upload |-> u, sha256 |-> h, stored |-> FALSE]}
      BY <1>3 DEF Docs!Put
    <3>4. transfers' \subseteq [upload: Uploads, sha256: Hashes, stored: BOOLEAN]
      BY <3>1, <3>2, <3>3
    <3>5. QED
      BY <1>3, <2>1, <3>4 DEF Docs!Put
  <2>5. row.state = "UPLOADED" => row.sha256 # "none"
    BY <2>3 DEF DocumentsGood
  <2>6. QED
    BY <1>1, <2>2, <2>4, <2>5, ReservationMoves
<1>4. ASSUME NEW t \in transfers, Docs!PutStaging(t) \/ Docs!AbandonPut(t)
      PROVE  DocumentsGood' /\ Docs!VerdictIsFinal
  <2>1. t.upload \in Uploads /\ t.sha256 \in Hashes
        /\ [t EXCEPT !.stored = TRUE] \in [upload: Uploads, sha256: Hashes, stored: BOOLEAN]
    <3>1. t \in [upload: Uploads, sha256: Hashes, stored: BOOLEAN]
      BY DEF DocumentsGood
    <3>2. QED
      BY <3>1
  <2>2. /\ staged' \in [Uploads -> Hashes \cup {"none"}]
        /\ transfers' \subseteq [upload: Uploads, sha256: Hashes, stored: BOOLEAN]
        /\ UNCHANGED <<reservations, objects, completions, scanState, versionHash, scans, accesses>>
    BY <1>4, <2>1 DEF Docs!PutStaging, Docs!AbandonPut, DocumentsGood
  <2>3. QED
    BY <1>1, <2>2 DEF DocumentsGood
<1>5. ASSUME NEW t \in transfers, Docs!SaveUploaded(t)
      PROVE  DocumentsGood' /\ Docs!VerdictIsFinal
  <2>1. t.upload \in Uploads /\ t.sha256 \in Hashes
    BY DEF DocumentsGood
  <2>2. PICK u, row : u = t.upload /\ row = [reservations[t.upload] EXCEPT !.state = "UPLOADED", !.sha256 = t.sha256]
    OBVIOUS
  <2>3. row \in Reservation /\ reservations[u] \in Reservation
    BY <2>1, <2>2, ReservationWrites DEF DocumentsGood
  <2>4. row.sha256 # "none"
    BY <1>0, <2>1, <2>2, <2>3 DEF Reservation
  <2>5. /\ reservations' = [reservations EXCEPT ![u] = row]
        /\ transfers' \subseteq [upload: Uploads, sha256: Hashes, stored: BOOLEAN]
        /\ UNCHANGED <<staged, objects, completions, scanState, versionHash, scans, accesses>>
    BY <1>5, <2>1, <2>2 DEF Docs!SaveUploaded, DocumentsGood
  <2>6. QED
    BY <1>1, <2>1, <2>2, <2>3, <2>4, <2>5, ReservationMoves
<1>6. ASSUME NEW u \in Uploads, Docs!CompleteUpload(u)
      PROVE  DocumentsGood' /\ Docs!VerdictIsFinal
  <2>1. reservations[u].sha256 \in Hashes
    BY <1>6 DEF Docs!CompleteUpload, DocumentsGood, Reservation
  <2>2. /\ completions' \subseteq [upload: Uploads, sha256: Hashes, promoted: BOOLEAN]
        /\ UNCHANGED <<reservations, staged, objects, transfers, scanState, versionHash, scans, accesses>>
    <3>1. PICK h, p : h = reservations[u].sha256 /\ p = (objects[h] # Docs!None)
      OBVIOUS
    <3>2. [upload |-> u, sha256 |-> h, promoted |-> p] \in [upload: Uploads, sha256: Hashes, promoted: BOOLEAN]
      BY <2>1, <3>1
    <3>3. completions \subseteq [upload: Uploads, sha256: Hashes, promoted: BOOLEAN]
      BY DEF DocumentsGood
    <3>4. /\ completions' = completions \cup {[upload |-> u, sha256 |-> h, promoted |-> p]}
          /\ UNCHANGED <<reservations, staged, objects, transfers, scanState, versionHash, scans, accesses>>
      BY <1>6, <3>1 DEF Docs!CompleteUpload
    <3>5. QED
      BY <3>2, <3>3, <3>4
  <2>3. QED
    BY <1>1, <2>2 DEF DocumentsGood
<1>7. ASSUME NEW c \in completions, Docs!Promote(c) \/ Docs!AbortCompletion(c)
      PROVE  DocumentsGood' /\ Docs!VerdictIsFinal
  <2>1. c.upload \in Uploads /\ c.sha256 \in Hashes /\ staged[c.upload] \in Hashes \cup {"none"}
        /\ [c EXCEPT !.promoted = TRUE] \in [upload: Uploads, sha256: Hashes, promoted: BOOLEAN]
    <3>1. c \in [upload: Uploads, sha256: Hashes, promoted: BOOLEAN]
          /\ staged \in [Uploads -> Hashes \cup {"none"}]
      BY DEF DocumentsGood
    <3>2. QED
      BY <3>1
  <2>2. /\ objects' \in [Hashes -> Hashes \cup {"none"}]
        /\ completions' \subseteq [upload: Uploads, sha256: Hashes, promoted: BOOLEAN]
        /\ UNCHANGED <<reservations, staged, transfers, scanState, versionHash, scans, accesses>>
    <3>1. PICK moved : moved = [c EXCEPT !.promoted = TRUE]
      OBVIOUS
    <3>2. /\ objects \in [Hashes -> Hashes \cup {"none"}]
          /\ completions \subseteq [upload: Uploads, sha256: Hashes, promoted: BOOLEAN]
      BY DEF DocumentsGood
    <3>3. CASE Docs!Promote(c)
      <4>1. /\ objects' = [objects EXCEPT ![c.sha256] = staged[c.upload]]
            /\ completions' = (completions \ {c}) \cup {moved}
            /\ UNCHANGED <<reservations, staged, transfers, scanState, versionHash, scans, accesses>>
        BY <3>1, <3>3 DEF Docs!Promote
      <4>2. objects' \in [Hashes -> Hashes \cup {"none"}]
        BY <2>1, <3>2, <4>1
      <4>3. completions' \subseteq [upload: Uploads, sha256: Hashes, promoted: BOOLEAN]
        BY <2>1, <3>1, <3>2, <4>1
      <4>4. QED
        BY <4>1, <4>2, <4>3
    <3>4. CASE Docs!AbortCompletion(c)
      <4>1. /\ completions' = completions \ {c}
            /\ UNCHANGED <<reservations, staged, objects, transfers, scanState, versionHash, scans, accesses>>
        BY <3>4 DEF Docs!AbortCompletion
      <4>2. QED
        BY <3>2, <4>1
    <3>5. QED
      BY <1>7, <3>3, <3>4
  <2>3. QED
    BY <1>1, <2>2 DEF DocumentsGood
<1>8. ASSUME NEW c \in completions, Docs!CommitVersion(c)
      PROVE  DocumentsGood' /\ Docs!VerdictIsFinal
  <2>1. PICK u, h : u = c.upload /\ h = c.sha256
    OBVIOUS
  <2>2. u \in Uploads /\ h \in Hashes /\ reservations[u] \in Reservation
    BY <2>1 DEF DocumentsGood
  <2>3. PICK row : row = [reservations[u] EXCEPT !.state = "COMPLETED"]
    OBVIOUS
  <2>4. row \in Reservation /\ row.state = "COMPLETED"
    <3>1. row \in Reservation
      BY <2>2, <2>3, ReservationWrites
    <3>2. row.state = "COMPLETED"
      BY <2>2, <2>3 DEF Reservation
    <3>3. QED
      BY <3>1, <3>2
  <2>5. /\ scanState[u] = "none"
        /\ scanState' = [scanState EXCEPT ![u] = "QUARANTINED"]
        /\ versionHash' = [versionHash EXCEPT ![u] = h]
        /\ reservations' = [reservations EXCEPT ![u] = row]
        /\ staged' \in {staged, [staged EXCEPT ![u] = "none"]}
        /\ completions' \subseteq completions
        /\ UNCHANGED <<objects, transfers, scans, accesses>>
    BY <1>8, <2>1, <2>3 DEF Docs!CommitVersion, Docs!None
  <2>6. \A x \in Uploads : /\ scanState'[x] = IF x = u THEN "QUARANTINED" ELSE scanState[x]
                           /\ versionHash'[x] = IF x = u THEN h ELSE versionHash[x]
                           /\ reservations'[x] = IF x = u THEN row ELSE reservations[x]
    BY <2>2, <2>5 DEF DocumentsGood
  <2>7. /\ reservations' \in [Uploads -> Reservation]
        /\ staged' \in [Uploads -> Hashes \cup {"none"}]
        /\ completions' \subseteq [upload: Uploads, sha256: Hashes, promoted: BOOLEAN]
        /\ scanState' \in [Uploads -> {"none", "QUARANTINED", "CLEAN", "REJECTED"}]
        /\ versionHash' \in [Uploads -> Hashes \cup {"none"}]
    BY <2>2, <2>4, <2>5 DEF DocumentsGood
  <2>8. \A x \in Uploads : (scanState'[x] = "none") = (versionHash'[x] = "none")
    BY <1>0, <2>2, <2>6 DEF DocumentsGood
  <2>9. \A x \in accesses' : scanState'[x] = "CLEAN"
    BY <2>5, <2>6 DEF DocumentsGood
  <2>10. \A x \in Uploads : reservations'[x].state = "UPLOADED" => reservations'[x].sha256 # "none"
    BY <2>4, <2>6 DEF DocumentsGood
  <2>11. Docs!VerdictIsFinal
    BY <2>5, <2>6, <2>9 DEF Docs!VerdictIsFinal
  <2>12. QED
    BY <2>5, <2>7, <2>8, <2>9, <2>10, <2>11 DEF DocumentsGood
<1>9. ASSUME NEW u \in Uploads, Docs!ScanDocument(u) \/ Docs!GrantDocumentAccess(u)
      PROVE  DocumentsGood' /\ Docs!VerdictIsFinal
  <2>1. CASE Docs!ScanDocument(u)
    <3>1. /\ scans' \subseteq [upload: Uploads, verdict: {"CLEAN", "REJECTED"}]
          /\ UNCHANGED <<reservations, staged, objects, transfers, completions, scanState, versionHash, accesses>>
      BY <2>1 DEF Docs!ScanDocument, DocumentsGood
    <3>2. QED
      BY <1>1, <3>1 DEF DocumentsGood
  <2>2. CASE Docs!GrantDocumentAccess(u)
    BY <2>2 DEF Docs!GrantDocumentAccess, DocumentsGood, Docs!VerdictIsFinal
  <2>3. QED
    BY <1>9, <2>1, <2>2
<1>10. ASSUME NEW s \in scans, Docs!Record(s)
      PROVE  DocumentsGood' /\ Docs!VerdictIsFinal
  <2>1. PICK u, verdict : u = s.upload /\ verdict = s.verdict
    OBVIOUS
  <2>2. u \in Uploads /\ verdict \in {"CLEAN", "REJECTED"}
    BY <2>1 DEF DocumentsGood
  <2>3. /\ scanState' = IF scanState[u] = "QUARANTINED" THEN [scanState EXCEPT ![u] = verdict] ELSE scanState
        /\ scans' \subseteq scans
        /\ UNCHANGED <<reservations, staged, objects, transfers, completions, versionHash, accesses>>
    BY <1>10, <2>1 DEF Docs!Record, Docs!Unresolved
  <2>4. /\ scanState' \in [Uploads -> {"none", "QUARANTINED", "CLEAN", "REJECTED"}]
        /\ \A x \in Uploads : scanState'[x] = IF x = u /\ scanState[u] = "QUARANTINED" THEN verdict ELSE scanState[x]
    BY <2>2, <2>3 DEF DocumentsGood
  <2>5. \A x \in Uploads : (scanState'[x] = "none") = (scanState[x] = "none")
    BY <2>2, <2>4
  <2>6. \A x \in accesses' : scanState'[x] = "CLEAN"
    BY <2>3, <2>4 DEF DocumentsGood
  <2>7. Docs!VerdictIsFinal
    BY <2>4, <2>6 DEF Docs!VerdictIsFinal
  <2>8. QED
    BY <2>3, <2>4, <2>5, <2>6, <2>7 DEF DocumentsGood
<1>11. CASE UNCHANGED documentsRows
  <2>1. DocumentsGood'
    BY <1>11 DEF documentsRows, DocumentsGood
  <2>2. QED
    BY <1>1, <1>11, <2>1 DEF documentsRows
<1>12. QED
  BY <1>2, <1>3, <1>4, <1>5, <1>6, <1>7, <1>8, <1>9, <1>10, <1>11 DEF Docs!Next

\* No file was uploaded at the beginning.
LEMMA DocumentsStart == Docs!Init => DocumentsGood
<1> SUFFICES ASSUME Docs!Init PROVE DocumentsGood
  OBVIOUS
<1>1. reservations \in [Uploads -> Reservation]
  BY DEF Docs!Init, Docs!None, Reservation
<1>2. QED
  BY <1>1 DEF Docs!Init, Docs!None, DocumentsGood

-----------------------------------------------------------------------------
(* The inbox: the reflection never goes back, and no gap outlives its cause. *)

\* What each verdict says of an event's position.
LEMMA Classified ==
  ASSUME InboxGood, NEW e \in Events
  PROVE  /\ SequenceOf[e] \in Nat /\ reflected.sequence \in Nat
         /\ Inbx!Classify(e) = "APPLY" => SequenceOf[e] = reflected.sequence + 1
         /\ Inbx!Classify(e) \in {"SEQUENCE_GAP", "OLDER_THAN_APPLIED"} => SequenceOf[e] # reflected.sequence + 1
<1>1. SequenceOf \in [Events -> Nat \ {0}]
  BY ServicesAssumption DEF ServicesAssumption, Inbx!InboxAssumption
<1>2. SequenceOf[e] \in Nat /\ reflected.sequence \in Nat
  BY <1>1 DEF InboxGood, SourcePositions
<1>3. QED
  BY <1>2 DEF Inbx!Classify

\* After successors were released, no event that comes next is in conflict.
LEMMA Released ==
  ASSUME NEW n, NEW rows, NEW own, Inbx!ReleaseSuccessors(n, rows, own), own \subseteq conflicts,
         rows \in [Events -> {"none", "RECEIVED", "PROCESSED", "CONFLICT", "QUARANTINED"}],
         reflected'.sequence = n
  PROVE  /\ inbox' \in [Events -> {"none", "RECEIVED", "PROCESSED", "CONFLICT", "QUARANTINED"}]
         /\ Inbx!GapsClose'
         /\ conflicts' \subseteq conflicts
         /\ \A r \in resolutions : r.conflict \in conflicts /\ r.conflict \notin own => r.conflict \in conflicts'
<1> DEFINE next == {e \in Events : SequenceOf[e] = n + 1 /\ rows[e] \in Inbx!Waiting}
           gaps == (conflicts \ own) \cap {Inbx!Conflict(e, "SEQUENCE_GAP") : e \in next}
<1>1. /\ \A c \in gaps : ~Inbx!Locked(c)
      /\ inbox' = [e \in Events |-> IF e \in next THEN "RECEIVED" ELSE rows[e]]
      /\ conflicts' = conflicts \ (gaps \cup own)
  BY DEF Inbx!ReleaseSuccessors
<1>2. \A e \in Events : inbox'[e] = "CONFLICT" => SequenceOf[e] # n + 1
  BY <1>1 DEF Inbx!Waiting
<1> HIDE DEF next
<1>3. inbox' \in [Events -> {"none", "RECEIVED", "PROCESSED", "CONFLICT", "QUARANTINED"}]
  BY <1>1
<1> HIDE DEF gaps
<1>4. \A r \in resolutions : r.conflict \in conflicts /\ r.conflict \notin own => r.conflict \in conflicts'
  BY <1>1 DEF Inbx!Locked
<1>5. QED
  BY <1>1, <1>2, <1>3, <1>4 DEF Inbx!GapsClose

\* Writing what became of one event keeps the types of the rows.
LEMMA InboxWrites ==
  ASSUME InboxGood
  PROVE  \A e : \A s \in {"RECEIVED", "PROCESSED", "CONFLICT", "QUARANTINED"} :
           [inbox EXCEPT ![e] = s] \in [Events -> {"none", "RECEIVED", "PROCESSED", "CONFLICT", "QUARANTINED"}]
BY DEF InboxGood

\* Every step of the inbox keeps the invariant, and the partner's progress never
\* goes back.
LEMMA InboxKept == InboxGood /\ [Inbx!Next]_inboxRows => InboxGood' /\ (Inbx!Next => Inbx!NeverBack)
<1> SUFFICES ASSUME InboxGood, [Inbx!Next]_inboxRows
             PROVE  InboxGood' /\ (Inbx!Next => Inbx!NeverBack)
  OBVIOUS
<1>0. reflected.sequence \in Nat /\ SourcePositions \subseteq Nat
  BY ServicesAssumption DEF ServicesAssumption, Inbx!InboxAssumption, InboxGood, SourcePositions
<1>1. reflected' = reflected => Inbx!NeverBack
  BY <1>0 DEF Inbx!NeverBack
<1>2. CASE Inbx!RunIntegrationTest
  BY <1>1, <1>2 DEF Inbx!RunIntegrationTest, InboxGood, Inbx!GapsClose
<1>3. ASSUME NEW e \in Events, Inbx!ReceiveEvent(e) \/ Inbx!IgnoreDuplicate(e)
      PROVE  InboxGood' /\ Inbx!NeverBack
  <2>1. /\ UNCHANGED <<reflected, conflicts, resolutions>>
        /\ \E s \in {"RECEIVED", "PROCESSED"} : inbox' = [inbox EXCEPT ![e] = s]
    BY <1>3 DEF Inbx!ReceiveEvent, Inbx!IgnoreDuplicate, Inbx!Processed
  <2>2. inbox' \in [Events -> {"none", "RECEIVED", "PROCESSED", "CONFLICT", "QUARANTINED"}]
        /\ \A x \in Events : inbox'[x] = "CONFLICT" => inbox[x] = "CONFLICT"
    BY <2>1, InboxWrites DEF InboxGood
  <2>3. QED
    BY <1>1, <2>1, <2>2 DEF InboxGood, Inbx!GapsClose
<1>4. ASSUME NEW e \in Events, Inbx!ReceiveMismatch(e)
      PROVE  InboxGood' /\ Inbx!NeverBack
  <2>1. PICK c : c = [event |-> e, reason |-> "PAYLOAD_MISMATCH"]
    OBVIOUS
  <2>2. c \in [event: Events, reason: {"PAYLOAD_MISMATCH", "SEQUENCE_GAP", "OLDER_THAN_APPLIED"}]
    BY <2>1
  <2>3. conflicts' = conflicts \cup {c} /\ UNCHANGED <<inbox, reflected, resolutions>>
    BY <1>4, <2>1 DEF Inbx!ReceiveMismatch, Inbx!Conflict
  <2>4. QED
    BY <1>1, <2>2, <2>3 DEF InboxGood, Inbx!GapsClose
<1>5. ASSUME NEW e \in Events, Inbx!ApplyEvent(e)
      PROVE  InboxGood' /\ Inbx!NeverBack
  <2>1. PICK n, rows : n = SequenceOf[e] /\ rows = Inbx!Processed(e)
    OBVIOUS
  <2>2. /\ reflected' = [sequence |-> n, version |-> VersionOf[e]]
        /\ n = reflected.sequence + 1 /\ n \in SourcePositions
        /\ Inbx!ReleaseSuccessors(n, rows, {})
        /\ UNCHANGED resolutions
    BY <1>5, <2>1, Classified DEF Inbx!ApplyEvent, SourcePositions
  <2>3. rows \in [Events -> {"none", "RECEIVED", "PROCESSED", "CONFLICT", "QUARANTINED"}]
    BY <2>1, InboxWrites DEF Inbx!Processed
  <2>4. reflected'.sequence = n
    BY <2>2
  <2>5. /\ inbox' \in [Events -> {"none", "RECEIVED", "PROCESSED", "CONFLICT", "QUARANTINED"}]
        /\ Inbx!GapsClose' /\ conflicts' \subseteq conflicts
        /\ \A r \in resolutions : r.conflict \in conflicts => r.conflict \in conflicts'
    BY <2>2, <2>3, <2>4, Released
  <2>6. Inbx!NeverBack
    BY <1>0, <2>2, <2>4 DEF Inbx!NeverBack
  <2>7. QED
    BY <2>2, <2>4, <2>5, <2>6 DEF InboxGood
<1>6. ASSUME NEW e \in Events, Inbx!OpenConflict(e)
      PROVE  InboxGood' /\ Inbx!NeverBack
  <2>1. PICK reason : reason = Inbx!Classify(e)
    OBVIOUS
  <2>2. /\ reason \in {"SEQUENCE_GAP", "OLDER_THAN_APPLIED"}
        /\ inbox' = [inbox EXCEPT ![e] = "CONFLICT"]
        /\ conflicts' = conflicts \cup {[event |-> e, reason |-> reason]}
        /\ UNCHANGED <<reflected, resolutions>>
    BY <1>6, <2>1 DEF Inbx!OpenConflict, Inbx!Conflict
  <2>3. [event |-> e, reason |-> reason] \in
          [event: Events, reason: {"PAYLOAD_MISMATCH", "SEQUENCE_GAP", "OLDER_THAN_APPLIED"}]
    BY <2>2
  <2>4. inbox' \in [Events -> {"none", "RECEIVED", "PROCESSED", "CONFLICT", "QUARANTINED"}]
        /\ \A x \in Events : inbox'[x] = "CONFLICT" => x = e \/ inbox[x] = "CONFLICT"
    BY <2>2, InboxWrites DEF InboxGood
  <2>5. SequenceOf[e] # reflected.sequence + 1
    BY <2>1, <2>2, Classified
  <2>6. Inbx!GapsClose'
    BY <2>2, <2>4, <2>5 DEF InboxGood, Inbx!GapsClose
  <2>7. conflicts' \subseteq [event: Events, reason: {"PAYLOAD_MISMATCH", "SEQUENCE_GAP", "OLDER_THAN_APPLIED"}]
    BY <2>2, <2>3 DEF InboxGood
  <2>8. QED
    BY <1>1, <2>2, <2>4, <2>6, <2>7 DEF InboxGood
<1>7. ASSUME NEW c \in conflicts, NEW answer \in SourcePositions, Inbx!BeginResolution(c, answer)
      PROVE  InboxGood' /\ Inbx!NeverBack
  <2>1. PICK new : new = [conflict |-> c, seen |-> inbox[c.event], lookup |-> answer]
    OBVIOUS
  <2>2. /\ resolutions' = resolutions \cup {new} /\ \A r \in resolutions : r.conflict # c
        /\ UNCHANGED <<inbox, reflected, conflicts>>
    BY <1>7, <2>1 DEF Inbx!BeginResolution, Inbx!Locked
  <2>3. new.conflict = c /\ new.lookup = answer
    BY <2>1
  <2>4. \A q, r \in resolutions' : q.conflict = r.conflict => q = r
    BY <2>2, <2>3 DEF InboxGood
  <2>5. QED
    BY <1>1, <2>2, <2>3, <2>4 DEF InboxGood, Inbx!GapsClose
<1>8. ASSUME NEW r \in resolutions, Inbx!ApplyVerifiedSource(r)
      PROVE  InboxGood' /\ Inbx!NeverBack
  <2>1. PICK n, rows, own :
          /\ n = r.lookup /\ own = {r.conflict}
          /\ rows = IF r.seen \in {"CONFLICT", "QUARANTINED"} THEN Inbx!Processed(r.conflict.event) ELSE inbox
    OBVIOUS
  <2>2. /\ n >= reflected.sequence
        /\ reflected' = [sequence |-> n, version |-> n]
        /\ Inbx!ReleaseSuccessors(n, rows, own)
        /\ resolutions' = resolutions \ {r}
    BY <1>8, <2>1 DEF Inbx!ApplyVerifiedSource
  <2>3. rows \in [Events -> {"none", "RECEIVED", "PROCESSED", "CONFLICT", "QUARANTINED"}]
    BY <2>1, InboxWrites DEF Inbx!Processed, InboxGood
  <2>4. reflected'.sequence = n /\ n \in SourcePositions /\ own \subseteq conflicts
    BY <2>1, <2>2 DEF InboxGood
  <2>5. /\ inbox' \in [Events -> {"none", "RECEIVED", "PROCESSED", "CONFLICT", "QUARANTINED"}]
        /\ Inbx!GapsClose' /\ conflicts' \subseteq conflicts
        /\ \A q \in resolutions : q.conflict \in conflicts /\ q.conflict \notin own => q.conflict \in conflicts'
    BY <2>2, <2>3, <2>4, Released
  <2>6. \A q \in resolutions' : q \in resolutions /\ q.conflict \notin own
    BY <2>1, <2>2 DEF InboxGood
  <2>7. \A q \in resolutions' : q.conflict \in conflicts' /\ q.lookup \in SourcePositions
    BY <2>5, <2>6 DEF InboxGood
  <2>8. Inbx!NeverBack
    BY <2>2, <2>4 DEF Inbx!NeverBack
  <2>9. QED
    BY <2>2, <2>4, <2>5, <2>6, <2>7, <2>8 DEF InboxGood
<1>9. ASSUME NEW r \in resolutions, Inbx!SetAside(r) \/ Inbx!AbandonResolution(r)
      PROVE  InboxGood' /\ Inbx!NeverBack
  <2>1. PICK e : e = r.conflict.event
    OBVIOUS
  <2>2. /\ inbox' = inbox \/ \E s \in {"PROCESSED", "QUARANTINED"} : inbox' = [inbox EXCEPT ![e] = s]
        /\ conflicts' \in {conflicts, conflicts \ {r.conflict}}
        /\ resolutions' = resolutions \ {r}
        /\ UNCHANGED reflected
    BY <1>9, <2>1 DEF Inbx!SetAside, Inbx!AbandonResolution, Inbx!Processed
  <2>3. inbox' \in [Events -> {"none", "RECEIVED", "PROCESSED", "CONFLICT", "QUARANTINED"}]
        /\ \A x \in Events : inbox'[x] = "CONFLICT" => inbox[x] = "CONFLICT"
    BY <2>2, InboxWrites DEF InboxGood
  <2>4. \A q \in resolutions' : q \in resolutions /\ q.conflict # r.conflict /\ q.conflict \in conflicts'
    BY <2>2 DEF InboxGood
  <2>5. QED
    BY <1>1, <2>2, <2>3, <2>4 DEF InboxGood, Inbx!GapsClose
<1>10. CASE UNCHANGED inboxRows
  BY <1>1, <1>10 DEF inboxRows, InboxGood, Inbx!GapsClose
<1>11. QED
  BY <1>2, <1>3, <1>4, <1>5, <1>6, <1>7, <1>8, <1>9, <1>10 DEF Inbx!Next, SourcePositions

\* No event was received at the beginning.
LEMMA InboxStarts == Inbx!Init => InboxGood
BY DEF Inbx!Init, InboxGood, Inbx!GapsClose

-----------------------------------------------------------------------------
(* Certificates: nothing is resurrected, and a successor has one predecessor. *)

\* Only a certificate that was published and is not final may change.
LEMMA AdmissibleIsOpen ==
  ASSUME StatusGood, NEW c \in Certificates, NEW s \in Stat!Admissible(c)
  PROVE  recorded[c] \notin Stat!Final \cup {"none"}
<1>1. CASE recorded[c] \in Stat!Final
  BY <1>1 DEF Stat!Admissible, Stat!EffectiveStatus, Stat!Final
<1>2. CASE recorded[c] = "none"
  <2>1. c \notin expired
    BY <1>2 DEF StatusGood
  <2>2. Stat!EffectiveStatus(c) = "none"
    BY <1>2, <2>1 DEF Stat!EffectiveStatus
  <2>3. QED
    BY <1>2, <2>2 DEF Stat!Admissible
<1>3. QED
  BY <1>1, <1>2

\* A step that writes the status of one certificate that is open, or none.
LEMMA StatusMoves ==
  ASSUME StatusGood, NEW c \in Certificates, NEW s \in {"ACTIVE", "SUSPENDED"} \cup Stat!Final,
         recorded' = [recorded EXCEPT ![c] = s], recorded[c] \notin Stat!Final,
         UNCHANGED expired
  PROVE  /\ recorded' \in [Certificates -> {"none", "ACTIVE", "SUSPENDED"} \cup Stat!Final]
         /\ \A x \in Certificates : recorded'[x] = IF x = c THEN s ELSE recorded[x]
         /\ Stat!NeverResurrected
<1>1. /\ recorded' \in [Certificates -> {"none", "ACTIVE", "SUSPENDED"} \cup Stat!Final]
      /\ \A x \in Certificates : recorded'[x] = IF x = c THEN s ELSE recorded[x]
  BY DEF StatusGood, Stat!TypeOK
<1>2. QED
  BY <1>1 DEF Stat!NeverResurrected, Stat!EffectiveStatus

\* Every status command keeps the invariant, and none revives a certificate.
LEMMA StatusKept == StatusGood /\ [Stat!Next]_statusRows => StatusGood' /\ (Stat!Next => Stat!NeverResurrected)
<1> SUFFICES ASSUME StatusGood, [Stat!Next]_statusRows
             PROVE  StatusGood' /\ (Stat!Next => Stat!NeverResurrected)
  OBVIOUS
<1>1. ASSUME recorded' = recorded, expired \subseteq expired', expired' \subseteq Certificates \ Perpetual,
             \A c \in expired' : recorded[c] # "none",
             predecessor' = predecessor,
             superseding' \subseteq [target: Certificates, successor: Certificates]
      PROVE  StatusGood' /\ Stat!NeverResurrected
  BY <1>1 DEF StatusGood, OneSuccessor, Stat!TypeOK, Stat!NeverResurrected, Stat!EffectiveStatus
<1>2. ASSUME NEW c \in Certificates, Stat!Publish(c)
      PROVE  StatusGood' /\ Stat!NeverResurrected
  <2>1. /\ recorded[c] = "none" /\ recorded' = [recorded EXCEPT ![c] = "ACTIVE"]
        /\ UNCHANGED <<expired, predecessor, superseding>>
    BY <1>2 DEF Stat!Publish
  <2>2. recorded[c] \notin Stat!Final
    BY <2>1 DEF Stat!Final
  <2>3. /\ recorded' \in [Certificates -> {"none", "ACTIVE", "SUSPENDED"} \cup Stat!Final]
        /\ \A x \in Certificates : recorded'[x] = IF x = c THEN "ACTIVE" ELSE recorded[x]
        /\ Stat!NeverResurrected
    BY <2>1, <2>2, StatusMoves
  <2>4. \A x \in Certificates : recorded'[x] = "SUPERSEDED" <=> recorded[x] = "SUPERSEDED"
    BY <2>1, <2>3
  <2>5. QED
    BY <2>1, <2>3, <2>4 DEF StatusGood, OneSuccessor, Stat!TypeOK
<1>3. ASSUME NEW c \in Certificates, Stat!PassValidUntil(c)
      PROVE  StatusGood' /\ Stat!NeverResurrected
  BY <1>1, <1>3 DEF Stat!PassValidUntil, StatusGood, Stat!TypeOK
<1>4. ASSUME NEW c \in Certificates, NEW after \in {"SUSPENDED", "ACTIVE", "REVOKED"},
             Stat!RecordStatusAction(c, after)
      PROVE  StatusGood' /\ Stat!NeverResurrected
  <2>1. /\ recorded[c] \notin Stat!Final \cup {"none"} /\ recorded' = [recorded EXCEPT ![c] = after]
        /\ UNCHANGED <<expired, predecessor, superseding>>
    BY <1>4, AdmissibleIsOpen DEF Stat!RecordStatusAction
  <2>2. after \in {"ACTIVE", "SUSPENDED"} \cup Stat!Final
    BY DEF Stat!Final
  <2>3. /\ recorded' \in [Certificates -> {"none", "ACTIVE", "SUSPENDED"} \cup Stat!Final]
        /\ \A x \in Certificates : recorded'[x] = IF x = c THEN after ELSE recorded[x]
        /\ Stat!NeverResurrected
    BY <2>1, <2>2, StatusMoves
  <2>4. \A x \in Certificates : recorded'[x] = "SUPERSEDED" <=> recorded[x] = "SUPERSEDED"
    BY <2>1, <2>3 DEF Stat!Final
  <2>5. QED
    BY <2>1, <2>3, <2>4 DEF StatusGood, OneSuccessor, Stat!TypeOK
<1>5. ASSUME NEW c \in Certificates, NEW successor \in Certificates, Stat!LockCertificate(c, successor)
      PROVE  StatusGood' /\ Stat!NeverResurrected
  <2>1. superseding' \subseteq [target: Certificates, successor: Certificates]
    BY <1>5 DEF Stat!LockCertificate, StatusGood
  <2>2. QED
    BY <1>1, <1>5, <2>1 DEF Stat!LockCertificate, StatusGood, Stat!TypeOK
<1>6. ASSUME NEW s \in superseding, Stat!Supersede(s)
      PROVE  StatusGood' /\ Stat!NeverResurrected
  <2>1. PICK c, n : c = s.target /\ n = s.successor
    OBVIOUS
  <2>2. c \in Certificates /\ n \in Certificates
    BY <2>1 DEF StatusGood
  <2>3. /\ predecessor[n] = Stat!NoOne
        /\ recorded[c] \notin Stat!Final \cup {"none"}
        /\ recorded' = [recorded EXCEPT ![c] = "SUPERSEDED"]
        /\ predecessor' = [predecessor EXCEPT ![n] = c]
        /\ superseding' \subseteq superseding
        /\ UNCHANGED expired
    <3>1. "SUPERSEDED" \in Stat!Admissible(c)
      BY <1>6, <2>1 DEF Stat!Supersede
    <3>2. recorded[c] \notin Stat!Final \cup {"none"}
      BY <2>2, <3>1, AdmissibleIsOpen
    <3>3. QED
      BY <1>6, <2>1, <3>2 DEF Stat!Supersede, Stat!FitSuccessor
  <2>4. "SUPERSEDED" \in {"ACTIVE", "SUSPENDED"} \cup Stat!Final
    BY DEF Stat!Final
  <2>5. /\ recorded' \in [Certificates -> {"none", "ACTIVE", "SUSPENDED"} \cup Stat!Final]
        /\ \A x \in Certificates : recorded'[x] = IF x = c THEN "SUPERSEDED" ELSE recorded[x]
        /\ Stat!NeverResurrected
    BY <2>2, <2>3, <2>4, StatusMoves
  <2>6. /\ predecessor' \in [Certificates -> Certificates \cup {Stat!NoOne}]
        /\ \A x \in Certificates : predecessor'[x] = IF x = n THEN c ELSE predecessor[x]
    BY <2>2, <2>3 DEF StatusGood, Stat!TypeOK
  <2>7. Stat!NoOne \notin Certificates
    BY ServicesAssumption DEF ServicesAssumption, Stat!StatusAssumption
  <2>8. ASSUME NEW x \in Certificates
        PROVE  IF recorded'[x] = "SUPERSEDED"
               THEN \E y \in Certificates : {z \in Certificates : predecessor'[z] = x} = {y}
               ELSE {z \in Certificates : predecessor'[z] = x} = {}
    <3>1. CASE x = c
      <4>1. recorded[c] # "SUPERSEDED"
        BY <2>3 DEF Stat!Final
      <4>2. {z \in Certificates : predecessor[z] = c} = {}
        BY <2>2, <4>1 DEF StatusGood, OneSuccessor
      <4>3. {z \in Certificates : predecessor'[z] = c} = {n}
        BY <2>2, <2>6, <4>2
      <4>4. QED
        BY <2>2, <2>5, <3>1, <4>3
    <3>2. CASE x # c
      <4>1. {z \in Certificates : predecessor'[z] = x} = {z \in Certificates : predecessor[z] = x}
        BY <2>3, <2>6, <2>7, <3>2
      <4>2. recorded'[x] = recorded[x]
        BY <2>5, <3>2
      <4>3. QED
        BY <4>1, <4>2 DEF StatusGood, OneSuccessor
    <3>3. QED
      BY <3>1, <3>2
  <2>9. QED
    BY <2>3, <2>5, <2>6, <2>8 DEF StatusGood, OneSuccessor, Stat!TypeOK
<1>7. ASSUME NEW s \in superseding, Stat!AbortSupersession(s)
      PROVE  StatusGood' /\ Stat!NeverResurrected
  <2>1. superseding' \subseteq [target: Certificates, successor: Certificates]
    BY <1>7 DEF Stat!AbortSupersession, StatusGood
  <2>2. QED
    BY <1>1, <1>7, <2>1 DEF Stat!AbortSupersession, StatusGood, Stat!TypeOK
<1>8. ASSUME UNCHANGED <<recorded, expired, predecessor, superseding>>
      PROVE  StatusGood' /\ Stat!NeverResurrected
  BY <1>1, <1>8 DEF StatusGood, Stat!TypeOK
<1>9. ASSUME NEW r \in Renewals, \/ \E c \in Certificates : Stat!CheckRenewal(r, c)
                                 \/ Stat!CreateRenewalDraft(r) \/ Stat!CloseRenewal(r)
      PROVE  UNCHANGED <<recorded, expired, predecessor, superseding>>
  BY <1>9 DEF Stat!CheckRenewal, Stat!CreateRenewalDraft, Stat!CloseRenewal
<1>10. CASE UNCHANGED statusRows
  BY <1>8, <1>10 DEF statusRows
<1>11. CASE Stat!Next
  BY <1>2, <1>3, <1>4, <1>5, <1>6, <1>7, <1>8, <1>9, <1>11 DEF Stat!Next
<1>12. QED
  BY <1>10, <1>11

\* No certificate is recorded at the beginning.
LEMMA StatusStarts == Stat!Init => StatusGood
<1> SUFFICES ASSUME Stat!Init PROVE StatusGood
  OBVIOUS
<1>1. Stat!NoOne \notin Certificates
  BY ServicesAssumption DEF ServicesAssumption, Stat!StatusAssumption
<1>2. QED
  BY <1>1 DEF Stat!Init, StatusGood, OneSuccessor, Stat!TypeOK

-----------------------------------------------------------------------------
(* Exports: a file that was written stays. *)

ExportStates == {"none", "READY", "RUNNING", "COMPLETE", "FAILED", "EXPIRED"}

\* A step of one export that leaves its file alone.
LEMMA ExportMoves ==
  ASSUME ExportsGood, NEW e \in ExportIds, NEW row \in ExportRow,
         exports' = [exports EXCEPT ![e] = row], row.file = exports[e].file,
         e \in jobOpen' \/ row.state = "none" => e \in jobOpen \/ exports[e].state = "none",
         jobOpen' \subseteq jobOpen \cup {e},
         scope' = scope,
         handlers' \subseteq [export: ExportIds, leased: BOOLEAN, rows: [rows: SUBSET Cases, written: BOOLEAN]]
  PROVE  ExportsGood' /\ Expo!FileStays
<1>1. /\ exports' \in [ExportIds -> ExportRow]
      /\ \A x \in ExportIds : exports'[x] = IF x = e THEN row ELSE exports[x]
  BY DEF ExportsGood
<1>2. jobOpen' \subseteq ExportIds
  BY DEF ExportsGood
<1>3. OpenJobUnwritten'
  <2> SUFFICES ASSUME NEW x \in ExportIds, x \in jobOpen' \/ exports'[x].state = "none"
               PROVE  ~exports'[x].file.written
    BY DEF OpenJobUnwritten
  <2>1. x \in jobOpen \/ exports[x].state = "none"
    BY <1>1
  <2>2. exports'[x].file = exports[x].file
    BY <1>1
  <2>3. QED
    BY <2>1, <2>2 DEF ExportsGood, OpenJobUnwritten
<1>4. Expo!FileStays
  BY <1>1 DEF Expo!FileStays
<1>5. QED
  BY <1>1, <1>2, <1>3, <1>4 DEF ExportsGood

\* A step that leaves the exports and their jobs alone.
LEMMA HandlersMove ==
  ASSUME ExportsGood, UNCHANGED <<exports, jobOpen>>, scope' \in SUBSET Cases,
         handlers' \subseteq [export: ExportIds, leased: BOOLEAN, rows: [rows: SUBSET Cases, written: BOOLEAN]]
  PROVE  ExportsGood' /\ Expo!FileStays
BY DEF ExportsGood, OpenJobUnwritten, Expo!FileStays

\* Every step of an export keeps the invariant, and a file that was written stays.
LEMMA ExportsKept == ExportsGood /\ [Expo!Next]_exportRows => ExportsGood' /\ (Expo!Next => Expo!FileStays)
<1> SUFFICES ASSUME ExportsGood, [Expo!Next]_exportRows
             PROVE  ExportsGood' /\ (Expo!Next => Expo!FileStays)
  OBVIOUS
<1> DEFINE Handler == [export: ExportIds, leased: BOOLEAN, rows: [rows: SUBSET Cases, written: BOOLEAN]]
<1>1. /\ exports \in [ExportIds -> ExportRow] /\ jobOpen \subseteq ExportIds
      /\ handlers \subseteq Handler /\ scope \in SUBSET Cases
  BY DEF ExportsGood
<1>2. \A e \in ExportIds, s \in ExportStates :
        /\ [exports[e] EXCEPT !.state = s] \in ExportRow
        /\ [exports[e] EXCEPT !.state = s].file = exports[e].file
        /\ [exports[e] EXCEPT !.state = s].state = s
  BY <1>1 DEF ExportRow, ExportStates
<1>3. ASSUME NEW s \in SUBSET Cases, NEW p \in BOOLEAN, Expo!ChangeScope(s, p)
      PROVE  ExportsGood' /\ Expo!FileStays
  BY <1>1, <1>3, HandlersMove DEF Expo!ChangeScope
<1>4. ASSUME NEW e \in ExportIds, Expo!PassExpiry(e)
      PROVE  ExportsGood' /\ Expo!FileStays
  <2>1. PICK row : row = [exports[e] EXCEPT !.late = TRUE]
    OBVIOUS
  <2>2. exports[e] \in ExportRow
    BY <1>1
  <2>3. row \in ExportRow /\ row.file = exports[e].file /\ row.state = exports[e].state
    BY <2>1, <2>2 DEF ExportRow
  <2>4. exports' = [exports EXCEPT ![e] = row] /\ UNCHANGED <<scope, handlers, jobOpen>>
    BY <1>4, <2>1 DEF Expo!PassExpiry
  <2>5. QED
    BY <1>1, <2>3, <2>4, ExportMoves
<1>5. ASSUME NEW e \in ExportIds, Expo!StartHandler(e)
      PROVE  ExportsGood' /\ Expo!FileStays
  <2>1. PICK s : s = IF exports[e].state = "READY" THEN "RUNNING" ELSE exports[e].state
    OBVIOUS
  <2>2. exports[e].state \in ExportStates
    BY <1>1 DEF ExportRow, ExportStates
  <2>3. s \in ExportStates /\ e \in jobOpen
    BY <1>5, <2>1, <2>2 DEF ExportStates, Expo!StartHandler
  <2>4. exports' = [exports EXCEPT ![e] = [exports[e] EXCEPT !.state = s]] /\ UNCHANGED <<scope, jobOpen>>
    BY <1>5, <2>1 DEF Expo!StartHandler
  <2>5. handlers' \subseteq Handler
    <3>1. \A h \in handlers : [h EXCEPT !.leased = FALSE] \in Handler /\ h \in Handler
      BY <1>1
    <3>2. [export |-> e, leased |-> TRUE, rows |-> Expo!Unwritten] \in Handler
      BY DEF Expo!Unwritten
    <3>3. handlers' = {IF h.export = e THEN [h EXCEPT !.leased = FALSE] ELSE h : h \in handlers}
                      \cup {[export |-> e, leased |-> TRUE, rows |-> Expo!Unwritten]}
      BY <1>5 DEF Expo!StartHandler
    <3> HIDE DEF Handler
    <3>4. QED
      BY <3>1, <3>2, <3>3
  <2>6. PICK row : row = [exports[e] EXCEPT !.state = s]
    OBVIOUS
  <2>7. QED
    BY <1>2, <2>3, <2>4, <2>5, <2>6, ExportMoves
<1>6. ASSUME NEW e \in ExportIds, Expo!ExpireInJob(e) \/ Expo!ExpireInView(e)
      PROVE  ExportsGood' /\ Expo!FileStays
  <2>1. PICK row : row = [exports[e] EXCEPT !.state = "EXPIRED"]
    OBVIOUS
  <2>2. row \in ExportRow /\ row.file = exports[e].file /\ row.state = "EXPIRED"
    BY <1>2, <2>1 DEF ExportStates
  <2>3. /\ exports' = [exports EXCEPT ![e] = row] /\ jobOpen' \in {jobOpen, jobOpen \ {e}}
        /\ UNCHANGED <<scope, handlers>>
    BY <1>6, <2>1 DEF Expo!ExpireInJob, Expo!ExpireInView
  <2>4. QED
    BY <1>1, <2>2, <2>3, ExportMoves
<1>7. ASSUME NEW e \in ExportIds, Expo!GrantAccess(e) \/ Expo!EndTicket(e)
      PROVE  ExportsGood' /\ Expo!FileStays
  BY <1>1, <1>7, HandlersMove DEF Expo!GrantAccess, Expo!EndTicket
<1>8. ASSUME NEW e \in ExportIds, NEW kind \in Expo!Kinds, Expo!CreateExport(e, kind)
      PROVE  ExportsGood' /\ Expo!FileStays
  <2>1. PICK covered : covered = IF kind = "AUDIT" THEN {} ELSE scope
    OBVIOUS
  <2>2. PICK row : row = [exports[e] EXCEPT !.state = "READY", !.kind = kind, !.frozen = covered]
    OBVIOUS
  <2>3. covered \in SUBSET Cases /\ exports[e] \in ExportRow
    BY <1>1, <2>1
  <2>4. row \in ExportRow /\ row.file = exports[e].file /\ row.state = "READY"
    BY <2>2, <2>3 DEF ExportRow
  <2>5. /\ exports[e].state = "none" /\ exports' = [exports EXCEPT ![e] = row]
        /\ jobOpen' = jobOpen \cup {e} /\ UNCHANGED <<scope, handlers>>
    BY <1>8, <2>1, <2>2 DEF Expo!CreateExport
  <2>6. QED
    BY <1>1, <2>4, <2>5, ExportMoves
<1>9. ASSUME NEW h \in handlers, Expo!BuildRows(h) \/ Expo!AbandonHandler(h)
      PROVE  ExportsGood' /\ Expo!FileStays
  <2>1. PICK rows : rows = Expo!RowsOf(h.export)
    OBVIOUS
  <2>2. h \in Handler /\ exports[h.export] \in ExportRow
    BY <1>1
  <2>3. rows \in SUBSET Cases
    BY <1>1, <2>1, <2>2 DEF Expo!RowsOf, ExportRow
  <2>4. [h EXCEPT !.rows = [rows |-> rows, written |-> TRUE]] \in Handler
    BY <2>2, <2>3
  <2>5. /\ handlers' \subseteq handlers \cup {[h EXCEPT !.rows = [rows |-> rows, written |-> TRUE]]}
        /\ UNCHANGED <<scope, exports, jobOpen>>
    BY <1>9, <2>1 DEF Expo!BuildRows, Expo!AbandonHandler
  <2> HIDE DEF Handler
  <2>6. handlers' \subseteq Handler
    BY <1>1, <2>4, <2>5
  <2>7. QED
    BY <1>1, <2>5, <2>6, HandlersMove DEF Handler
<1>10. ASSUME NEW h \in handlers, Expo!LoseScope(h)
       PROVE  ExportsGood' /\ Expo!FileStays
  <2>1. PICK e, row : e = h.export /\ row = [exports[e] EXCEPT !.state = "FAILED"]
    OBVIOUS
  <2>2. e \in ExportIds
    BY <1>1, <2>1
  <2>3. row \in ExportRow /\ row.file = exports[e].file /\ row.state = "FAILED"
    BY <1>2, <2>1, <2>2 DEF ExportStates
  <2>4. /\ exports' = [exports EXCEPT ![e] = row] /\ jobOpen' \in {jobOpen, jobOpen \ {e}}
        /\ handlers' \subseteq handlers /\ scope' = scope
    BY <1>10, <2>1 DEF Expo!LoseScope
  <2>5. QED
    BY <1>1, <2>2, <2>3, <2>4, ExportMoves
<1>11. ASSUME NEW h \in handlers, Expo!CompleteExport(h)
       PROVE  ExportsGood' /\ Expo!FileStays
  <2>1. PICK e, row : e = h.export /\ row = [exports[e] EXCEPT !.state = "COMPLETE", !.file = h.rows]
    OBVIOUS
  <2>2. e \in ExportIds /\ exports[e] \in ExportRow /\ h \in Handler
    BY <1>1, <2>1
  <2>3. row \in ExportRow /\ row.state = "COMPLETE"
    BY <2>1, <2>2 DEF ExportRow
  <2>4. /\ e \in jobOpen
        /\ exports' = IF exports[e].state \in {"COMPLETE", "EXPIRED"} THEN exports
                      ELSE [exports EXCEPT ![e] = row]
        /\ jobOpen' = jobOpen \ {e} /\ handlers' \subseteq handlers /\ scope' = scope
    BY <1>11, <2>1 DEF Expo!CompleteExport
  <2>5. /\ exports' \in [ExportIds -> ExportRow]
        /\ exports'[e] \in {row, exports[e]}
        /\ exports[e].state \in {"COMPLETE", "EXPIRED"} \/ exports'[e] = row
        /\ \A x \in ExportIds : x # e => exports'[x] = exports[x]
    BY <1>1, <2>2, <2>3, <2>4
  <2>6. OpenJobUnwritten'
    <3> SUFFICES ASSUME NEW x \in ExportIds, x \in jobOpen' \/ exports'[x].state = "none"
                 PROVE  ~exports'[x].file.written
      BY DEF OpenJobUnwritten
    <3>1. x # e
      BY <2>3, <2>4, <2>5
    <3>2. QED
      BY <2>4, <2>5, <3>1 DEF ExportsGood, OpenJobUnwritten
  <2>7. Expo!FileStays
    <3>1. ~exports[e].file.written
      BY <2>2, <2>4 DEF ExportsGood, OpenJobUnwritten
    <3>2. QED
      BY <2>5, <3>1 DEF Expo!FileStays
  <2>8. QED
    BY <1>1, <2>4, <2>5, <2>6, <2>7 DEF ExportsGood
<1>12. CASE UNCHANGED exportRows
  BY <1>1, <1>12, HandlersMove DEF exportRows
<1>13. QED
  BY <1>3, <1>4, <1>5, <1>6, <1>7, <1>8, <1>9, <1>10, <1>11, <1>12 DEF Expo!Next

\* No export was requested at the beginning.
LEMMA ExportsStart == Expo!Init => ExportsGood
<1> SUFFICES ASSUME Expo!Init PROVE ExportsGood
  OBVIOUS
<1>1. exports \in [ExportIds -> ExportRow]
  BY DEF Expo!Init, Expo!Kinds, Expo!Unwritten, ExportRow
<1>2. QED
  BY <1>1 DEF Expo!Init, Expo!Unwritten, ExportsGood, OpenJobUnwritten

-----------------------------------------------------------------------------
(* The review of conflicts: what was decided is decided. *)

\* Every step of the review of a conflict keeps the invariant, and a conflict is
\* decided once.
LEMMA ReviewKept == ReviewGood /\ [Revw!Next]_reviewRows => ReviewGood' /\ (Revw!Next => Revw!DecidedOnce)
<1> SUFFICES ASSUME ReviewGood, [Revw!Next]_reviewRows
             PROVE  ReviewGood' /\ (Revw!Next => Revw!DecidedOnce)
  OBVIOUS
<1> DEFINE Reading == [operation: Operations \cup {"none"}, mine: BOOLEAN, ended: BOOLEAN]
<1>0. Revw!Nobody \notin Proposers
  BY ServicesAssumption DEF ServicesAssumption, Revw!ReviewAssumption
<1>1. /\ proposing \in [Proposers -> Reading]
      /\ proposals \in [Proposers -> [Operations -> ProposalRow]]
      /\ ended # Revw!NotEnded => assignee = Revw!Nobody
  BY DEF ReviewGood
<1>2. ASSUME proposals' = proposals PROVE Revw!DecidedOnce /\ Revw!SnapshotAgrees'
  BY <1>2 DEF ReviewGood, Revw!SnapshotAgrees, Revw!DecidedOnce
<1>3. ASSUME NEW o \in Proposers, NEW x \in Operations, NEW row \in ProposalRow,
             proposals' = [proposals EXCEPT ![o][x] = row], proposals[o][x].state # "RESOLVED",
             row.synced => row.ended /\ ~row.mine
      PROVE  /\ proposals' \in [Proposers -> [Operations -> ProposalRow]]
             /\ Revw!DecidedOnce /\ Revw!SnapshotAgrees'
  <2>1. /\ proposals' \in [Proposers -> [Operations -> ProposalRow]]
        /\ \A p \in Proposers, y \in Operations :
             proposals'[p][y] = IF p = o /\ y = x THEN row ELSE proposals[p][y]
    BY <1>1, <1>3
  <2>2. Revw!DecidedOnce
    BY <1>3, <2>1 DEF Revw!DecidedOnce
  <2>3. Revw!SnapshotAgrees'
    BY <1>3, <2>1 DEF ReviewGood, Revw!SnapshotAgrees
  <2>4. QED
    BY <2>1, <2>2, <2>3
<1> HIDE DEF Reading
<1>4. ASSUME NEW o \in Proposers, Revw!Assign(o)
      PROVE  ReviewGood' /\ Revw!DecidedOnce
  <2>1. ended = Revw!NotEnded /\ UNCHANGED <<ended, proposing, proposals>>
    BY <1>4 DEF Revw!Assign
  <2>2. ReadUnderFence'
    BY <2>1 DEF ReviewGood, ReadUnderFence, Revw!FenceFree
  <2>3. QED
    BY <1>1, <1>2, <2>1, <2>2 DEF ReviewGood, Reading
<1>5. ASSUME NEW o \in Proposers, NEW x \in Operations \cup {"none"}, Revw!EndVisit(o, x)
      PROVE  ReviewGood' /\ Revw!DecidedOnce
  <2>1. /\ Revw!FenceFree(o) /\ ended'.officer = o /\ assignee' = Revw!Nobody
        /\ UNCHANGED <<proposing, proposals>>
    BY <1>5 DEF Revw!EndVisit
  <2>2. ReadUnderFence'
    BY <2>1 DEF ReadUnderFence, Revw!FenceFree
  <2>3. QED
    BY <1>1, <1>2, <2>1, <2>2 DEF ReviewGood, Reading
<1>6. ASSUME NEW o \in Proposers, NEW x \in Operations, Revw!BeginProposal(o, x)
      PROVE  ReviewGood' /\ Revw!DecidedOnce
  <2>1. PICK p : p = [operation |-> x, mine |-> assignee = o, ended |-> ended # Revw!NotEnded]
    OBVIOUS
  <2>2. /\ p \in Reading
        /\ p.mine = (assignee = o) /\ p.ended = (ended # Revw!NotEnded)
    BY <2>1 DEF Reading
  <2>3. /\ proposing' = [proposing EXCEPT ![o] = p]
        /\ UNCHANGED <<assignee, ended, proposals>>
    BY <1>6, <2>1 DEF Revw!BeginProposal
  <2>4. /\ proposing' \in [Proposers -> Reading]
        /\ \A q \in Proposers : proposing'[q] = IF q = o THEN p ELSE proposing[q]
    BY <1>1, <2>2, <2>3
  <2>5. ended.officer = o => ended # Revw!NotEnded
    BY <1>0 DEF Revw!NotEnded
  <2>6. ended.officer = o => p.ended /\ ~p.mine
    BY <1>0, <1>1, <2>2, <2>5
  <2>7. ReadUnderFence'
    BY <2>3, <2>4, <2>6 DEF ReviewGood, ReadUnderFence, Revw!FenceFree
  <2>8. QED
    BY <1>1, <1>2, <2>3, <2>4, <2>7 DEF ReviewGood, Reading
<1>7. ASSUME NEW o \in Proposers, Revw!ProposeConflict(o) \/ Revw!RollBack(o)
      PROVE  /\ proposing' \in [Proposers -> Reading]
             /\ ReadUnderFence' /\ UNCHANGED <<assignee, ended>>
  <2>1. /\ proposing' = [proposing EXCEPT ![o] = Revw!NotProposing]
        /\ UNCHANGED <<assignee, ended>>
    BY <1>7 DEF Revw!ProposeConflict, Revw!RollBack
  <2>2. Revw!NotProposing \in Reading
    BY DEF Revw!NotProposing, Reading
  <2>3. \A q \in Proposers : proposing'[q] = IF q = o THEN Revw!NotProposing ELSE proposing[q]
    BY <1>1, <2>1
  <2>4. ReadUnderFence'
    BY <2>1, <2>3 DEF ReviewGood, ReadUnderFence, Revw!FenceFree
  <2>5. QED
    BY <1>1, <2>1, <2>2, <2>4
<1>8. ASSUME NEW o \in Proposers, Revw!RollBack(o)
      PROVE  ReviewGood' /\ Revw!DecidedOnce
  <2>1. proposals' = proposals
    BY <1>8 DEF Revw!RollBack
  <2>2. QED
    BY <1>1, <1>2, <1>7, <1>8, <2>1 DEF ReviewGood, Reading
<1>9. ASSUME NEW o \in Proposers, Revw!ProposeConflict(o)
      PROVE  ReviewGood' /\ Revw!DecidedOnce
  <2>1. PICK x, synced, row :
          /\ x = proposing[o].operation
          /\ synced = (ended = [officer |-> o, operation |-> x])
          /\ row = [Revw!NoProposal EXCEPT !.state = "OPEN", !.mine = proposing[o].mine,
                                           !.ended = proposing[o].ended, !.synced = synced]
    OBVIOUS
  <2>2. /\ proposals[o][x] = Revw!NoProposal /\ ~Revw!FenceFree(o)
        /\ proposals' = [proposals EXCEPT ![o][x] = row]
    BY <1>9, <2>1 DEF Revw!ProposeConflict
  <2>3. proposing[o].mine \in BOOLEAN /\ proposing[o].ended \in BOOLEAN /\ synced \in BOOLEAN
    BY <1>1, <2>1 DEF Reading
  <2>4. row \in ProposalRow /\ row.synced = synced
        /\ row.ended = proposing[o].ended /\ row.mine = proposing[o].mine
    BY <2>1, <2>3 DEF ProposalRow, Revw!NoProposal
  <2>5. row.synced => row.ended /\ ~row.mine
    <3>1. [officer |-> o, operation |-> x].officer = o
      OBVIOUS
    <3>2. ended = [officer |-> o, operation |-> x] => ended.officer = o
      BY <3>1
    <3>3. QED
      BY <2>1, <2>2, <2>4, <3>2 DEF ReviewGood, ReadUnderFence
  <2>6. /\ proposals' \in [Proposers -> [Operations -> ProposalRow]]
        /\ Revw!DecidedOnce /\ Revw!SnapshotAgrees'
    <3>1. CASE x \in Operations
      <4>1. proposals[o][x].state # "RESOLVED"
        BY <2>2 DEF Revw!NoProposal
      <4>2. QED
        BY <1>3, <2>2, <2>4, <2>5, <3>1, <4>1
    <3>2. CASE x \notin Operations
      <4>1. proposals' = proposals
        BY <1>1, <2>2, <3>2
      <4>2. QED
        BY <1>1, <1>2, <4>1
    <3>3. QED
      BY <3>1, <3>2
  <2>7. QED
    BY <1>1, <1>7, <1>9, <2>6 DEF ReviewGood, Reading
<1>10. ASSUME NEW s \in Reviewers, NEW o \in Proposers, NEW x \in Operations, NEW outcome \in Revw!Outcomes,
              Revw!ResolveConflict(s, o, x, outcome)
       PROVE  ReviewGood' /\ Revw!DecidedOnce
  <2>1. PICK row : row = [proposals[o][x] EXCEPT !.state = "RESOLVED", !.outcome = outcome, !.by = s]
    OBVIOUS
  <2>2. proposals[o][x] \in ProposalRow
    BY <1>1
  <2>3. /\ row \in ProposalRow /\ row.synced = proposals[o][x].synced
        /\ row.ended = proposals[o][x].ended /\ row.mine = proposals[o][x].mine
    BY <2>1, <2>2 DEF ProposalRow
  <2>4. /\ proposals' = [proposals EXCEPT ![o][x] = row] /\ proposals[o][x].state = "OPEN"
        /\ UNCHANGED <<assignee, ended, proposing>>
    BY <1>10, <2>1 DEF Revw!ResolveConflict
  <2>5. row.synced => row.ended /\ ~row.mine
    BY <2>3 DEF ReviewGood, Revw!SnapshotAgrees
  <2>6. /\ proposals' \in [Proposers -> [Operations -> ProposalRow]]
        /\ Revw!DecidedOnce /\ Revw!SnapshotAgrees'
    BY <1>3, <2>3, <2>4, <2>5
  <2>7. ReadUnderFence'
    BY <2>4 DEF ReviewGood, ReadUnderFence, Revw!FenceFree
  <2>8. QED
    BY <1>1, <2>4, <2>6, <2>7 DEF ReviewGood, Reading
<1>11. CASE UNCHANGED reviewRows
  BY <1>2, <1>11 DEF reviewRows, ReviewGood, ReadUnderFence, Revw!FenceFree
<1>12. CASE Revw!Next
  BY <1>4, <1>5, <1>6, <1>8, <1>9, <1>10, <1>12 DEF Revw!Next
<1>13. QED
  BY <1>11, <1>12

\* The visit is open and no conflict was proposed at the beginning.
LEMMA ReviewStarts == Revw!Init => ReviewGood
<1> SUFFICES ASSUME Revw!Init PROVE ReviewGood
  OBVIOUS
<1>1. proposals \in [Proposers -> [Operations -> ProposalRow]]
  BY DEF Revw!Init, Revw!NoProposal, ProposalRow
<1>2. proposing \in [Proposers -> [operation: Operations \cup {"none"}, mine: BOOLEAN, ended: BOOLEAN]]
  BY DEF Revw!Init, Revw!NotProposing
<1>3. ReadUnderFence
  BY DEF Revw!Init, ReadUnderFence, Revw!FenceFree
<1>4. Revw!SnapshotAgrees
  BY DEF Revw!Init, Revw!SnapshotAgrees, Revw!NoProposal
<1>5. QED
  BY <1>1, <1>2, <1>3, <1>4 DEF Revw!Init, ReviewGood

-----------------------------------------------------------------------------
(* Numbers and recursion. *)

\* A set of numbers that has 0 and the successor of each of its members has them all.
LEMMA AllNumbers ==
  ASSUME NEW T, 0 \in T, \A n \in Nat : n \in T => n + 1 \in T
  PROVE  Nat \subseteq T
<1> DEFINE U == Nat \ T
<1> SUFFICES ASSUME U # {} PROVE FALSE
  OBVIOUS
<1>1. PICK n \in U : \A m \in U : ~(<<m, n>> \in OpToRel(<, Nat))
  BY NatLessThanWellFounded, WFMin
<1>2. n \in Nat /\ n \notin T
  BY <1>1
<1>3. \A m \in Nat : m < n => m \in T
  BY <1>1, <1>2 DEF OpToRel
<1>4. n # 0
  BY <1>2
<1>5. n - 1 \in Nat /\ n - 1 < n /\ (n - 1) + 1 = n
  BY <1>2, <1>4
<1>6. QED
  BY <1>2, <1>3, <1>5

\* f starts with base and takes N turns in S.
TakesTurns(f, N, S, base, turn) ==
  f \in [0..N -> S] /\ f[0] = base /\ \A n \in 1..N : f[n] = turn[<<n, f[n - 1]>>]

\* A function given by its first value and its turns exists, and its values stay in S
\* when each turn does.
LEMMA Turns ==
  ASSUME NEW N \in Nat, NEW S, NEW base \in S, NEW turn \in [(1..N) \X S -> S]
  PROVE  \E f : TakesTurns(f, N, S, base, turn)
<1> DEFINE Good(f, m) == /\ f \in [0..m -> S] /\ f[0] = base
                         /\ \A n \in 1..m : f[n] = turn[<<n, f[n - 1]>>]
           T == {m \in Nat : m <= N => \E f : Good(f, m)}
<1>1. 0 \in T
  <2>1. Good([n \in 0..0 |-> base], 0)
    OBVIOUS
  <2>2. QED
    BY <2>1
<1>2. ASSUME NEW m \in Nat, m \in T
      PROVE  m + 1 \in T
  <2>1. SUFFICES ASSUME m + 1 <= N PROVE \E f : Good(f, m + 1)
    OBVIOUS
  <2>2. PICK f : Good(f, m)
    BY <1>2, <2>1
  <2>3. PICK x : x = turn[<<m + 1, f[m]>>]
    OBVIOUS
  <2>4. f[m] \in S /\ m + 1 \in 1..N
    BY <2>1, <2>2
  <2>5. x \in S
    BY <2>3, <2>4
  <2>6. PICK g : g = [n \in 0..(m + 1) |-> IF n = m + 1 THEN x ELSE f[n]]
    OBVIOUS
  <2>7. g \in [0..(m + 1) -> S] /\ g[m + 1] = x /\ \A n \in 0..m : g[n] = f[n]
    BY <2>2, <2>5, <2>6
  <2>8. \A n \in 1..(m + 1) : g[n] = turn[<<n, g[n - 1]>>]
    <3>1. SUFFICES ASSUME NEW n \in 1..(m + 1) PROVE g[n] = turn[<<n, g[n - 1]>>]
      OBVIOUS
    <3>2. n - 1 \in 0..m /\ g[n - 1] = f[n - 1]
      BY <2>7
    <3>3. CASE n = m + 1
      BY <2>3, <2>7, <3>2, <3>3
    <3>4. CASE n # m + 1
      <4>1. n \in 1..m /\ g[n] = f[n]
        BY <2>7, <3>4
      <4>2. QED
        BY <2>2, <3>2, <4>1
    <3>5. QED
      BY <3>3, <3>4
  <2>9. g[0] = base
    BY <2>2, <2>7
  <2>10. QED
    BY <2>7, <2>8, <2>9
<1>3. N \in T
  BY <1>1, <1>2, AllNumbers
<1>4. QED
  BY <1>3 DEF TakesTurns

-----------------------------------------------------------------------------
(* Pauses. *)

PauseRow == [from: Nat, until: Nat]

\* Absorbing a pause keeps a sequence of pauses.
LEMMA AbsorbTyped ==
  ASSUME NEW merged \in Seq(PauseRow), NEW p \in PauseRow
  PROVE  Thre!Absorb(merged, p) \in Seq(PauseRow)
<1>1. Len(merged) \in Nat /\ DOMAIN merged = 1..Len(merged)
  OBVIOUS
<1>2. ASSUME Len(merged) > 0
      PROVE  [merged EXCEPT ![Len(merged)] = Thre!Join(@, p)] \in Seq(PauseRow)
  <2>1. merged[Len(merged)] \in PauseRow
    BY <1>1, <1>2
  <2>2. Thre!Join(merged[Len(merged)], p) \in PauseRow
    BY <2>1 DEF Thre!Join, Thre!Later, PauseRow
  <2>3. PICK n, x : n = Len(merged) /\ x = Thre!Join(merged[n], p)
    OBVIOUS
  <2>4. n \in Nat /\ merged \in [1..n -> PauseRow] /\ x \in PauseRow
    BY <1>1, <2>2, <2>3
  <2>5. [merged EXCEPT ![n] = x] \in [1..n -> PauseRow]
    BY <2>4
  <2>6. [merged EXCEPT ![n] = x] \in Seq(PauseRow)
    BY <2>4, <2>5
  <2>7. QED
    BY <2>3, <2>6
<1>3. QED
  BY <1>1, <1>2 DEF Thre!Absorb

\* What MergePauses folds the pauses with, one turn after another.
LEMMA MergedByTurns ==
  ASSUME NEW pauses, NEW ordered \in Seq(PauseRow), ordered = Thre!Ordered(pauses)
  PROVE  \E merged : /\ merged \in [0..Len(ordered) -> Seq(PauseRow)]
                     /\ merged[0] = <<>>
                     /\ \A n \in 1..Len(ordered) : merged[n] = Thre!Absorb(merged[n - 1], ordered[n])
                     /\ Thre!MergePauses(pauses) = merged[Len(ordered)]
<1> DEFINE S == Seq(PauseRow)
           IsMerge(f, m) == f = [n \in 0..m |-> IF n = 0 THEN <<>> ELSE Thre!Absorb(f[n - 1], ordered[n])]
           merged == CHOOSE f : IsMerge(f, Len(ordered))
<1>1. PICK N, turn : N = Len(ordered) /\ turn = [x \in (1..N) \X S |-> Thre!Absorb(x[2], ordered[x[1]])]
  OBVIOUS
<1>2. N \in Nat /\ DOMAIN ordered = 1..N /\ \A n \in 1..N : ordered[n] \in PauseRow
  BY <1>1
<1>3. Thre!MergePauses(pauses) = merged[N]
  BY <1>1 DEF Thre!MergePauses
<1>4. ASSUME NEW n \in 1..N, NEW m \in S
      PROVE  turn[<<n, m>>] = Thre!Absorb(m, ordered[n]) /\ turn[<<n, m>>] \in S
  <2>1. turn[<<n, m>>] = Thre!Absorb(m, ordered[n])
    BY <1>1
  <2>2. QED
    BY <1>2, <1>4, <2>1, AbsorbTyped
<1>5. <<>> \in S
  OBVIOUS
<1>6. PICK f \in [0..N -> S] : f[0] = <<>> /\ \A n \in 1..N : f[n] = turn[<<n, f[n - 1]>>]
  <2> HIDE DEF S
  <2>1. turn \in [(1..N) \X S -> S]
    BY <1>1, <1>4
  <2>2. PICK empty \in S : empty = <<>>
    BY <1>5
  <2>3. N \in Nat
    BY <1>2
  <2>4. \E f : TakesTurns(f, N, S, empty, turn)
    BY <2>1, <2>3, Turns
  <2>5. QED
    BY <2>2, <2>4 DEF TakesTurns
<1>7. IsMerge(f, N)
  <2> HIDE DEF S
  <2>1. \A n \in 1..N : f[n] = Thre!Absorb(f[n - 1], ordered[n])
    <3>1. SUFFICES ASSUME NEW n \in 1..N PROVE f[n] = Thre!Absorb(f[n - 1], ordered[n])
      OBVIOUS
    <3>2. f[n - 1] \in S
      BY <1>2, <1>6
    <3>3. QED
      BY <1>4, <1>6, <3>2
  <2>2. \A n \in 0..N : f[n] = IF n = 0 THEN <<>> ELSE Thre!Absorb(f[n - 1], ordered[n])
    BY <1>2, <1>6, <2>1
  <2>3. QED
    BY <2>2
<1>8. IsMerge(merged, N)
  <2> HIDE DEF IsMerge
  <2>1. QED
    BY <1>1, <1>7
<1>9. merged = f
  <2> HIDE DEF merged
  <2> DEFINE T == {n \in Nat : n <= N => merged[n] = f[n]}
  <2>1. 0 \in T
    BY <1>2, <1>7, <1>8
  <2>2. ASSUME NEW n \in Nat, n \in T PROVE n + 1 \in T
    BY <1>2, <1>7, <1>8, <2>2
  <2>3. Nat \subseteq T
    BY <2>1, <2>2, AllNumbers
  <2>4. \A n \in 0..N : merged[n] = f[n]
    BY <1>2, <2>3
  <2>5. QED
    BY <1>7, <1>8, <2>4
<1>10. \A n \in 1..N : f[n] = Thre!Absorb(f[n - 1], ordered[n])
  BY <1>2, <1>7
<1> HIDE DEF merged, IsMerge, S
<1>11. f \in [0..Len(ordered) -> S] /\ Thre!MergePauses(pauses) = f[Len(ordered)]
  BY <1>1, <1>3, <1>6, <1>9
<1>12. QED
  BY <1>1, <1>6, <1>10, <1>11 DEF S

-----------------------------------------------------------------------------
(* The order of pauses. *)

\* MergePauses sorts the pauses it is given: each of them is in the sequence, and they
\* come by their start and then their end.
LEMMA OrderedSorts ==
  ASSUME NEW pauses, IsFiniteSet(pauses), pauses \subseteq PauseRow
  PROVE  /\ Cardinality(pauses) \in Nat
         /\ Thre!Ordered(pauses) \in [1..Cardinality(pauses) -> pauses]
         /\ \A i, j \in 1..Cardinality(pauses) : i < j => Thre!Before(Thre!Ordered(pauses)[i], Thre!Ordered(pauses)[j])
         /\ \A p \in pauses : \E i \in 1..Cardinality(pauses) : Thre!Ordered(pauses)[i] = p
<1> DEFINE Below(x) == {q \in pauses : Thre!Before(q, x)}
           InOrder(s) == \A i, j \in DOMAIN s : i < j => Thre!Before(s[i], s[j])
<1>1. PICK n \in Nat : n = Cardinality(pauses) /\ n = Thre!Cardinality(pauses)
  BY FS_CardinalityType DEF Thre!Cardinality, Cardinality, IsFiniteSet
<1>2. /\ \A x \in pauses : ~Thre!Before(x, x)
      /\ \A x, y \in pauses : x # y => Thre!Before(x, y) \/ Thre!Before(y, x)
      /\ \A x, y, z \in pauses : Thre!Before(x, y) /\ Thre!Before(y, z) => Thre!Before(x, z)
  BY DEF Thre!Before, PauseRow
<1>3. PICK r : r = [x \in pauses |-> 1 + Cardinality(Below(x))]
  OBVIOUS
<1>4. ASSUME NEW x \in pauses
      PROVE  IsFiniteSet(Below(x)) /\ Cardinality(Below(x)) \in Nat /\ r[x] = 1 + Cardinality(Below(x)) /\ r[x] \in 1..n
  <2>1. IsFiniteSet(pauses \ {x}) /\ Cardinality(pauses \ {x}) = n - 1
    BY <1>1, FS_RemoveElement
  <2>2. Below(x) \in SUBSET (pauses \ {x})
    BY <1>2
  <2>3. IsFiniteSet(Below(x)) /\ Cardinality(Below(x)) <= n - 1
    BY <2>1, <2>2, FS_Subset
  <2>4. Cardinality(Below(x)) \in Nat
    BY <2>3, FS_CardinalityType
  <2>5. r[x] = 1 + Cardinality(Below(x))
    BY <1>3
  <2>6. QED
    BY <1>1, <2>3, <2>4, <2>5
<1>5. ASSUME NEW x \in pauses, NEW y \in pauses, Thre!Before(x, y)
      PROVE  r[x] < r[y]
  <2>1. x \notin Below(x) /\ Below(x) \cup {x} \in SUBSET Below(y)
    BY <1>2, <1>5
  <2>2. Cardinality(Below(x) \cup {x}) = Cardinality(Below(x)) + 1
    BY <1>4, <2>1, FS_AddElement
  <2>3. Cardinality(Below(x) \cup {x}) <= Cardinality(Below(y))
    BY <1>4, <2>1, FS_Subset
  <2> HIDE DEF Below
  <2>4. QED
    BY <1>4, <2>2, <2>3
<1> HIDE DEF Below
<1>6. IsFiniteSet(1..n) /\ Cardinality(1..n) = n
  BY FS_Interval
<1>7. \A i \in 1..n : \E x \in pauses : r[x] = i
  <2>1. r \in [pauses -> 1..n]
    BY <1>3, <1>4
  <2>2. \A x, y \in pauses : x # y => r[x] # r[y]
    BY <1>2, <1>4, <1>5
  <2>3. r \in Injection(pauses, 1..n)
    BY <2>1, <2>2 DEF Injection, IsInjective
  <2>4. r \in Surjection(pauses, 1..n)
    BY <1>1, <1>6, <2>3, FS_Injection
  <2>5. QED
    BY <2>4 DEF Surjection
<1>8. \E s \in [1..n -> pauses] : InOrder(s)
  <2>1. PICK s : s = [i \in 1..n |-> CHOOSE x \in pauses : r[x] = i]
    OBVIOUS
  <2>2. \A i \in 1..n : s[i] \in pauses /\ r[s[i]] = i
    BY <1>7, <2>1
  <2>3. s \in [1..n -> pauses] /\ DOMAIN s = 1..n
    BY <2>1, <2>2
  <2>4. ASSUME NEW i \in 1..n, NEW j \in 1..n, i < j
        PROVE  Thre!Before(s[i], s[j])
    <3>1. s[i] # s[j] /\ ~(r[s[j]] < r[s[i]])
      BY <2>2, <2>4
    <3>2. QED
      BY <1>2, <1>5, <2>2, <3>1
  <2>5. QED
    BY <2>3, <2>4
<1>9. PICK o : o = Thre!Ordered(pauses)
  OBVIOUS
<1>10. o \in [1..n -> pauses] /\ InOrder(o)
  <2>1. o = CHOOSE s \in [1..n -> pauses] : InOrder(s)
    BY <1>1, <1>9 DEF Thre!Ordered
  <2> HIDE DEF InOrder
  <2>2. QED
    BY <1>8, <2>1
<1>11. \A i, j \in 1..n : i < j => Thre!Before(o[i], o[j])
  BY <1>10
<1>12. \A p \in pauses : \E i \in 1..n : o[i] = p
  <2>1. ASSUME NEW i \in 1..n, NEW j \in 1..n, i # j
        PROVE  o[i] # o[j]
    <3>1. i < j \/ j < i
      BY <2>1
    <3>2. o[i] \in pauses /\ o[j] \in pauses
      BY <1>10
    <3>3. QED
      BY <1>2, <1>11, <3>1, <3>2
  <2>2. o \in Injection(1..n, pauses)
    BY <1>10, <2>1 DEF Injection, IsInjective
  <2>3. o \in Surjection(1..n, pauses)
    BY <1>1, <1>6, <2>2, FS_Injection
  <2>4. QED
    BY <2>3 DEF Surjection
<1>13. QED
  BY <1>1, <1>9, <1>10, <1>11, <1>12

-----------------------------------------------------------------------------
(* The union of the pauses. *)

Covers(p, m) == p.from <= m /\ m < p.until

\* A sequence of pauses that come by their start, and cover the minutes of Q.
Lists(s, Q) ==
  /\ s \in Seq(PauseRow)
  /\ \A i, j \in 1..Len(s) : i < j => s[i].from <= s[j].from
  /\ \A m \in Nat : (\E i \in 1..Len(s) : Covers(s[i], m)) <=> (\E q \in Q : Covers(q, m))

\* Absorbing a pause that starts last, _merge_pauses covers it and nothing else.
LEMMA AbsorbCovers ==
  ASSUME NEW s, NEW Q, Lists(s, Q), NEW p \in PauseRow, \A i \in 1..Len(s) : s[i].from <= p.from
  PROVE  /\ Lists(Thre!Absorb(s, p), Q \cup {p})
         /\ \A i \in 1..Len(Thre!Absorb(s, p)) : Thre!Absorb(s, p)[i].from <= p.from
<1>1. s \in Seq(PauseRow)
  BY DEF Lists
<1>2. PICK n \in Nat : n = Len(s) /\ s \in [1..n -> PauseRow]
  BY <1>1
<1>3. \A m \in Nat : (\E i \in 1..n : Covers(s[i], m)) <=> (\E q \in Q : Covers(q, m))
  BY <1>2 DEF Lists
<1>4. \A i, j \in 1..n : i < j => s[i].from <= s[j].from
  BY <1>2 DEF Lists
<1>5. PICK t : t = Thre!Absorb(s, p)
  OBVIOUS
<1>6. t \in Seq(PauseRow)
  BY <1>1, <1>5, AbsorbTyped
<1>7. CASE n > 0 /\ p.from <= s[n].until
  <2>1. PICK x : x = Thre!Join(s[n], p)
    OBVIOUS
  <2>2. s[n] \in PauseRow /\ n \in 1..n
    BY <1>2, <1>7
  <2>3. x \in PauseRow /\ x.from = s[n].from /\ x.until = (IF s[n].until < p.until THEN p.until ELSE s[n].until)
    BY <2>1, <2>2 DEF Thre!Join, Thre!Later, PauseRow
  <2>4. t = [s EXCEPT ![n] = x]
    BY <1>2, <1>5, <1>7, <2>1 DEF Thre!Absorb
  <2>5. Len(t) = n /\ t[n] = x /\ \A i \in 1..n : i # n => t[i] = s[i]
    <3>1. t \in [1..n -> PauseRow] /\ t[n] = x /\ \A i \in 1..n : i # n => t[i] = s[i]
      BY <1>2, <2>2, <2>3, <2>4
    <3>2. n \in Nat
      BY <1>2
    <3>3. t \in Seq(PauseRow) /\ Len(t) = n
      BY ONLY <3>1, <3>2
    <3>4. QED
      BY <3>1, <3>3
  <2>6. \A i \in 1..n : t[i].from = s[i].from
    BY <2>3, <2>5
  <2>7. s[n].from <= p.from
    BY <1>2, <2>2
  <2>8. ASSUME NEW m \in Nat
        PROVE  Covers(x, m) <=> Covers(s[n], m) \/ Covers(p, m)
    BY <1>7, <2>2, <2>3, <2>7 DEF Covers, PauseRow
  <2>9. ASSUME NEW m \in Nat
        PROVE  (\E i \in 1..n : Covers(t[i], m)) <=> (\E i \in 1..n : Covers(s[i], m)) \/ Covers(p, m)
    BY <2>2, <2>5, <2>8
  <2>10. \A m \in Nat : (\E i \in 1..Len(t) : Covers(t[i], m)) <=> (\E q \in Q \cup {p} : Covers(q, m))
    BY <1>3, <2>5, <2>9
  <2>11. \A i, j \in 1..Len(t) : i < j => t[i].from <= t[j].from
    BY <1>4, <2>5, <2>6
  <2>12. \A i \in 1..Len(t) : t[i].from <= p.from
    BY <1>2, <2>5, <2>6
  <2>13. QED
    BY <1>5, <1>6, <2>10, <2>11, <2>12 DEF Lists
<1>8. CASE ~(n > 0 /\ p.from <= s[n].until)
  <2>1. t = Append(s, p)
    BY <1>2, <1>5, <1>8 DEF Thre!Absorb
  <2>2. Len(t) = n + 1 /\ t[n + 1] = p /\ \A i \in 1..n : t[i] = s[i]
    BY <1>1, <1>2, <2>1
  <2>3. \A i \in 1..(n + 1) : i \in 1..n \/ i = n + 1
    BY <1>2
  <2>4. \A i \in 1..n : i \in 1..(n + 1)
    BY <1>2
  <2>5. n + 1 \in 1..(n + 1)
    BY <1>2
  <2>6. ASSUME NEW m \in Nat
        PROVE  (\E i \in 1..(n + 1) : Covers(t[i], m)) <=> (\E i \in 1..n : Covers(s[i], m)) \/ Covers(p, m)
    BY <2>2, <2>3, <2>4, <2>5
  <2>7. \A m \in Nat : (\E i \in 1..Len(t) : Covers(t[i], m)) <=> (\E q \in Q \cup {p} : Covers(q, m))
    BY <1>3, <2>2, <2>6
  <2>8. p.from <= p.from
    BY DEF PauseRow
  <2>9. \A i \in 1..Len(t) : t[i].from <= p.from
    BY <1>2, <2>2, <2>3, <2>8
  <2>10. \A i, j \in 1..Len(t) : i < j => t[i].from <= t[j].from
    <3>1. SUFFICES ASSUME NEW i \in 1..(n + 1), NEW j \in 1..(n + 1), i < j PROVE t[i].from <= t[j].from
      BY <2>2
    <3>2. i \in 1..n
      BY <1>2, <3>1
    <3>3. QED
      BY <1>2, <1>4, <2>2, <2>3, <3>1, <3>2
  <2>11. QED
    BY <1>5, <1>6, <2>7, <2>9, <2>10 DEF Lists
<1>9. QED
  BY <1>7, <1>8

\* MergePauses covers what the pauses cover, in the order of their starts, however
\* they overlap or touch.
LEMMA MergedCovers ==
  ASSUME NEW pauses, IsFiniteSet(pauses), pauses \subseteq PauseRow
  PROVE  Lists(Thre!MergePauses(pauses), pauses)
<1>1. PICK ordered, N :
         /\ N \in Nat /\ ordered = Thre!Ordered(pauses) /\ ordered \in [1..N -> pauses]
         /\ \A i, j \in 1..N : i < j => Thre!Before(ordered[i], ordered[j])
         /\ \A p \in pauses : \E i \in 1..N : ordered[i] = p
  <2>1. PICK o, n : o = Thre!Ordered(pauses) /\ n = Cardinality(pauses)
    OBVIOUS
  <2>2. /\ n \in Nat /\ o \in [1..n -> pauses]
        /\ \A i, j \in 1..n : i < j => Thre!Before(o[i], o[j])
        /\ \A p \in pauses : \E i \in 1..n : o[i] = p
    BY <2>1, OrderedSorts
  <2>3. QED
    BY <2>1, <2>2
<1>2. ordered \in Seq(PauseRow) /\ Len(ordered) = N
  <2>1. ordered \in [1..N -> PauseRow]
    BY <1>1
  <2>2. QED
    BY <1>1, <2>1
<1>3. PICK merged : /\ merged \in [0..N -> Seq(PauseRow)]
                    /\ merged[0] = <<>>
                    /\ \A n \in 1..N : merged[n] = Thre!Absorb(merged[n - 1], ordered[n])
                    /\ Thre!MergePauses(pauses) = merged[N]
  <2>1. ordered = Thre!Ordered(pauses)
    BY <1>1
  <2>2. \E merged : /\ merged \in [0..Len(ordered) -> Seq(PauseRow)]
                    /\ merged[0] = <<>>
                    /\ \A n \in 1..Len(ordered) : merged[n] = Thre!Absorb(merged[n - 1], ordered[n])
                    /\ Thre!MergePauses(pauses) = merged[Len(ordered)]
    BY <1>2, <2>1, MergedByTurns
  <2>3. QED
    BY <1>2, <2>2
<1>4. \A i \in 1..N : ordered[i] \in PauseRow
  BY <1>1
<1>5. \A i, j \in 1..N : i < j => ordered[i].from <= ordered[j].from
  <2>1. SUFFICES ASSUME NEW i \in 1..N, NEW j \in 1..N, i < j PROVE ordered[i].from <= ordered[j].from
    OBVIOUS
  <2>2. Thre!Before(ordered[i], ordered[j]) /\ ordered[i] \in PauseRow /\ ordered[j] \in PauseRow
    BY <1>1, <1>4, <2>1
  <2>3. QED
    BY <2>2 DEF Thre!Before, PauseRow
<1> DEFINE First(n) == {ordered[i] : i \in 1..n}
           Good(n) == /\ Lists(merged[n], First(n))
                      /\ \A i \in 1..Len(merged[n]) : \A j \in 1..N : n < j => merged[n][i].from <= ordered[j].from
           T == {n \in Nat : n <= N => Good(n)}
<1>6. 0 \in T
  <2>1. merged[0] = <<>> /\ Len(merged[0]) = 0
    BY <1>3
  <2>2. <<>> \in Seq(PauseRow)
    OBVIOUS
  <2>3. First(0) = {}
    OBVIOUS
  <2>4. QED
    BY <2>1, <2>2, <2>3 DEF Lists
<1>7. ASSUME NEW n \in Nat, n \in T
      PROVE  n + 1 \in T
  <2>1. SUFFICES ASSUME n + 1 <= N PROVE Good(n + 1)
    OBVIOUS
  <2>2. Good(n) /\ n + 1 \in 1..N /\ n + 1 # 0
    BY <1>1, <1>7, <2>1
  <2>3. PICK s, p : s = merged[n] /\ p = ordered[n + 1]
    OBVIOUS
  <2>4. p \in PauseRow /\ merged[n + 1] = Thre!Absorb(s, p)
    BY <1>3, <1>4, <2>2, <2>3
  <2>5. Lists(s, First(n)) /\ \A i \in 1..Len(s) : s[i].from <= p.from
    BY <2>2, <2>3
  <2> HIDE DEF First
  <2>6. /\ Lists(merged[n + 1], First(n) \cup {p})
        /\ \A i \in 1..Len(merged[n + 1]) : merged[n + 1][i].from <= p.from
    <3>1. PICK Q : Q = First(n)
      OBVIOUS
    <3>2. Lists(s, Q)
      BY <2>5, <3>1
    <3>3. /\ Lists(Thre!Absorb(s, p), Q \cup {p})
          /\ \A i \in 1..Len(Thre!Absorb(s, p)) : Thre!Absorb(s, p)[i].from <= p.from
      BY <2>4, <2>5, <3>2, AbsorbCovers
    <3>4. QED
      BY <2>4, <3>1, <3>3
  <2>7. First(n + 1) = First(n) \cup {p}
    <3>1. 1..(n + 1) = (1..n) \cup {n + 1}
      OBVIOUS
    <3>2. QED
      BY <2>3, <3>1 DEF First
  <2>8. ASSUME NEW i \in 1..Len(merged[n + 1]), NEW j \in 1..N, n + 1 < j
        PROVE  merged[n + 1][i].from <= ordered[j].from
    <3>1. PICK q : q = merged[n + 1][i]
      OBVIOUS
    <3>2. q \in PauseRow
      <4>1. merged[n + 1] \in Seq(PauseRow)
        BY <2>6 DEF Lists
      <4>2. QED
        BY <2>8, <3>1, <4>1
    <3>3. q.from <= p.from /\ p.from <= ordered[j].from
      BY <1>5, <2>2, <2>3, <2>6, <2>8, <3>1
    <3>4. QED
      BY <1>4, <2>4, <3>1, <3>2, <3>3 DEF PauseRow
  <2>9. QED
    BY <2>6, <2>7, <2>8
<1>8. Good(N)
  <2> HIDE DEF Good
  <2>1. Nat \subseteq T
    BY <1>6, <1>7, AllNumbers
  <2>2. QED
    BY <1>1, <2>1
<1>9. First(N) = pauses
  BY <1>1
<1>10. QED
  BY <1>3, <1>8, <1>9

-----------------------------------------------------------------------------
(* Active time and the loop of due_instant. *)

\* The members of A from start on and before t.
Upto(A, start, t) == {m \in Nat : m \in A /\ start <= m /\ m < t}

ClockState == [cursor: Nat, remaining: Nat, due: Nat]

\* At t, what is left of the budget is what the active time before t leaves.
Owes(A, start, budget, st, t) ==
  /\ st.due = 0 /\ st.remaining > 0
  /\ Cardinality(Upto(A, start, t)) + st.remaining = budget

\* The answer is the end of the minute in which active time reaches the budget, or
\* Forever if it never does.
Answers(A, start, budget, due) ==
  /\ due # 0
  /\ \/ due = Forever /\ \A t \in Nat : Cardinality(Upto(A, start, t)) < budget
     \/ due \in Nat /\ start < due /\ due - 1 \in A /\ Cardinality(Upto(A, start, due)) = budget

\* The active minutes before an instant are finitely many, and grow with it.
LEMMA UptoGrows ==
  ASSUME NEW A, NEW start \in Nat, NEW a \in Nat, NEW b \in Nat, a <= b
  PROVE  /\ IsFiniteSet(Upto(A, start, a)) /\ Cardinality(Upto(A, start, a)) \in Nat
         /\ Cardinality(Upto(A, start, a)) <= Cardinality(Upto(A, start, b))
<1>1. \A t \in Nat : IsFiniteSet(Upto(A, start, t)) /\ Cardinality(Upto(A, start, t)) \in Nat
  <2>1. SUFFICES ASSUME NEW t \in Nat
                 PROVE  IsFiniteSet(Upto(A, start, t)) /\ Cardinality(Upto(A, start, t)) \in Nat
    OBVIOUS
  <2>2. Upto(A, start, t) \in SUBSET Nat /\ \A m \in Upto(A, start, t) : m <= t
    BY DEF Upto
  <2>3. IsFiniteSet(Upto(A, start, t))
    BY <2>2, FS_BoundedSetOfNaturals
  <2>4. QED
    BY <2>3, FS_CardinalityType
<1>2. Upto(A, start, a) \in SUBSET Upto(A, start, b)
  BY DEF Upto
<1>3. QED
  BY <1>1, <1>2, FS_Subset

\* When every minute from a to b is active, active time grows by their number.
LEMMA SpanCounts ==
  ASSUME NEW A, NEW start \in Nat, NEW a \in Nat, NEW b \in Nat, start <= a, a <= b,
         \A m \in Nat : a <= m /\ m < b => m \in A
  PROVE  Cardinality(Upto(A, start, b)) = Cardinality(Upto(A, start, a)) + (b - a)
<1>1. Upto(A, start, b) = Upto(A, start, a) \cup (a..(b - 1)) /\ Upto(A, start, a) \cap (a..(b - 1)) = {}
  BY DEF Upto
<1>2. IsFiniteSet(a..(b - 1)) /\ Cardinality(a..(b - 1)) = b - a
  <2>1. a \in Int /\ b - 1 \in Int /\ (b - 1) - a + 1 = b - a /\ (a > b - 1 => b - a = 0)
    OBVIOUS
  <2>2. QED
    BY <2>1, FS_Interval
<1>3. IsFiniteSet(Upto(A, start, a)) /\ Cardinality(Upto(A, start, a)) \in Nat
  BY UptoGrows
<1>4. Cardinality({}) = 0
  BY FS_EmptySet
<1>5. PICK S, T : S = Upto(A, start, a) /\ T = a..(b - 1)
  OBVIOUS
<1>6. Cardinality(S \cup T) = Cardinality(S) + Cardinality(T) - Cardinality(S \cap T)
  BY <1>2, <1>3, <1>5, FS_Union
<1>7. S \cap T = {} /\ S \cup T = Upto(A, start, b)
  BY <1>1, <1>5
<1>8. Cardinality(Upto(A, start, b)) = Cardinality(S) + Cardinality(T) - 0
  BY <1>4, <1>6, <1>7
<1>9. Cardinality(S) \in Nat /\ Cardinality(S) = Cardinality(Upto(A, start, a)) /\ Cardinality(T) = b - a
  BY <1>2, <1>3, <1>5
<1>10. QED
  BY <1>8, <1>9

\* Running the clock keeps its state.
LEMMA SpendTyped ==
  ASSUME NEW st \in ClockState, NEW to \in Nat, st.cursor <= to
  PROVE  Thre!Spend(st, to) \in ClockState
<1>1. CASE to - st.cursor >= st.remaining
  BY <1>1 DEF Thre!Spend, ClockState
<1>2. CASE ~(to - st.cursor >= st.remaining)
  <2>1. st.remaining - (to - st.cursor) \in Nat
    BY <1>2 DEF ClockState
  <2>2. QED
    BY <1>2, <2>1 DEF Thre!Spend, ClockState
<1>3. QED
  BY <1>1, <1>2

\* Running the clock over active minutes answers, or leaves what they leave.
LEMMA SpendCounts ==
  ASSUME NEW A, NEW start \in Nat, NEW budget \in Nat,
         NEW st \in ClockState, start <= st.cursor, Owes(A, start, budget, st, st.cursor),
         NEW to \in Nat, st.cursor <= to,
         \A m \in Nat : st.cursor <= m /\ m < to => m \in A
  PROVE  \/ Answers(A, start, budget, Thre!Spend(st, to).due)
         \/ /\ Owes(A, start, budget, Thre!Spend(st, to), to)
            /\ Thre!Spend(st, to).cursor = to
<1>1. PICK c, r : c = st.cursor /\ r = st.remaining
  OBVIOUS
<1>2. c \in Nat /\ r \in Nat /\ r > 0 /\ st.due = 0 /\ Cardinality(Upto(A, start, c)) + r = budget
  BY <1>1 DEF Owes, ClockState
<1>3. Cardinality(Upto(A, start, c)) \in Nat
  BY <1>2, UptoGrows
<1>4. CASE to - c >= r
  <2>1. Thre!Spend(st, to).due = c + r
    BY <1>1, <1>4 DEF Thre!Spend, ClockState
  <2>2. c + r \in Nat /\ start <= c /\ c <= c + r /\ \A m \in Nat : c <= m /\ m < c + r => m \in A
    BY <1>1, <1>2, <1>4
  <2>3. Cardinality(Upto(A, start, c + r)) = Cardinality(Upto(A, start, c)) + ((c + r) - c)
    <3>1. PICK e \in Nat : e = c + r
      BY <2>2
    <3>2. c <= e /\ \A m \in Nat : c <= m /\ m < e => m \in A
      BY <2>2, <3>1
    <3>3. Cardinality(Upto(A, start, e)) = Cardinality(Upto(A, start, c)) + (e - c)
      BY <1>2, <2>2, <3>2, SpanCounts
    <3>4. QED
      BY <3>1, <3>3
  <2>4. (c + r) - 1 \in Nat /\ c <= (c + r) - 1 /\ (c + r) - 1 < c + r
    BY <1>2
  <2>5. (c + r) - 1 \in A /\ start < c + r /\ c + r # 0
    BY <1>2, <2>2, <2>4
  <2>6. Cardinality(Upto(A, start, c + r)) = budget
    BY <1>2, <1>3, <2>3
  <2>7. QED
    BY <2>1, <2>2, <2>5, <2>6 DEF Answers
<1>5. CASE ~(to - c >= r)
  <2>1. /\ Thre!Spend(st, to).due = 0
        /\ Thre!Spend(st, to).cursor = to
        /\ Thre!Spend(st, to).remaining = r - (to - c)
    BY <1>1, <1>2, <1>5 DEF Thre!Spend, ClockState
  <2>2. Cardinality(Upto(A, start, to)) = Cardinality(Upto(A, start, c)) + (to - c)
    BY <1>1, <1>2, SpanCounts
  <2>3. r - (to - c) > 0 /\ Cardinality(Upto(A, start, to)) + (r - (to - c)) = budget
    BY <1>2, <1>3, <1>5, <2>2
  <2>4. QED
    BY <2>1, <2>3 DEF Owes
<1>6. QED
  BY <1>4, <1>5

-----------------------------------------------------------------------------
(* One window. *)

\* The minutes of the window w that no pause of M covers are in A, and those that a
\* pause covers are not.
Fits(A, w, M) ==
  /\ M \in Seq(PauseRow) /\ \A i, j \in 1..Len(M) : i < j => M[i].from <= M[j].from
  /\ \A m \in Nat : w.from <= m /\ m < w.until /\ (\A i \in 1..Len(M) : ~Covers(M[i], m)) => m \in A
  /\ \A m \in A : m < Forever /\ \A i \in 1..Len(M) : ~Covers(M[i], m)

\* After k pauses, no minute that is left of the window is in one of them.
InWindow(A, start, budget, w, M, st, k) ==
  \/ Answers(A, start, budget, st.due)
  \/ /\ Owes(A, start, budget, st, st.cursor)
     /\ start <= st.cursor /\ w.from <= st.cursor /\ st.cursor <= w.until
     /\ \A m \in Nat : st.cursor <= m /\ m < w.until => \A i \in 1..k : ~Covers(M[i], m)

\* Passing a pause keeps the state.
LEMMA PassPauseTyped ==
  ASSUME NEW st \in ClockState, NEW p \in PauseRow, NEW until \in Nat, Forever \in Nat
  PROVE  Thre!PassPause(st, p, until) \in ClockState
<1>1. PICK to : to = Thre!Later(st.cursor, Thre!Earlier(p.from, until))
  OBVIOUS
<1>2. to \in Nat /\ st.cursor <= to
  BY <1>1 DEF Thre!Later, Thre!Earlier, ClockState, PauseRow
<1>3. PICK spent : spent = IF to > st.cursor THEN Thre!Spend(st, to) ELSE st
  OBVIOUS
<1>4. spent \in ClockState
  BY <1>2, <1>3, SpendTyped
<1>5. PICK end : end = Thre!Later(to, Thre!Earlier(p.until, until))
  OBVIOUS
<1>6. end \in Nat
  BY <1>2, <1>5 DEF Thre!Later, Thre!Earlier, ClockState, PauseRow
<1>7. [spent EXCEPT !.due = Forever] \in ClockState /\ [spent EXCEPT !.cursor = end] \in ClockState
  BY <1>4, <1>6 DEF ClockState
<1>8. Thre!PassPause(st, p, until) =
        IF st.due # 0 \/ p.until <= st.cursor \/ p.from >= until THEN st
        ELSE IF spent.due # 0 THEN spent
        ELSE IF p.until = Forever THEN [spent EXCEPT !.due = Forever]
        ELSE [spent EXCEPT !.cursor = end]
  BY <1>1, <1>3, <1>5 DEF Thre!PassPause
<1>9. QED
  BY <1>4, <1>7, <1>8

\* Active time does not grow over minutes that are not in A.
LEMMA SameCount ==
  ASSUME NEW A, NEW start \in Nat, NEW a \in Nat, NEW b \in Nat, a <= b,
         \A m \in Nat : a <= m /\ m < b => m \notin A
  PROVE  Upto(A, start, a) = Upto(A, start, b)
BY DEF Upto

\* Passing one more pause: the clock runs up to it and stops until its end.
LEMMA PassPauseCounts ==
  ASSUME NEW A, NEW start \in Nat, NEW budget \in Nat, NEW w \in PauseRow, NEW M, Fits(A, w, M), Forever \in Nat,
         NEW k \in 1..Len(M), NEW st \in ClockState, InWindow(A, start, budget, w, M, st, k - 1)
  PROVE  InWindow(A, start, budget, w, M, Thre!PassPause(st, M[k], w.until), k)
<1>1. PICK p, until, n : p = M[k] /\ until = w.until /\ n = Len(M)
  OBVIOUS
<1>2. p \in PauseRow /\ until \in Nat /\ n \in Nat /\ \A i \in 1..n : M[i] \in PauseRow
  <2>1. M \in Seq(PauseRow)
    BY DEF Fits
  <2>2. n \in Nat /\ \A i \in 1..n : M[i] \in PauseRow
    BY <1>1, <2>1
  <2>3. w.until \in Nat
    BY DEF PauseRow
  <2>4. QED
    BY <1>1, <2>2, <2>3
<1>3. p.from \in Nat /\ p.until \in Nat /\ st.cursor \in Nat /\ st.remaining \in Nat /\ w.from \in Nat /\ k \in 1..n
  BY <1>1, <1>2 DEF PauseRow, ClockState
<1>4. PICK next : next = Thre!PassPause(st, p, until)
  OBVIOUS
<1>5. CASE Answers(A, start, budget, st.due)
  <2>1. next = st
    BY <1>4, <1>5 DEF Thre!PassPause, Answers
  <2>2. QED
    BY <1>1, <1>4, <1>5, <2>1 DEF InWindow
<1>6. CASE ~Answers(A, start, budget, st.due)
  <2>1. /\ Owes(A, start, budget, st, st.cursor)
        /\ start <= st.cursor /\ w.from <= st.cursor /\ st.cursor <= until
        /\ \A m \in Nat : st.cursor <= m /\ m < until => \A i \in 1..(k - 1) : ~Covers(M[i], m)
    BY <1>1, <1>6 DEF InWindow
  <2>2. \A i \in 1..k : i \in 1..(k - 1) \/ i = k
    BY <1>3
  <2>3. st.due = 0 /\ st.remaining > 0
    BY <2>1 DEF Owes
  <2>4. CASE p.until <= st.cursor \/ p.from >= until
    <3>1. next = st
      BY <1>4, <2>4 DEF Thre!PassPause
    <3>2. \A m \in Nat : st.cursor <= m /\ m < until => ~Covers(p, m)
      <4>1. PICK a, b, c : a = p.from /\ b = p.until /\ c = st.cursor
        OBVIOUS
      <4>2. \A m \in Nat : Covers(p, m) => a <= m /\ m < b
        BY <4>1 DEF Covers
      <4>3. a \in Nat /\ b \in Nat /\ c \in Nat /\ until \in Nat /\ (b <= c \/ a >= until)
        BY <1>2, <1>3, <2>4, <4>1
      <4>4. \A m \in Nat : c <= m /\ m < until => ~(a <= m /\ m < b)
        BY <4>3
      <4>5. QED
        BY <4>1, <4>2, <4>4
    <3>3. \A m \in Nat : st.cursor <= m /\ m < until => \A i \in 1..k : ~Covers(M[i], m)
      BY <1>1, <2>1, <2>2, <3>2
    <3>4. QED
      BY <1>1, <1>4, <2>1, <3>1, <3>3 DEF InWindow
  <2>5. CASE ~(p.until <= st.cursor) /\ ~(p.from >= until)
    <3>1. PICK to : to = Thre!Later(st.cursor, Thre!Earlier(p.from, until))
      OBVIOUS
    <3>2. to \in Nat /\ st.cursor <= to /\ p.from <= to /\ to <= until /\ (st.cursor < to => to = p.from)
      <4>1. Thre!Earlier(p.from, until) = p.from /\ p.from < until
        BY <1>2, <1>3, <2>5 DEF Thre!Earlier
      <4>2. to = IF st.cursor < p.from THEN p.from ELSE st.cursor
        BY <3>1, <4>1 DEF Thre!Later
      <4>3. st.cursor <= until
        BY <2>1
      <4>4. CASE st.cursor < p.from
        BY <1>2, <1>3, <4>1, <4>2, <4>4
      <4>5. CASE ~(st.cursor < p.from)
        BY <1>2, <1>3, <4>2, <4>3, <4>5
      <4>6. QED
        BY <4>4, <4>5
    <3>3. PICK spent : spent = IF to > st.cursor THEN Thre!Spend(st, to) ELSE st
      OBVIOUS
    <3>4. PICK end : end = Thre!Later(to, Thre!Earlier(p.until, until))
      OBVIOUS
    <3>5. next = IF spent.due # 0 THEN spent
                 ELSE IF p.until = Forever THEN [spent EXCEPT !.due = Forever]
                 ELSE [spent EXCEPT !.cursor = end]
      BY <1>4, <2>3, <2>5, <3>1, <3>3, <3>4 DEF Thre!PassPause
    <3>6. spent \in ClockState
      BY <3>2, <3>3, SpendTyped
    <3>7. \/ Answers(A, start, budget, spent.due)
          \/ Owes(A, start, budget, spent, to) /\ spent.cursor = to
      <4>1. CASE to > st.cursor
        <5>1. ASSUME NEW m \in Nat, st.cursor <= m, m < to
              PROVE  m \in A
          <6>1. w.from <= m /\ m < until /\ m < p.from
            BY <1>2, <1>3, <2>1, <3>2, <4>1, <5>1
          <6>2. ASSUME NEW i \in 1..n PROVE ~Covers(M[i], m)
            <7>1. CASE i < k
              BY <1>3, <2>1, <5>1, <6>1, <7>1
            <7>2. CASE i = k
              BY <1>1, <1>3, <6>1, <7>2 DEF Covers
            <7>3. CASE i > k
              <8>1. p.from <= M[i].from /\ M[i].from \in Nat
                BY <1>1, <1>2, <1>3, <7>3 DEF Fits, PauseRow
              <8>2. QED
                BY <1>3, <6>1, <8>1 DEF Covers
            <7>4. QED
              BY <1>3, <7>1, <7>2, <7>3
          <6>3. QED
            BY <1>1, <6>1, <6>2 DEF Fits
        <5>2. \/ Answers(A, start, budget, Thre!Spend(st, to).due)
              \/ Owes(A, start, budget, Thre!Spend(st, to), to) /\ Thre!Spend(st, to).cursor = to
          <6>1. \A m \in Nat : st.cursor <= m /\ m < to => m \in A
            BY <5>1
          <6>2. to \in Nat /\ st.cursor <= to /\ start <= st.cursor /\ Owes(A, start, budget, st, st.cursor)
            BY <2>1, <3>2
          <6>3. QED
            BY <6>1, <6>2, SpendCounts
        <5>3. QED
          BY <3>3, <4>1, <5>2
      <4>2. CASE ~(to > st.cursor)
        <5>1. to = st.cursor
          BY <1>3, <3>2, <4>2
        <5>2. QED
          BY <2>1, <3>3, <4>2, <5>1
      <4>3. QED
        BY <4>1, <4>2
    <3>8. CASE spent.due # 0
      <4>1. next = spent /\ Answers(A, start, budget, next.due)
        BY <3>5, <3>7, <3>8 DEF Owes
      <4>2. QED
        BY <1>1, <1>4, <4>1 DEF InWindow
    <3>9. CASE spent.due = 0
      <4>1. Owes(A, start, budget, spent, to) /\ spent.cursor = to
        BY <3>7, <3>9 DEF Answers
      <4>2. spent.remaining \in Nat /\ spent.remaining > 0 /\ Cardinality(Upto(A, start, to)) + spent.remaining = budget
        BY <3>6, <4>1 DEF Owes, ClockState
      <4>3. CASE p.until = Forever
        <5>1. next.due = Forever
          BY <3>5, <3>6, <3>9, <4>3 DEF ClockState
        <5>2. Forever # 0
          BY <1>3, <2>5, <4>3
        <5>3. ASSUME NEW t \in Nat
              PROVE  Cardinality(Upto(A, start, t)) < budget
          <6>1. \A m \in Nat : to <= m => m \notin A
            <7>1. SUFFICES ASSUME NEW m \in Nat, to <= m, m \in A PROVE FALSE
              OBVIOUS
            <7>2. m < Forever /\ ~Covers(p, m)
              BY <1>1, <1>3, <7>1 DEF Fits
            <7>3. QED
              BY <1>3, <3>2, <4>3, <7>1, <7>2 DEF Covers
          <6>2. CASE t <= to
            <7>1. /\ Cardinality(Upto(A, start, t)) \in Nat /\ Cardinality(Upto(A, start, to)) \in Nat
                  /\ Cardinality(Upto(A, start, t)) <= Cardinality(Upto(A, start, to))
              BY <3>2, <6>2, UptoGrows
            <7>2. QED
              BY <4>2, <7>1
          <6>3. CASE ~(t <= to)
            <7>1. Upto(A, start, to) = Upto(A, start, t)
              BY <3>2, <6>1, <6>3, SameCount
            <7>2. Cardinality(Upto(A, start, to)) \in Nat
              BY <3>2, UptoGrows
            <7>3. QED
              BY <4>2, <7>1, <7>2
          <6>4. QED
            BY <6>2, <6>3
        <5>4. QED
          BY <1>1, <1>4, <5>1, <5>2, <5>3 DEF InWindow, Answers
      <4>4. CASE p.until # Forever
        <5>1. next.due = 0 /\ next.cursor = end /\ next.remaining = spent.remaining
          BY <3>5, <3>6, <3>9, <4>4 DEF ClockState
        <5>2. end \in Nat /\ to <= end /\ end <= until /\ (to < end => end <= p.until) /\ (end < until => p.until <= end)
          <6>1. PICK e : e = Thre!Earlier(p.until, until)
            OBVIOUS
          <6>2. e \in Nat /\ e <= until /\ e <= p.until /\ (e = until \/ e = p.until)
            BY <1>2, <1>3, <6>1 DEF Thre!Earlier
          <6>3. end = IF to < e THEN e ELSE to
            BY <3>4, <6>1 DEF Thre!Later
          <6>4. to \in Nat /\ to <= until
            BY <3>2
          <6>5. CASE to < e
            BY <1>2, <1>3, <6>2, <6>3, <6>4, <6>5
          <6>6. CASE ~(to < e)
            BY <1>2, <1>3, <6>2, <6>3, <6>4, <6>6
          <6>7. QED
            BY <6>5, <6>6
        <5>3. \A m \in Nat : to <= m /\ m < end => m \notin A
          <6>1. SUFFICES ASSUME NEW m \in Nat, to <= m, m < end, m \in A PROVE FALSE
            OBVIOUS
          <6>2. p.from <= m /\ m < p.until
            BY <1>3, <3>2, <5>2, <6>1
          <6>3. ~Covers(p, m)
            BY <1>1, <1>3, <6>1 DEF Fits
          <6>4. QED
            BY <6>2, <6>3 DEF Covers
        <5>4. Upto(A, start, to) = Upto(A, start, end)
          BY <3>2, <5>2, <5>3, SameCount
        <5>5. Owes(A, start, budget, next, next.cursor)
          BY <4>2, <5>1, <5>4 DEF Owes
        <5>6. \A m \in Nat : end <= m /\ m < until => \A i \in 1..k : ~Covers(M[i], m)
          <6>1. SUFFICES ASSUME NEW m \in Nat, end <= m, m < until, NEW i \in 1..k PROVE ~Covers(M[i], m)
            OBVIOUS
          <6>2. st.cursor <= m /\ p.until <= m
            <7>1. end \in Nat /\ end < until
              BY <1>2, <5>2, <6>1
            <7>2. p.until <= end /\ st.cursor <= end
              BY <1>3, <3>2, <5>2, <7>1
            <7>3. QED
              BY <1>3, <6>1, <7>1, <7>2
          <6>3. CASE i \in 1..(k - 1)
            BY <2>1, <6>1, <6>2, <6>3
          <6>4. CASE i = k
            BY <1>1, <1>3, <6>2, <6>4 DEF Covers
          <6>5. QED
            BY <2>2, <6>3, <6>4
        <5>7. start <= end /\ w.from <= end
          BY <1>3, <2>1, <3>2, <5>2
        <5>8. QED
          BY <1>1, <1>4, <5>1, <5>2, <5>5, <5>6, <5>7 DEF InWindow
      <4>5. QED
        BY <4>3, <4>4
    <3>10. QED
      BY <3>8, <3>9
  <2>6. QED
    BY <2>4, <2>5
<1>7. QED
  BY <1>5, <1>6

\* The states of the loop over the pauses in a window.
TurnsOf(pass, st, w, start, M) ==
  /\ pass \in [0..Len(M) -> ClockState]
  /\ pass[0] = [st EXCEPT !.cursor = Thre!Later(w.from, start)]
  /\ \A k \in 1..Len(M) : pass[k] = Thre!PassPause(pass[k - 1], M[k], w.until)
  /\ Thre!PassWindow(st, w, start, M) =
       IF st.due # 0 \/ w.until <= start THEN st
       ELSE IF pass[Len(M)].due = 0 /\ pass[Len(M)].cursor < w.until
            THEN Thre!Spend(pass[Len(M)], w.until) ELSE pass[Len(M)]

\* The loop over the pauses in a window has them.
LEMMA WindowByTurns ==
  ASSUME NEW st \in ClockState, NEW w \in PauseRow, NEW start \in Nat, NEW M \in Seq(PauseRow), Forever \in Nat
  PROVE  \E pass : TurnsOf(pass, st, w, start, M)
<1> DEFINE IsPass(f, m) ==
             f = [k \in 0..m |-> IF k = 0 THEN [st EXCEPT !.cursor = Thre!Later(w.from, start)]
                                 ELSE Thre!PassPause(f[k - 1], M[k], w.until)]
           pass == CHOOSE f : IsPass(f, Len(M))
<1>1. PICK N, turn : /\ N = Len(M)
                     /\ turn = [x \in (1..N) \X ClockState |-> Thre!PassPause(x[2], M[x[1]], w.until)]
  OBVIOUS
<1>2. N \in Nat /\ \A k \in 1..N : M[k] \in PauseRow
  BY <1>1
<1>3. PICK base : base = [st EXCEPT !.cursor = Thre!Later(w.from, start)]
  OBVIOUS
<1>4. base \in ClockState
  BY <1>3 DEF ClockState, PauseRow, Thre!Later
<1>5. w.until \in Nat
  BY DEF PauseRow
<1>6. ASSUME NEW k \in 1..N, NEW s \in ClockState
      PROVE  turn[<<k, s>>] = Thre!PassPause(s, M[k], w.until) /\ turn[<<k, s>>] \in ClockState
  <2>1. turn[<<k, s>>] = Thre!PassPause(s, M[k], w.until)
    BY <1>1
  <2>2. QED
    BY <1>2, <1>5, <1>6, <2>1, PassPauseTyped
<1>7. PICK f \in [0..N -> ClockState] : f[0] = base /\ \A k \in 1..N : f[k] = turn[<<k, f[k - 1]>>]
  <2>1. turn \in [(1..N) \X ClockState -> ClockState]
    BY <1>1, <1>6
  <2>2. \E f : TakesTurns(f, N, ClockState, base, turn)
    BY <1>2, <1>4, <2>1, Turns
  <2>3. QED
    BY <2>2 DEF TakesTurns
<1>8. \A k \in 1..N : f[k] = Thre!PassPause(f[k - 1], M[k], w.until)
  <2>1. SUFFICES ASSUME NEW k \in 1..N PROVE f[k] = Thre!PassPause(f[k - 1], M[k], w.until)
    OBVIOUS
  <2>2. f[k - 1] \in ClockState
    BY <1>2, <1>7
  <2>3. QED
    BY <1>6, <1>7, <2>2
<1>9. IsPass(f, N)
  <2>1. \A k \in 0..N : f[k] = IF k = 0 THEN base ELSE Thre!PassPause(f[k - 1], M[k], w.until)
    BY <1>2, <1>7, <1>8
  <2>2. QED
    BY <1>3, <1>7, <2>1
<1>10. IsPass(pass, N)
  <2> HIDE DEF IsPass
  <2>1. QED
    BY <1>1, <1>9
<1>11. pass = f
  <2> HIDE DEF pass
  <2> DEFINE T == {k \in Nat : k <= N => pass[k] = f[k]}
  <2>1. 0 \in T
    BY <1>2, <1>9, <1>10
  <2>2. ASSUME NEW k \in Nat, k \in T PROVE k + 1 \in T
    <3>1. SUFFICES ASSUME k + 1 <= N PROVE pass[k + 1] = f[k + 1]
      OBVIOUS
    <3>2. PICK j : j = k + 1
      OBVIOUS
    <3>3. j \in 0..N /\ j # 0 /\ j - 1 = k /\ pass[k] = f[k]
      BY <1>2, <2>2, <3>1, <3>2
    <3>4. \A g : IsPass(g, N) => g[j] = Thre!PassPause(g[j - 1], M[j], w.until)
      BY <3>3
    <3> HIDE DEF IsPass
    <3>5. pass[j] = Thre!PassPause(pass[j - 1], M[j], w.until) /\ f[j] = Thre!PassPause(f[j - 1], M[j], w.until)
      BY <1>9, <1>10, <3>4
    <3>6. QED
      BY <3>2, <3>3, <3>5
  <2>3. Nat \subseteq T
    BY <2>1, <2>2, AllNumbers
  <2>4. \A k \in 0..N : pass[k] = f[k]
    BY <1>2, <2>3
  <2>5. QED
    BY <1>9, <1>10, <2>4
<1>12. Thre!PassWindow(st, w, start, M) =
         IF st.due # 0 \/ w.until <= start THEN st
         ELSE IF pass[N].due = 0 /\ pass[N].cursor < w.until THEN Thre!Spend(pass[N], w.until) ELSE pass[N]
  BY <1>1 DEF Thre!PassWindow
<1> HIDE DEF pass, IsPass
<1>13. QED
  BY <1>1, <1>3, <1>7, <1>8, <1>11, <1>12 DEF TurnsOf

\* A turn for a window keeps the state.
LEMMA PassWindowTyped ==
  ASSUME NEW st \in ClockState, NEW w \in PauseRow, NEW start \in Nat, NEW M \in Seq(PauseRow), Forever \in Nat
  PROVE  Thre!PassWindow(st, w, start, M) \in ClockState
<1>1. PICK pass : TurnsOf(pass, st, w, start, M)
  BY WindowByTurns
<1>2. PICK after : after = pass[Len(M)]
  OBVIOUS
<1>3. after \in ClockState /\ w.until \in Nat
  BY <1>1, <1>2 DEF PauseRow, TurnsOf
<1>4. after.cursor < w.until => Thre!Spend(after, w.until) \in ClockState
  <2>1. after.cursor \in Nat
    BY <1>3 DEF ClockState
  <2>2. QED
    BY <1>3, <2>1, SpendTyped
<1>5. QED
  BY <1>1, <1>2, <1>3, <1>4 DEF TurnsOf

\* A turn for a window: what is owed at the end of the last window becomes an answer,
\* or what is owed at the end of this one.
LEMMA PassWindowCounts ==
  ASSUME NEW A, NEW start \in Nat, NEW budget \in Nat, NEW w \in PauseRow, NEW M, Fits(A, w, M), Forever \in Nat,
         w.from < w.until, NEW u \in Nat, u <= w.from, \A m \in Nat : u <= m /\ m < w.from => m \notin A,
         NEW st \in ClockState, Answers(A, start, budget, st.due) \/ Owes(A, start, budget, st, Thre!Later(start, u))
  PROVE  \/ Answers(A, start, budget, Thre!PassWindow(st, w, start, M).due)
         \/ Owes(A, start, budget, Thre!PassWindow(st, w, start, M), Thre!Later(start, w.until))
<1>1. M \in Seq(PauseRow) /\ w.from \in Nat /\ w.until \in Nat
  BY DEF Fits, PauseRow
<1>2. PICK N : N = Len(M) /\ N \in Nat
  BY <1>1
<1>3. PICK pass : /\ pass \in [0..N -> ClockState]
                  /\ pass[0] = [st EXCEPT !.cursor = Thre!Later(w.from, start)]
                  /\ \A k \in 1..N : pass[k] = Thre!PassPause(pass[k - 1], M[k], w.until)
                  /\ Thre!PassWindow(st, w, start, M) =
                        IF st.due # 0 \/ w.until <= start THEN st
                        ELSE IF pass[N].due = 0 /\ pass[N].cursor < w.until
                             THEN Thre!Spend(pass[N], w.until) ELSE pass[N]
  <2>1. PICK pass : TurnsOf(pass, st, w, start, M)
    BY <1>1, WindowByTurns
  <2>2. QED
    BY <1>2, <2>1 DEF TurnsOf
<1>4. PICK next : next = Thre!PassWindow(st, w, start, M)
  OBVIOUS
<1>5. CASE st.due # 0
  BY <1>3, <1>4, <1>5 DEF Owes
<1>6. CASE st.due = 0 /\ w.until <= start
  <2>1. Thre!Later(start, u) = start /\ Thre!Later(start, w.until) = start
    BY <1>1, <1>6 DEF Thre!Later
  <2>2. QED
    BY <1>3, <1>6, <2>1
<1>7. CASE st.due = 0 /\ ~(w.until <= start)
  <2>1. PICK t, c : t = Thre!Later(start, u) /\ c = Thre!Later(w.from, start)
    OBVIOUS
  <2>2. /\ t \in Nat /\ c \in Nat /\ start <= c /\ w.from <= c /\ c <= w.until /\ start <= t /\ u <= t /\ t <= c
        /\ (t < c => c = w.from)
    BY <1>1, <1>7, <2>1 DEF Thre!Later
  <2>3. Owes(A, start, budget, st, t)
    BY <1>7, <2>1 DEF Answers
  <2>4. Upto(A, start, t) = Upto(A, start, c)
    <3>1. \A m \in Nat : t <= m /\ m < c => m \notin A
      BY <2>2
    <3>2. QED
      BY <2>2, <3>1, SameCount
  <2>5. pass[0].cursor = c /\ pass[0].due = st.due /\ pass[0].remaining = st.remaining
    BY <1>3, <2>1 DEF ClockState
  <2> DEFINE Good(k) == InWindow(A, start, budget, w, M, pass[k], k)
             T == {k \in Nat : k <= N => Good(k)}
  <2>6. 0 \in T
    <3>1. Owes(A, start, budget, pass[0], c)
      BY <2>3, <2>4, <2>5 DEF Owes
    <3>2. \A i \in 1..0 : FALSE
      OBVIOUS
    <3>3. Good(0)
      BY <2>2, <2>5, <3>1, <3>2 DEF InWindow
    <3>4. QED
      BY <3>3
  <2>7. ASSUME NEW k \in Nat, k \in T
        PROVE  k + 1 \in T
    <3>1. SUFFICES ASSUME k + 1 <= N PROVE Good(k + 1)
      OBVIOUS
    <3>2. PICK j, s : j = k + 1 /\ s = pass[k]
      OBVIOUS
    <3>3. j \in 1..N /\ k \in 0..N /\ k <= N /\ j - 1 = k
      BY <1>2, <3>1, <3>2
    <3>4. s \in ClockState /\ InWindow(A, start, budget, w, M, s, j - 1)
      BY <1>3, <2>7, <3>2, <3>3
    <3>5. j \in 1..Len(M)
      BY <1>2, <3>3
    <3>6. InWindow(A, start, budget, w, M, Thre!PassPause(s, M[j], w.until), j)
      BY <3>4, <3>5, PassPauseCounts
    <3>7. pass[j] = Thre!PassPause(s, M[j], w.until)
      BY <1>3, <3>2, <3>3
    <3>8. QED
      BY <3>2, <3>6, <3>7
  <2>8. Good(N)
    <3> HIDE DEF Good
    <3>1. Nat \subseteq T
      BY <2>6, <2>7, AllNumbers
    <3>2. QED
      BY <1>2, <3>1
  <2>9. PICK after : after = pass[N]
    OBVIOUS
  <2>10. after \in ClockState /\ InWindow(A, start, budget, w, M, after, N)
    BY <1>2, <1>3, <2>8, <2>9
  <2>11. next = IF after.due = 0 /\ after.cursor < w.until THEN Thre!Spend(after, w.until) ELSE after
    BY <1>3, <1>4, <1>7, <2>9
  <2>12. Thre!Later(start, w.until) = w.until
    BY <1>1, <1>7 DEF Thre!Later
  <2>13. CASE after.due # 0
    BY <1>4, <2>10, <2>11, <2>13 DEF InWindow, Owes
  <2>14. CASE after.due = 0
    <3>1. /\ Owes(A, start, budget, after, after.cursor)
          /\ start <= after.cursor /\ w.from <= after.cursor /\ after.cursor <= w.until
          /\ \A m \in Nat : after.cursor <= m /\ m < w.until => \A i \in 1..N : ~Covers(M[i], m)
      BY <2>10, <2>14 DEF InWindow, Answers
    <3>2. after.cursor \in Nat
      BY <2>10 DEF ClockState
    <3>3. CASE after.cursor < w.until
      <4>1. \A m \in Nat : after.cursor <= m /\ m < w.until => m \in A
        BY <1>1, <1>2, <3>1, <3>2 DEF Fits
      <4>2. \/ Answers(A, start, budget, Thre!Spend(after, w.until).due)
            \/ Owes(A, start, budget, Thre!Spend(after, w.until), w.until)
        BY <1>1, <2>10, <3>1, <4>1, SpendCounts
      <4>3. QED
        BY <1>4, <2>11, <2>12, <2>14, <3>3, <4>2
    <3>4. CASE ~(after.cursor < w.until)
      <4>1. after.cursor = w.until
        BY <1>1, <3>1, <3>2, <3>4
      <4>2. QED
        BY <1>4, <2>11, <2>12, <3>1, <3>4, <4>1
    <3>5. QED
      BY <3>3, <3>4
  <2>15. QED
    BY <2>13, <2>14
<1>8. QED
  BY <1>5, <1>6, <1>7

-----------------------------------------------------------------------------
(* The calendar, and the due instant. *)

\* What is assumed of the calendar: each window is a span before Forever, and they
\* follow each other.
LEMMA CalendarFacts ==
  /\ Forever \in Nat /\ Len(Windows) \in Nat
  /\ \A i \in 1..Len(Windows) : /\ Windows[i] \in PauseRow
                                /\ Windows[i].from < Windows[i].until /\ Windows[i].until <= Forever - 1
  /\ \A i, j \in 1..Len(Windows) : i < j => Windows[i].until <= Windows[j].from
<1>1. Thre!ClockAssumption
  BY ServicesAssumption DEF ServicesAssumption
<1>2. PICK S : S = [from: 1..(Forever - 1), until: 1..(Forever - 1)]
  OBVIOUS
<1>3. Forever \in Nat /\ Windows \in Seq(S)
  BY <1>1, <1>2 DEF Thre!ClockAssumption
<1>4. Len(Windows) \in Nat /\ DOMAIN Windows = 1..Len(Windows)
  BY <1>3
<1>5. ASSUME NEW i \in 1..Len(Windows)
      PROVE  Windows[i] \in PauseRow /\ Windows[i].from < Windows[i].until /\ Windows[i].until <= Forever - 1
  <2>1. Windows[i] \in S
    BY <1>3, <1>5
  <2>2. Windows[i] \in PauseRow /\ Windows[i].until <= Forever - 1
    BY <1>2, <1>3, <2>1 DEF PauseRow
  <2>3. QED
    BY <1>1, <1>4, <2>2 DEF Thre!ClockAssumption
<1>6. QED
  BY <1>1, <1>3, <1>4, <1>5 DEF Thre!ClockAssumption

\* Active minutes are eligible and in no pause.
Active(pauses) ==
  {m \in Nat : (\E i \in 1..Len(Windows) : Covers(Windows[i], m)) /\ (\A q \in pauses : ~Covers(q, m))}

\* The states of the loop over the windows.
Through(through, start, budget, M, due) ==
  /\ through \in [0..Len(Windows) -> ClockState]
  /\ through[0] = [cursor |-> start, remaining |-> budget, due |-> 0]
  /\ \A n \in 1..Len(Windows) : through[n] = Thre!PassWindow(through[n - 1], Windows[n], start, M)
  /\ due = IF through[Len(Windows)].due = 0 THEN Forever ELSE through[Len(Windows)].due

\* due_instant is what they come to.
LEMMA DueByTurns ==
  ASSUME NEW start \in Nat, NEW budget \in Nat, NEW pauses, Thre!MergePauses(pauses) \in Seq(PauseRow)
  PROVE  \E through : Through(through, start, budget, Thre!MergePauses(pauses), Thre!DueInstant(start, budget, pauses))
<1> DEFINE IsRun(f, m, M) ==
             f = [n \in 0..m |-> IF n = 0 THEN [cursor |-> start, remaining |-> budget, due |-> 0]
                                 ELSE Thre!PassWindow(f[n - 1], Windows[n], start, M)]
           run == CHOOSE f : IsRun(f, Len(Windows), Thre!MergePauses(pauses))
<1>1. PICK M \in Seq(PauseRow) : M = Thre!MergePauses(pauses)
  OBVIOUS
<1>2. PICK N \in Nat : N = Len(Windows) /\ \A n \in 1..N : Windows[n] \in PauseRow
  BY CalendarFacts
<1>3. PICK turn : turn = [x \in (1..N) \X ClockState |-> Thre!PassWindow(x[2], Windows[x[1]], start, M)]
  OBVIOUS
<1>4. PICK base : base = [cursor |-> start, remaining |-> budget, due |-> 0]
  OBVIOUS
<1>5. base \in ClockState
  BY <1>4 DEF ClockState
<1>6. ASSUME NEW n \in 1..N, NEW s \in ClockState
      PROVE  turn[<<n, s>>] = Thre!PassWindow(s, Windows[n], start, M) /\ turn[<<n, s>>] \in ClockState
  <2>1. turn[<<n, s>>] = Thre!PassWindow(s, Windows[n], start, M)
    BY <1>3
  <2>2. PICK w \in PauseRow : w = Windows[n]
    BY <1>2
  <2>3. Thre!PassWindow(s, w, start, M) \in ClockState
    BY CalendarFacts, PassWindowTyped
  <2>4. QED
    BY <2>1, <2>2, <2>3
<1>7. PICK f \in [0..N -> ClockState] : f[0] = base /\ \A n \in 1..N : f[n] = turn[<<n, f[n - 1]>>]
  <2>1. turn \in [(1..N) \X ClockState -> ClockState]
    BY <1>3, <1>6
  <2>2. \E f : TakesTurns(f, N, ClockState, base, turn)
    BY <1>5, <2>1, Turns
  <2>3. QED
    BY <2>2 DEF TakesTurns
<1>8. \A n \in 1..N : f[n] = Thre!PassWindow(f[n - 1], Windows[n], start, M)
  <2>1. SUFFICES ASSUME NEW n \in 1..N PROVE f[n] = Thre!PassWindow(f[n - 1], Windows[n], start, M)
    OBVIOUS
  <2>2. f[n - 1] \in ClockState
    BY <1>7
  <2>3. QED
    BY <1>6, <1>7, <2>2
<1>9. IsRun(f, N, M)
  <2>1. \A n \in 0..N : f[n] = IF n = 0 THEN base ELSE Thre!PassWindow(f[n - 1], Windows[n], start, M)
    BY <1>7, <1>8
  <2>2. QED
    BY <1>4, <1>7, <2>1
<1>10. IsRun(run, N, M)
  <2> HIDE DEF IsRun
  <2>1. QED
    BY <1>1, <1>2, <1>9
<1>11. run = f
  <2> HIDE DEF run
  <2> DEFINE T == {n \in Nat : n <= N => run[n] = f[n]}
  <2>1. 0 \in T
    BY <1>9, <1>10
  <2>2. ASSUME NEW n \in Nat, n \in T PROVE n + 1 \in T
    <3>1. SUFFICES ASSUME n + 1 <= N PROVE run[n + 1] = f[n + 1]
      OBVIOUS
    <3>2. PICK j : j = n + 1
      OBVIOUS
    <3>3. j \in 0..N /\ j # 0 /\ j - 1 = n /\ run[n] = f[n]
      BY <2>2, <3>1, <3>2
    <3>4. \A g : IsRun(g, N, M) => g[j] = Thre!PassWindow(g[j - 1], Windows[j], start, M)
      BY <3>3
    <3> HIDE DEF IsRun
    <3>5. run[j] = Thre!PassWindow(run[j - 1], Windows[j], start, M) /\ f[j] = Thre!PassWindow(f[j - 1], Windows[j], start, M)
      BY <1>9, <1>10, <3>4
    <3>6. QED
      BY <3>2, <3>3, <3>5
  <2>3. Nat \subseteq T
    BY <2>1, <2>2, AllNumbers
  <2>4. \A n \in 0..N : run[n] = f[n]
    BY <2>3
  <2>5. QED
    BY <1>9, <1>10, <2>4
<1>12. Thre!DueInstant(start, budget, pauses) = IF run[N].due = 0 THEN Forever ELSE run[N].due
  BY <1>2 DEF Thre!DueInstant
<1> HIDE DEF run, IsRun
<1>13. QED
  BY <1>1, <1>2, <1>4, <1>7, <1>8, <1>11, <1>12 DEF Through

\* The due instant answers, or is Forever when the budget is never reached.
LEMMA DueAnswers ==
  ASSUME NEW start \in Nat, NEW budget \in Nat, budget > 0, NEW pauses, IsFiniteSet(pauses), pauses \subseteq PauseRow
  PROVE  LET due == Thre!DueInstant(start, budget, pauses) IN
         \/ Answers(Active(pauses), start, budget, due)
         \/ due = Forever /\ \A t \in Nat : Cardinality(Upto(Active(pauses), start, t)) < budget
<1>1. PICK A, due : A = Active(pauses) /\ due = Thre!DueInstant(start, budget, pauses)
  OBVIOUS
<1>2. PICK M : M = Thre!MergePauses(pauses) /\ Lists(M, pauses)
  BY MergedCovers
<1>3. M \in Seq(PauseRow)
  BY <1>2 DEF Lists
<1>4. PICK through : Through(through, start, budget, M, due)
  BY <1>1, <1>2, <1>3, DueByTurns
<1>5. PICK N \in Nat : N = Len(Windows)
  BY CalendarFacts
<1>6. /\ through \in [0..N -> ClockState]
      /\ through[0] = [cursor |-> start, remaining |-> budget, due |-> 0]
      /\ \A n \in 1..N : through[n] = Thre!PassWindow(through[n - 1], Windows[n], start, M)
      /\ due = IF through[N].due = 0 THEN Forever ELSE through[N].due
  BY <1>4, <1>5 DEF Through
<1>7. /\ Forever \in Nat
      /\ \A i \in 1..N : /\ Windows[i] \in PauseRow /\ Windows[i].from \in Nat /\ Windows[i].until \in Nat
                         /\ Windows[i].from < Windows[i].until /\ Windows[i].until <= Forever - 1
      /\ \A i, j \in 1..N : i < j => Windows[i].until <= Windows[j].from
  BY <1>5, CalendarFacts DEF PauseRow
<1>8. PICK u : u = [n \in 0..N |-> IF n = 0 THEN 0 ELSE Windows[n].until]
  OBVIOUS
<1>9. u[0] = 0 /\ (\A n \in 0..N : u[n] \in Nat) /\ (\A n \in 1..N : u[n] = Windows[n].until)
  BY <1>7, <1>8
<1>10. \A m \in A : m \in Nat /\ m < Forever /\ (\E i \in 1..N : Covers(Windows[i], m)) /\ \A i \in 1..Len(M) : ~Covers(M[i], m)
  <2>1. SUFFICES ASSUME NEW m \in A
                 PROVE  /\ m \in Nat /\ m < Forever
                        /\ \E i \in 1..N : Covers(Windows[i], m)
                        /\ \A i \in 1..Len(M) : ~Covers(M[i], m)
    OBVIOUS
  <2>2. m \in Nat /\ (\E i \in 1..N : Covers(Windows[i], m)) /\ \A q \in pauses : ~Covers(q, m)
    BY <1>1, <1>5, <2>1 DEF Active
  <2>3. \A i \in 1..Len(M) : ~Covers(M[i], m)
    BY <1>2, <2>2 DEF Lists
  <2>4. PICK i \in 1..N : Covers(Windows[i], m)
    BY <2>2
  <2>5. m < Forever
    BY <1>7, <2>2, <2>4 DEF Covers
  <2>6. QED
    BY <2>2, <2>3, <2>5
<1>11. ASSUME NEW n \in 1..N
       PROVE  Fits(A, Windows[n], M)
  <2>1. ASSUME NEW m \in Nat, Windows[n].from <= m, m < Windows[n].until, \A i \in 1..Len(M) : ~Covers(M[i], m)
        PROVE  m \in A
    <3>1. \A q \in pauses : ~Covers(q, m)
      BY <1>2, <2>1 DEF Lists
    <3>2. Covers(Windows[n], m)
      BY <2>1 DEF Covers
    <3>3. QED
      BY <1>1, <1>5, <3>1, <3>2 DEF Active
  <2>2. \A i, j \in 1..Len(M) : i < j => M[i].from <= M[j].from
    BY <1>2 DEF Lists
  <2>3. QED
    BY <1>3, <1>10, <2>1, <2>2 DEF Fits
<1>12. ASSUME NEW n \in 0..N, n + 1 <= N
       PROVE  u[n] <= Windows[n + 1].from /\ \A m \in Nat : u[n] <= m /\ m < Windows[n + 1].from => m \notin A
  <2>1. PICK k : k = n + 1
    OBVIOUS
  <2>2. k \in 1..N /\ (n = 0 \/ n \in 1..N) /\ n < k
    BY <1>12, <2>1
  <2>3. u[n] <= Windows[k].from
    BY <1>7, <1>9, <2>2
  <2>4. ASSUME NEW m \in Nat, u[n] <= m, m < Windows[k].from, m \in A
        PROVE  FALSE
    <3>1. PICK i \in 1..N : Covers(Windows[i], m)
      BY <1>10, <2>4
    <3>2. Windows[i].from <= m /\ m < Windows[i].until
      BY <3>1 DEF Covers
    <3>3. CASE i >= k
      <4>1. i = k \/ k < i
        BY <2>2, <3>3
      <4>2. Windows[k].from <= Windows[i].from
        BY <1>7, <2>2, <4>1
      <4>3. QED
        BY <1>7, <2>2, <2>4, <3>2, <4>2
    <3>4. CASE i < k
      <4>1. n \in 1..N /\ (i = n \/ i < n)
        BY <2>1, <2>2, <3>4
      <4>2. Windows[i].until <= u[n]
        BY <1>7, <1>9, <4>1
      <4>3. QED
        BY <1>7, <1>9, <2>4, <3>2, <4>2
    <3>5. QED
      BY <2>2, <3>3, <3>4
  <2>5. QED
    BY <2>1, <2>3, <2>4
<1> DEFINE Good(n) == \/ Answers(A, start, budget, through[n].due)
                      \/ Owes(A, start, budget, through[n], Thre!Later(start, u[n]))
           T == {n \in Nat : n <= N => Good(n)}
<1>13. 0 \in T
  <2>1. Thre!Later(start, u[0]) = start
    BY <1>9 DEF Thre!Later
  <2>2. Upto(A, start, start) = {}
    BY DEF Upto
  <2>3. Cardinality(Upto(A, start, start)) = 0
    BY <2>2, FS_EmptySet
  <2>4. through[0].due = 0 /\ through[0].remaining = budget
    BY <1>6
  <2>5. Owes(A, start, budget, through[0], start)
    BY <2>3, <2>4 DEF Owes
  <2>6. QED
    BY <2>1, <2>5
<1>14. ASSUME NEW n \in Nat, n \in T
       PROVE  n + 1 \in T
  <2>1. SUFFICES ASSUME n + 1 <= N PROVE Good(n + 1)
    OBVIOUS
  <2>2. PICK k, w, st, v : k = n + 1 /\ w = Windows[k] /\ st = through[n] /\ v = u[n]
    OBVIOUS
  <2>3. k \in 1..N /\ n \in 0..N /\ n <= N /\ k - 1 = n
    BY <2>1, <2>2
  <2>4. w \in PauseRow /\ w.from < w.until /\ Fits(A, w, M)
    BY <1>7, <1>11, <2>2, <2>3
  <2>5. v \in Nat /\ v <= w.from /\ \A m \in Nat : v <= m /\ m < w.from => m \notin A
    BY <1>9, <1>12, <2>1, <2>2, <2>3
  <2>6. st \in ClockState /\ (Answers(A, start, budget, st.due) \/ Owes(A, start, budget, st, Thre!Later(start, v)))
    BY <1>6, <1>14, <2>2, <2>3
  <2>7. \/ Answers(A, start, budget, Thre!PassWindow(st, w, start, M).due)
        \/ Owes(A, start, budget, Thre!PassWindow(st, w, start, M), Thre!Later(start, w.until))
    BY <1>7, <2>4, <2>5, <2>6, PassWindowCounts
  <2>8. through[k] = Thre!PassWindow(st, w, start, M) /\ u[k] = w.until
    BY <1>6, <1>9, <2>2, <2>3
  <2>9. QED
    BY <2>2, <2>7, <2>8
<1>15. Good(N)
  <2> HIDE DEF Good
  <2>1. Nat \subseteq T
    BY <1>13, <1>14, AllNumbers
  <2>2. QED
    BY <2>1
<1>16. PICK last, end : last = through[N] /\ end = Thre!Later(start, u[N])
  OBVIOUS
<1>17. last \in ClockState /\ (Answers(A, start, budget, last.due) \/ Owes(A, start, budget, last, end))
  BY <1>6, <1>15, <1>16
<1>18. CASE last.due # 0
  BY <1>1, <1>6, <1>16, <1>17, <1>18 DEF Owes
<1>19. CASE last.due = 0
  <2>1. due = Forever
    BY <1>6, <1>16, <1>19
  <2>2. Owes(A, start, budget, last, end)
    BY <1>17, <1>19 DEF Answers
  <2>3. last.remaining \in Nat /\ last.remaining > 0 /\ Cardinality(Upto(A, start, end)) + last.remaining = budget
    BY <1>17, <2>2 DEF Owes, ClockState
  <2>4. end \in Nat /\ u[N] <= end
    BY <1>9, <1>16 DEF Thre!Later
  <2>5. \A m \in Nat : end <= m => m \notin A
    <3>1. SUFFICES ASSUME NEW m \in Nat, end <= m, m \in A PROVE FALSE
      OBVIOUS
    <3>2. PICK i \in 1..N : Covers(Windows[i], m)
      BY <1>10, <3>1
    <3>3. Windows[i].until <= Windows[N].until /\ N \in 1..N
      <4>1. i = N \/ i < N
        OBVIOUS
      <4>2. QED
        BY <1>7, <4>1
    <3>4. QED
      BY <1>7, <1>9, <2>4, <3>1, <3>2, <3>3 DEF Covers
  <2>6. ASSUME NEW t \in Nat
        PROVE  Cardinality(Upto(A, start, t)) < budget
    <3>1. CASE t <= end
      <4>1. /\ Cardinality(Upto(A, start, t)) \in Nat /\ Cardinality(Upto(A, start, end)) \in Nat
            /\ Cardinality(Upto(A, start, t)) <= Cardinality(Upto(A, start, end))
        BY <2>4, <3>1, UptoGrows
      <4>2. QED
        BY <2>3, <4>1
    <3>2. CASE ~(t <= end)
      <4>1. Upto(A, start, end) = Upto(A, start, t)
        BY <2>4, <2>5, <3>2, SameCount
      <4>2. Cardinality(Upto(A, start, end)) \in Nat
        BY <2>4, UptoGrows
      <4>3. QED
        BY <2>3, <4>1, <4>2
    <3>3. QED
      BY <3>1, <3>2
  <2>7. QED
    BY <1>1, <2>1, <2>6
<1>20. QED
  BY <1>18, <1>19

\* due_instant finds the earliest instant at which active time reaches the budget, for
\* every calendar, every set of pauses and every budget.
THEOREM DueIsFirst ==
  ASSUME NEW start \in Nat, start > 0, NEW budget \in Nat, budget > 0,
         NEW pauses, IsFiniteSet(pauses), pauses \subseteq PauseRow
  PROVE  Thre!DueInstant(start, budget, pauses) = Thre!EarliestDue(start, budget, pauses)
<1>1. PICK A, due : A = Active(pauses) /\ due = Thre!DueInstant(start, budget, pauses)
  OBVIOUS
<1>2. Forever \in Nat
  BY CalendarFacts
<1>3. ASSUME NEW t \in start..Forever
      PROVE  /\ Thre!Earlier(t, Forever - 1) \in Nat
             /\ Thre!ActiveMinutes(start, Thre!Earlier(t, Forever - 1), pauses) =
                  Cardinality(Upto(A, start, Thre!Earlier(t, Forever - 1)))
  <2>1. PICK c : c = Thre!Earlier(t, Forever - 1)
    OBVIOUS
  <2>2. c \in Nat
    BY <1>2, <1>3, <2>1 DEF Thre!Earlier
  <2>3. {m \in start..(c - 1) : /\ \E i \in DOMAIN Windows : Windows[i].from <= m /\ m < Windows[i].until
                                /\ \A p \in pauses : ~(p.from <= m /\ m < p.until)} = Upto(A, start, c)
    <3>1. DOMAIN Windows = 1..Len(Windows)
      BY ServicesAssumption DEF ServicesAssumption, Thre!ClockAssumption
    <3>2. \A m : m \in start..(c - 1) <=> m \in Nat /\ start <= m /\ m < c
      BY <2>2
    <3>3. QED
      BY <1>1, <3>1, <3>2 DEF Upto, Active, Covers
  <2>4. IsFiniteSet(Upto(A, start, c))
    BY <2>2, UptoGrows
  <2>5. Thre!Cardinality(Upto(A, start, c)) = Cardinality(Upto(A, start, c))
    BY <2>4 DEF Thre!Cardinality, Cardinality, IsFiniteSet
  <2>6. QED
    BY <2>1, <2>2, <2>3, <2>5 DEF Thre!ActiveMinutes
<1>4. PICK reached : reached = {t \in start..Forever : Thre!ActiveMinutes(start, Thre!Earlier(t, Forever - 1), pauses) >= budget}
  OBVIOUS
<1>5. Thre!EarliestDue(start, budget, pauses) =
        IF reached = {} THEN Forever ELSE CHOOSE t \in reached : \A v \in reached : t <= v
  BY <1>4 DEF Thre!EarliestDue
<1>6. \A t \in start..Forever :
        t \in reached <=> Cardinality(Upto(A, start, Thre!Earlier(t, Forever - 1))) >= budget
  BY <1>3, <1>4
<1>7. CASE due = Forever /\ \A t \in Nat : Cardinality(Upto(A, start, t)) < budget
  <2>1. ASSUME NEW t \in reached
        PROVE  FALSE
    <3>1. t \in start..Forever
      BY <1>4, <2>1
    <3>2. PICK c \in Nat : c = Thre!Earlier(t, Forever - 1)
      BY <1>3, <3>1
    <3>3. Cardinality(Upto(A, start, c)) >= budget /\ Cardinality(Upto(A, start, c)) < budget
      BY <1>6, <1>7, <2>1, <3>1, <3>2
    <3>4. Cardinality(Upto(A, start, c)) \in Nat
      BY UptoGrows
    <3>5. QED
      BY <3>3, <3>4
  <2>2. QED
    BY <1>1, <1>5, <1>7, <2>1
<1>8. CASE due \in Nat /\ start < due /\ due - 1 \in A /\ Cardinality(Upto(A, start, due)) = budget
  <2>1. PICK m : m = due - 1 /\ m \in A
    BY <1>8
  <2>2. PICK i \in 1..Len(Windows) : Covers(Windows[i], m)
    BY <1>1, <2>1 DEF Active
  <2>3. m < Windows[i].until /\ Windows[i].until \in Nat /\ Windows[i].until <= Forever - 1
    BY <2>2, CalendarFacts DEF Covers, PauseRow
  <2>4. m \in Nat /\ start <= m /\ due = m + 1 /\ due <= Forever - 1
    BY <1>2, <1>8, <2>1, <2>3
  <2>5. Thre!Earlier(due, Forever - 1) = due /\ due \in start..Forever
    BY <1>2, <1>8, <2>4 DEF Thre!Earlier
  <2>6. due \in reached
    BY <1>6, <1>8, <2>5
  <2>7. Cardinality(Upto(A, start, due)) = Cardinality(Upto(A, start, m)) + (due - m)
    <3>1. m <= due /\ \A x \in Nat : m <= x /\ x < due => x \in A
      BY <1>8, <2>1, <2>4
    <3>2. due \in Nat /\ m \in Nat /\ start <= m
      BY <1>8, <2>4
    <3>3. QED
      BY <3>1, <3>2, SpanCounts
  <2>8. ASSUME NEW t \in reached, t < due
        PROVE  FALSE
    <3>1. t \in Nat /\ t \in start..Forever /\ t <= m
      BY <1>4, <2>4, <2>8
    <3>2. Thre!Earlier(t, Forever - 1) = t
      BY <1>2, <2>4, <2>8, <3>1 DEF Thre!Earlier
    <3>3. Cardinality(Upto(A, start, t)) >= budget
      BY <1>6, <2>8, <3>1, <3>2
    <3>4. /\ Cardinality(Upto(A, start, t)) \in Nat /\ Cardinality(Upto(A, start, m)) \in Nat
          /\ Cardinality(Upto(A, start, t)) <= Cardinality(Upto(A, start, m))
      BY <2>4, <3>1, UptoGrows
    <3>5. QED
      BY <1>8, <2>4, <2>7, <3>3, <3>4
  <2>9. \A t \in reached : t \in Nat
    BY <1>4
  <2>10. \A t \in reached : due <= t
    BY <1>8, <2>8, <2>9
  <2>11. \A t \in reached : (\A v \in reached : t <= v) => t = due
    BY <1>8, <2>6, <2>9, <2>10
  <2>12. (CHOOSE t \in reached : \A v \in reached : t <= v) = due
    BY <2>6, <2>10, <2>11
  <2>13. QED
    BY <1>1, <1>5, <2>6, <2>12
<1>9. QED
  BY <1>1, <1>7, <1>8, DueAnswers DEF Answers

-----------------------------------------------------------------------------
(* The services together. *)

\* Each component starts well, whichever of them moves.
LEMMA Starts == Init => IInv
<1> SUFFICES ASSUME Init PROVE IInv
  OBVIOUS
<1>1. /\ Auth!Init /\ Poli!Init /\ Docs!Init /\ Inbx!Init /\ Stat!Init /\ Expo!Init /\ Revw!Init
  BY DEF Init
<1>2. QED
  BY <1>1, AuthorityStarts, PolicyStarts, DocumentsStart, InboxStarts, StatusStarts, ExportsStart, ReviewStarts DEF IInv

\* A step is one of the component in focus, and the rows of the others stay.
LEMMA Focused ==
  ASSUME [Next]_vars
  PROVE  /\ focus' = focus
         /\ [Docs!Next]_documentsRows /\ (Next /\ focus = "documents" => Docs!Next)
         /\ [Auth!Next]_authorityRows /\ (Next /\ focus = "authority" => Auth!Next)
         /\ [Poli!Next]_policyRows /\ (Next /\ focus = "policies" => Poli!Next)
         /\ [Inbx!Next]_inboxRows /\ (Next /\ focus = "inbox" => Inbx!Next)
         /\ [Stat!Next]_statusRows /\ (Next /\ focus = "status" => Stat!Next)
         /\ [Expo!Next]_exportRows /\ (Next /\ focus = "exports" => Expo!Next)
         /\ [Revw!Next]_reviewRows /\ (Next /\ focus = "review" => Revw!Next)
<1>1. CASE Next
  BY <1>1 DEF Next
<1>2. CASE UNCHANGED vars
  <2>1. /\ UNCHANGED <<focus, documentsRows, authorityRows, policyRows, inboxRows>>
        /\ UNCHANGED <<statusRows, exportRows, reviewRows>>
    BY <1>2 DEF vars
  <2>2. CASE Next
    BY <2>2 DEF Next
  <2>3. CASE ~Next
    BY <2>1, <2>3
  <2>4. QED
    BY <2>2, <2>3
<1>3. QED
  BY <1>1, <1>2

\* A step keeps the invariants of all the services.
LEMMA StepIInv == IInv /\ [Next]_vars => IInv'
<1> SUFFICES ASSUME IInv, [Next]_vars PROVE IInv'
  OBVIOUS
<1>1. AuthorityGood' /\ PolicyGood'
  BY Focused, AuthorityKept, PolicyKept DEF IInv
<1>2. DocumentsGood' /\ InboxGood'
  BY Focused, DocumentsKept, InboxKept DEF IInv
<1>3. StatusGood' /\ ExportsGood' /\ ReviewGood'
  BY Focused, StatusKept, ExportsKept, ReviewKept DEF IInv
<1>4. QED
  BY <1>1, <1>2, <1>3 DEF IInv

\* The invariants of the components hold in every reachable state, whichever of
\* the services (agni.identity, policies, documents, integrations, certificates,
\* reporting, inspections) the behaviour is about.
THEOREM Invariance == Spec => []IInv
<1>1. Init => IInv
  BY Starts
<1>2. IInv /\ [Next]_vars => IInv'
  BY StepIInv
<1>3. QED
  BY <1>1, <1>2, PTL DEF Spec, vars

\* A session that is accepted has the powers its account has now: every command that
\* changes powers bumps the epoch that validate_session compares.
THEOREM SessionsAreCurrent == Spec => []SessionsKnowPowers
<1>1. IInv => SessionsKnowPowers
  BY DEF IInv, AuthorityGood, SessionsKnowPowers, Of
<1>2. QED
  BY <1>1, Invariance, PTL

\* No two versions are in force at an instant, although two approvals may be checked
\* side by side: ActivatePolicy checks again under the fence of the service.
THEOREM PoliciesStayApart == Spec => []OnePolicyAtATime
<1>1. IInv => OnePolicyAtATime
  BY DEF IInv, PolicyGood, OnePolicyAtATime, Of
<1>2. QED
  BY <1>1, Invariance, PTL

\* The subject, the preparer and the approver of a grant are two people at least.
LEMMA TwoNames ==
  ASSUME NEW a, NEW b, NEW c, a \notin {b, c}
  PROVE  Auth!Cardinality({b, a} \cup {c}) >= 2
<1>1. IsFiniteSet({b, c}) /\ Cardinality({b, c}) \in Nat /\ Cardinality({b, c}) >= 1
  <2>1. IsFiniteSet({b}) /\ Cardinality({b}) = 1
    BY FS_Singleton
  <2>2. /\ IsFiniteSet({b} \cup {c})
        /\ Cardinality({b} \cup {c}) = IF c \in {b} THEN Cardinality({b}) ELSE Cardinality({b}) + 1
    BY <2>1, FS_AddElement
  <2>3. {b, c} = {b} \cup {c}
    OBVIOUS
  <2>4. QED
    BY <2>1, <2>2, <2>3
<1>2. Cardinality({b, c} \cup {a}) = Cardinality({b, c}) + 1 /\ IsFiniteSet({b, c} \cup {a})
  BY <1>1, FS_AddElement
<1>3. {b, a} \cup {c} = {b, c} \cup {a}
  OBVIOUS
<1>4. Cardinality({b, a} \cup {c}) >= 2 /\ IsFiniteSet({b, a} \cup {c})
  <2>1. PICK n : n = Cardinality({b, c})
    OBVIOUS
  <2>2. n \in Nat /\ n >= 1
    BY <1>1, <2>1
  <2>3. n + 1 >= 2
    BY <2>2
  <2>4. Cardinality({b, a} \cup {c}) = n + 1 /\ IsFiniteSet({b, a} \cup {c})
    BY <1>2, <1>3, <2>1, Zenon
  <2>5. QED
    BY <2>3, <2>4
<1>5. Auth!Cardinality({b, a} \cup {c}) = Cardinality({b, a} \cup {c})
  BY <1>4 DEF Auth!Cardinality, Cardinality, IsFiniteSet
<1>6. QED
  BY <1>4, <1>5

\* Grants and policies in force were approved by somebody who had no hand in them
\* (ApproveAuthorityGrant, ApprovePolicy), and a policy as it was reviewed.
THEOREM TakesTwo == Spec => []FourEyes
<1>1. AuthorityGood => Auth!TwoPeople
  BY TwoNames DEF AuthorityGood, ApprovedByOthers, Auth!TwoPeople
<1>2. IInv => FourEyes
  BY <1>1 DEF IInv, PolicyGood, FourEyes, Of
<1>3. QED
  BY <1>2, Invariance, PTL

\* What is final stays so: verdicts of the scanner, revoked grants, the partner's
\* progress, the end of a certificate, the file of an export, a review.
THEOREM FinalStays == Spec => FinalIsFinal
<1> DEFINE P == /\ Of("documents", Docs!VerdictIsFinal) /\ Of("authority", Auth!RevokedStaysRevoked)
                /\ Of("inbox", Inbx!NeverBack) /\ Of("status", Stat!NeverResurrected)
                /\ Of("exports", Expo!FileStays) /\ Of("review", Revw!DecidedOnce)
<1>1. IInv /\ [Next]_vars => [P]_<<scanState, versionHash, grants, reflected, recorded, exports, proposals>>
  <2> SUFFICES ASSUME IInv, [Next]_vars,
                      <<scanState, versionHash, grants, reflected, recorded, exports, proposals>>' #
                      <<scanState, versionHash, grants, reflected, recorded, exports, proposals>>
               PROVE  P
    OBVIOUS
  <2>1. Next
    BY DEF vars, documentsRows, authorityRows, inboxRows, statusRows, exportRows, reviewRows
  <2>2. Of("documents", Docs!VerdictIsFinal) /\ Of("inbox", Inbx!NeverBack)
    BY <2>1, Focused, DocumentsKept, InboxKept DEF IInv, Of
  <2>3. Of("authority", Auth!RevokedStaysRevoked) /\ Of("status", Stat!NeverResurrected)
    BY <2>1, Focused, AuthorityKept, StatusKept DEF IInv, Of
  <2>4. Of("exports", Expo!FileStays) /\ Of("review", Revw!DecidedOnce)
    BY <2>1, Focused, ExportsKept, ReviewKept DEF IInv, Of
  <2>5. QED
    BY <2>2, <2>3, <2>4
<1>2. IInv /\ [Next]_vars => IInv'
  BY StepIInv
<1>3. Init => IInv
  BY Starts
<1>4. QED
  BY <1>1, <1>2, <1>3, PTL DEF Spec, vars, FinalIsFinal
=================================================================================
