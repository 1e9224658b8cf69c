# Verification of Agni-Setu

Agni-Setu handles applications for fire-safety certificates: an applicant files
an application, staff scrutinise it, inspect the premises, ask for corrections,
decide, and the system renders, signs and publishes the certificate. The server
is a Django application over PostgreSQL (`src/backend/agni`) with worker and
scheduler processes; the client is a web application with an offline mode for
inspectors (`src/web`). This directory holds TLA+ models of its concurrent core
and of the services around it, the TLC configurations that check them, and TLAPS
proofs about all of these parts.

Run `tlc -workers 2 -config X.cfg M` for the runs of `PROJECT.json`, and
`tlapm M.tla` on the modules `...Proofs` for the proofs.

Contents: [inventory](#inventory), [modules](#modules), [runs](#runs),
[findings](#findings), [proofs](#proofs), [what is not covered](#what-is-not-covered),
[plan](#plan).

## Inventory

Paths are below `src/backend/agni` unless they start with `web/`.

| Component | State it keeps | Operations | Hard behaviour | What makes it correct |
|---|---|---|---|---|
| Command kernel `platform/commands.py`, `locks.py` | principal fences, `command_receipt`, a version on every aggregate | `execute`: fence, authorise, replay or lock, version check, apply, audit, intents, receipt, in one transaction | resent commands, two commands on one aggregate, authority lost between two sends | a key takes effect once and is answered with its first result; a stale version changes nothing |
| Audit chain `platform/audit.py` | a hash chain | append under a lock, verify | concurrent appends | one chain, no fork, no gap |
| Job table `platform/jobs.py`, `recovery.py` | `logical_job`, `job_attempt` | enqueue, claim, handler, finish, retry, reconcile | crashes, leases outlived by handlers, batches, raising effects | effects at most once, ambiguous outcomes never retried blindly, nothing lost |
| Outbox and notifications `platform/outbox.py`, `dispatch.py`, `notifications/application/fanout.py` | `outbox_message`, `notification`, `delivery_attempt` | enqueue, dispatch, fan out, deliver | broker and provider outages, republishing, contacts verified late | every committed intent reaches its recipients; completed means sent |
| Issuance `certificates/application/issuance.py` | `issuance_request`, `certificate_artifact`, `certificate` | approve, handler (snapshot, render, sign, verify), publish, reconcile | long handler outside a transaction, a signer whose answer is lost, stale workers, holds in the middle | one certificate per approval, showing the signed document; no approval stranded |
| Certificate status `certificates/application/lifecycle.py` | status instruments, renewals | suspend, reinstate, revoke, supersede, renew | instruments with future effect | final states stay final |
| Cases `cases/application` | `application`, stages, holds | submit, scrutinise, withdraw, hold, release | commands of several actors on one case, locks on different rows | the case has the visit, notice and clock it waits for |
| Notices and findings `notices/application` | notices, items, responses, findings | publish, supersede, respond, review, verify, accept, complete, reinspect, clarify | commands that lock one row and write others from unlocked reads | an approval is not undermined; rounds close |
| Inspections `inspections/application` | attempts, assignments, reports | require, schedule, reassign, cancel, check in, fail, submit | follow-up attempts, reassignment against the officer's own commands | one open attempt per waiting case, one active officer |
| Decisions `decisions` | decision rows | approve, reject, readiness | reads many rows it does not lock | what it rested on stays true |
| Obligations `obligations` | obligations, pauses, threshold actions, escalations | open, satisfy, cancel, pause, scan, run threshold, escalate | pauses between scan and execution, two schedulers | a clock runs unless held; each threshold acts once |
| Offline `offline/application`, `web/src/offline` | device queue and receipts; `sync_operation` | queue, upload, freeze, post, look up, replay | lost responses, closed browser, changed assignment | one report per operation; the device never claims more than the server stored |
| Draft autosave `cases/application/drafts.py`, `web/src/features/applications/useDraftAutosave.ts` | draft revision; pending edits | debounce, save, retry, resolve conflict | ambiguous saves, edits while saving | no edit lost or overwritten silently |
| Partner inbox `integrations/application` | inbox rows, entity state, conflicts | receive, apply, release successors, resolve | reordered and duplicated events | an entity never goes back; a gap is closed when its predecessor arrives |
| Documents `documents` | reservations, versions, scan state | reserve, upload, complete, scan, grant access | scans that fail or repeat | only clean files are relied on |
| Identity and authority `identity` | principals, grants, delegations, epochs | provision, approve, revoke, delegate, disable | authority revoked during a command | nobody acts on revoked authority; nobody approves their own grant |
| Policies `policies` | versions, contributions, activation | draft, review, simulate, approve, activate | concurrent activation | one active version; approvers did not contribute |
| Exports and metrics `reporting` | export jobs | create, generate, fetch | repeated generation, lost scope | scope checked when fetched |
| Intake `cases/application/submission.py`, `routing` | routing table, exceptions, reference numbers | submit, resolve the route, start scrutiny, resolve an exception | submissions of several services number themselves at a time | a case is where the one best entry sends it or an open exception of its central queue; references are distinct |
| Sign-in `identity/otp.py` | codes, limits, contacts | start, verify, establish a session | repeated requests, two sends at a time, a stop between two transactions | a code is spent once, guesses are bounded |
| Support `support` | tickets, messages | open, reply, change state | rounds of closing and reopening by two parties | times and state agree; nobody is waited for who has answered |
| API, web pages, infrastructure | | | third-party or stateless | |

**How they interact.** Every user action is a command run by the kernel in one
transaction: it locks the actor's fence, then the target, and writes the change,
an audit entry, outbox intents and a receipt. Intents are turned into jobs by the
dispatcher. Jobs run in worker processes; their handlers work outside any
transaction and hand a closure to `finish()`, which applies it under the job's
row lock if the lease still stands. Issuance, fan-out, delivery, thresholds,
scans, exports and partner events are all such jobs. Schedulers scan the
database; the message broker only wakes workers earlier.

`PROJECT.json` lists the components with their status, and under `hazards` the
lines where the code can go wrong in a way a test would hardly reach.

## Modules

| Module | Models | Uses |
|---|---|---|
| `ExactlyOnce` | what the job table promises about one logical action | |
| `JobQueue` | the job table, worker passes, crashes, leases, operator recovery | implements `ExactlyOnce` |
| `JobQueueProofs` | the inductive invariant and the theorems | `JobQueue`, TLAPS |
| `CertificateRegistry` | what issuance promises the public registry | |
| `Issuance` | the issuance handler, publication, holds and recovery over the job table | instance of `JobQueue`; implements `CertificateRegistry` |
| `IssuanceProofs` | invariants of issuance, and that it implements the registry | `Issuance`, instance of `JobQueueProofs`, TLAPS |
| `Outbox` | dispatcher, fan-out and delivery over the job table | instance of `JobQueue` |
| `OutboxProofs` | invariants of the outbox and its deliveries | `Outbox`, instance of `JobQueueProofs`, TLAPS |
| `Inspections` | attempts and assignments of one application | |
| `CaseClock` | obligations, pauses and the hold of one application | |
| `CaseLifecycle` | the application, its notices, findings, reports and decision | instances of `Inspections` and `CaseClock` |
| `CaseLifecycleProofs` | invariants of the case | `CaseLifecycle`, TLAPS |
| `AuditChain` | the hash chains of audit rows and their lock | |
| `CommandKernel` | the transaction of a command, its receipts, requests that arrive again | instance of `AuditChain` |
| `CommandKernelProofs` | invariants of the kernel and its chains | `CommandKernel`, TLAPS |
| `OfflineSync` | an officer's device and the server's side of synchronisation | |
| `OfflineSyncProofs` | invariants of synchronisation | `OfflineSync`, TLAPS |
| `Services` | the fourteen modules below, side by side | instances of them |
| `Documents` | reservation, transfer, completion, scan, access | |
| `Authority` | staff accounts, grants, sessions | |
| `SignIn` | one-time codes of one contact | |
| `Policies` | versions of one service's policy | |
| `PartnerInbox` | events about one record of a partner | |
| `CertificateStatus` | certificates of one premises after publication | |
| `Thresholds` | one obligation's due instant, threshold actions, escalations | extends `WorkingClock` |
| `WorkingClock` | interval arithmetic, and its reference definition | |
| `Drafts` | browser pages that save a draft, and its delegate | |
| `Support` | tickets | |
| `Exports` | exports, their job and their readers | |
| `Bookings` | the officers' calendar | |
| `ConflictReview` | conflicts a device reports, and their review | |
| `Intake` | submission, routes and reference numbers | |
| `Reports` | report drafts, the evaluation of reports, findings and the decision that rests on them | |
| `ServicesProofs` | invariants of seven of the services, and what `DueInstant` computes | `Services`, TLAPS |
| `ServiceRowsProofs` | invariants of the other seven, and of all together | `ServicesProofs`, TLAPS |
| `MC...` | constants for the runs | |

Operators named `Mut...` are faulty variants of the definition below them; they
take part in no specification and serve to show that each property notices a fault.

### JobQueue

`job` is the `logical_job` table, `attempts[j]` the outcomes of its `job_attempt`
rows, `batch[w]` and `verdict[w]` the memory of a worker between
`claim_due_jobs` and `finish`, `audit` the count of accepted recovery commands.
Time is what the code compares: a lease is `live` or `expired`, a due time is
`never`, `later` or `now`. `HandlerReturns` computes the result before
`finish()` reads the clock, so the lease may run out in between; `Finish` is the
completion transaction with the business effect in it, `LoseLease` the fence's
refusal, `ApplyRaises` an effect that raises (the exception leaves the pass, so the
rest of the batch is abandoned), `Crash` the death of the process. A worker
claims a set of rows, since `SKIP LOCKED` may leave out any of them.

### Issuance

Each step of `issue_certificate` that opens its own transaction or calls a
service is an action: `StartHandler` (the reads and the hold check),
`EnsureSnapshot`, `ReadBack` (the copy of the row the handler goes on with),
`RenderAndStore`, `LookUp`, `Submit`, `Verify`; `Finish` runs `publish()` in the
completion transaction. `_mark` and the artifact reference are written outside
the fence, as in the code. The signer keeps a receipt under the stable request
identity; it may answer, fail, stay silent, or sign another document. The signer
and the object store are external. `hold` stands for a hold whose scope lists
TRANSITIONS: the handler's check passes over one that lists only DECISIONS.
The request state FAILED is never assigned by the code and does not occur.

### Outbox

`EnqueueIntent` is the end of a command's transaction. `DispatchPending` creates
the deterministic fan-out job and tries the broker: failure leaves the row
PENDING. `Finish` carries the effect of the fan-out (notifications, delivery rows
and delivery jobs, intent COMPLETE) or of the delivery. `run_delivery` is split at
each unfenced write. Recipients, templates and preferences are data.

### CaseLifecycle, Inspections, CaseClock

`status`, `findings`, `notices`, `attempts`, `obligations` and `hold` are the rows
of one application; list positions stand for primary keys. `Transitions` is the
table of `cases/domain/states.py`. The actions are the command handlers with all
they write; the last visible effect of issuance, `Publish`, closes the case.

*Why most commands are one action.* A command that moves the case locks the
application row. Every other command inserts a case event that references the
application, and Django's foreign keys are deferred to commit, where the check
takes a key-share lock on the application row: it conflicts with `FOR UPDATE`,
so such a command commits either before the mover reads or after it commits.
Four commands lock only a row other than the case and work on unlocked reads of
further rows: `SubmitResponse` (a notice), `ReviewItem` (an item),
`VerifyFinding` (a finding), `ReleaseHold` (a hold). Each is an element of `Issue`
with what it read; `Execute` runs it at once, and for those in `Racing` `Begin`
reads, any other commands happen, and `Commit` writes or `Abort` rolls back. While
such a command is in flight nobody else writes its own row (`NoticeFree`,
`ItemFree`, `FindingFree`).

All four race in the run. `ReviewItem` locks its item and writes the finding from
an unlocked read, so a return that read the finding as open and commits only after
a superseding round, the verification, `CompleteCorrections` and the approval have
all committed reopens the finding of an approved case. `ApprovalStands` therefore
says exactly that much: an approval is recorded with an eligible report, no routing
exception, no open visit or notice, no open mandatory finding and no outstanding
reinspection; and while the case stays approved, the only mandatory findings that
can open again are those of the late returns of superseded rounds (`LateReturns`).
Without that exception TLC violates the property in a trace of 19 states.
`VerifyFinding` does not ask for the status of the case, so a reinspection can be
required of an open advisory finding after the approval; outstanding reinspections
are stated of the approval and not of the time after it.

Left out: who acts and with which authority, the queue an obligation names, due
instants, booking intervals, response texts and attachments, report contents
apart from which items failed. The policy gives every task a time budget. A
pause with a planned end changes no obligation state and is not recorded.

### CommandKernel, AuditChain

`requests` is what clients sent, and it only grows: a request may be executed
late, twice or never. `running` holds the open transactions, `answers` the results
that were given and `replies` how many each principal was given, repeats included.
`Replay` answers from a receipt, to a principal who has the authority at that
moment; `Admit` passes the fence, the authority check and the receipt
lookup, `Apply` takes the lock of the target and compares versions,
`PrepareAudit` takes the lock of the entity's chain and reads its head, `Commit`
makes effect, audit row and receipt visible together, and `Abort` is any refusal
or loss before it. `ChangeAuthority` stands for the commands that take a power
away or give it back, which lock the same fence. `BeginSearch` and `EndSearch`
are the audit rows of readers, who hold no fence.

Abstraction: the version of an aggregate and its value are one number, and the
bodies of a key are two model values of which the receipt remembers one.

### OfflineSync, ConflictReview

The device's tables (`web/src/offline/database.ts`) and the open synchronisation
are variables of the device; every write of `syncOperation` to IndexedDB is a
step, between any two of which the page may stop. Requests stay on the wire after
the device gave up, so the server may process them later or twice. The server's
transaction for one operation is one action, since it holds the attempt's lock
and the actor's fence throughout. One synchronisation at a time is assumed on a
device: `syncAll` is started by a button that is disabled while it runs
(`web/src/features/sync/SyncPage.tsx`); a second tab is not modelled.
`ConflictReview` continues where synchronisation refuses: `ProposeConflict` is
split where it reads the visit and the recorded operation, neither of which it
locks.

### Services and its parts

The fourteen components lock and write disjoint rows; what one reads of another
is an input of its own module (for instance the scope an export's reader has).
Interleaving two of them reaches no combination of one component's rows that it
does not reach alone, so a behaviour of `Services` moves one of them, its
`focus`, and every property is asked of the focus. This is a product with the
redundant interleavings left out and not a claim of theirs about each other:
no property relates two of these components. Where two do act on one row, one
module has both: holds and schedulers in `Thresholds`, disabling of an account and
its sessions in `Authority`, absences and visits in `Bookings`.

- `Documents`: transfers take no lock, and completion calls the store inside its
  transaction, so `PutStaging`, `SaveUploaded`, `Promote` and `CommitVersion` are
  steps of their own. A stored object is known by the bytes it holds, which may
  differ from the hash in its key. The scanner is external.
- `Authority`: commands are atomic under the fences of actor and subject;
  proposing a grant decides on rows it does not lock and is split.
- `SignIn`: consuming a code and recording the contact are two transactions.
  Limits start again with their window; sends overlap.
- `Policies`: approval checks intervals without the lock of the service, in two
  steps; activation and submission hold it.
- `PartnerInbox`: an apply job holds the row of the record and may run again; an
  operator's resolution is split between its unlocked read and its write.
- `CertificateStatus`: supersession takes two locks one after the other; two of
  them may wait for each other, and one is aborted.
- `Thresholds`, `WorkingClock`: scanner passes read first and insert later; a
  recomputation moves the due instant and sets obsolete actions aside. `DueInstant`
  is the code's walk over merged pauses and windows, its loops written as functions of
  the number of their turns; `EarliestDue` counts active time instant by instant.
- `Drafts`: a page is one mounted instance of the hook; requests and answers can
  be late or lost, a page that is gone still ends its request. A request that fails for
  its page may have been handled, before or after the page repeats it under its key.
- `Support`: one locked row per command, with rounds of both parties.
- `Exports`: the handler works without a lock, its completion is fenced, its
  failure write is not.
- `Bookings`: commands take the actor's fence, the visit and the officer's fence
  one by one and keep them; waiting for each other ends in `RollBack`.
- `Intake`: a submission holds the fence of its service; counting references,
  trying a number against the unique index and committing are steps. Submissions
  of different services overlap. When a number is taken the next try counts again
  *and* adds the number of tries, so numbers are skipped; the skipped ones make
  later counts lag, which later tries make up. Once the tries are used up the code takes
  a random reference, here the number 0, which is out of the sequence.
- `Reports`: what `CaseLifecycle` leaves open of a report. Two items are observed and
  evaluated as `inspections/domain/checklist.py` does; `VerifyFinding` locks the finding only,
  so a report may be accepted between its reading and its commit. A decider's page keeps
  the version and the report it was shown. `ApprovalIsEarned` is asked of the rows
  themselves and not of the evaluation's verdict: an approved case has a last report that
  passed or properly excused every mandatory item, each earlier failure was closed
  on a reviewer's evidence after the report that recorded it, and the decider never
  inspected the case. `DeficienciesAreKept` says why: a report's failure always
  finds, or makes, the one unresolved finding of its item. It can be closed by a
  verification that had read the finding before that report and commits after it
  (`closedAfter` counts the reports at the commit), and then the failure needs no
  verification of its own: the property does not say otherwise.

## Runs

| Run | Checks | Bounds |
|---|---|---|
| `jobs_safety` | types; effects exactly once; unknown outcomes answered one for one; a waiting job has an attempt left; outcomes written once and only on the newest attempt; refinement of `ExactlyOnce` | 2 jobs (one without reconciliation), 2 workers, batches of 2, 2 attempts, 1 fault, 1 retry and 1 reconciliation per job |
| `jobs_cap` | the attempt cap (violated, see below) | as above |
| `issuance_safety` | types; `NoApprovalStranded`; `AmbiguityRemembered`; refinement of `CertificateRegistry` | 1 request, 2 workers, 2 attempts, 1 fault, each recovery command once, one right and one wrong document |
| `issuance_hold` | a hold only delays (violated) | as above |
| `outbox` | types; `FanOutComplete`; `CompleteMeansSent`; liveness `IntentsComplete`, `DeliveriesSettle` | 1 intent, 2 recipients of whom 1 has a channel, 2 workers, 2 attempts, 1 fault, 1 retry |
| `outbox_stale` | an accepted delivery stays accepted (violated) | as above |
| `case` | types; `WaitingHasOneVisit`, `AssignmentFollowsAttempt`, `WaitingHasNotice`, `StageHasClock`, `ClockStopsOnlyOnHold`; the action properties `ApprovalStands`, `HoldFreezesCase` | 2 checklist items (one mandatory), 1 finding, 2 notices, 2 visits, 2 bookings in all, 1 hold pausing 1 clock, 1 command in flight |
| `case_notice` | an open notice awaits the applicant (violated) | as above |
| `commands` | types; `AppliedOnce`, `NoLostUpdate`, `FenceSuffices`, `ChainVerifies`; the action property `ActsWithAuthority` | 2 principals, a case with its hold and a collection, 1 key each, 2 bodies, 3 requests, 2 versions, 2 audit searches, replays to a principal who had fewer than 2 answers |
| `offline` | types; `AcceptedOnce`, `ReceivedIsTrue`, `OneContentPerId` | 2 operations on 1 attempt, 2 contents, 1 document each, 2 requests under way, 3 changes of the assignment |
| `offline_lost_answer` | an accepted operation is never in conflict (violated) | as above |
| `services` | types; `SessionsKnowPowers`, `OnePolicyAtATime`, `FourEyes`, `DeliveredOnce`, `RowsAgree`; the action property `FinalIsFinal` | see below |

Bounds of `services` by component. Documents: 2 uploads of 2 contents, 3 transfers
in all. Authority: 3 accounts, 3 grants, 2 access requests, epochs to 3. Sign-in:
3 codes, 2 wrong guesses each, 2 sends per window. Policies: 2 versions, 2
editors, 2 payloads, 3 instants. Inbox: 3 events in sequence, 1 operator at a
time, another body only while fewer than 2 conflicts are open. Status: 3 certificates, one without an end, 1 renewal. Thresholds: 2
calendar windows, a budget of 3 units, 2 schedulers, 2 holds, 1 manual
escalation. Drafts: 2 pages of whom one belongs to the delegate, 1 key, 2 values,
2 edits, 1 failure, revisions to 3. Support: 2 tickets. Exports: 1 export, 2
cases, 2 handlers. Bookings: 2 officers of whom 1 is a supervisor, 2 visits, 2
intervals that overlap, 2 assignments, 1 absence. Review: 2 officers, 2
operations, 1 supervisor. Intake: 3 applications of 3 services, every table of up
to 3 entries (a tie, a more specific one to a closed queue, limited validity), 2
tries (6 in the code), so that they run out. Reports: 2 items (a mandatory one that needs evidence and may be
excused, an advisory one), 2 visits, 2 officers who also verify and of whom one
decides, 1 verification under way.

Two pairs of model values serve as the interchangeable members of all the sets
of these components, so that one symmetry reduces each of them. The symmetry is
sound because no component distinguishes them and only one component moves; the
values with a fixed role (grants, routes, positions in a sequence) are others.

*Why the bounds are enough.* The job-table hazards need two workers and one
lost lease; a second fault adds another superseded worker whose fence fails for
the same reason, and two attempts are the least at which "retry" and
"exhausted" differ. `MaxRequeues` 1 lets a retry raise the cap. Jobs interact
only inside a batch, hence two jobs. For issuance one request suffices, because
requests share no row; two workers give a stale and a current one; the wrong
document makes verification matter. For the case, two visits and two notices
are one round and its repetition (a follow-up, a reinspection, a superseding
round), one mandatory finding decides an approval, and one command in flight
shows each pair "slow row command against everything else". The advisory item
lets a report be eligible with a finding open. Several mandatory findings
at once, and two slow row commands at a time, are not covered. For commands, the
third request is the first that finds a receipt while another duplicate runs. For
the device, two requests under way are one given up and one repeated. In
`services` each race is of two actors, and two of everything they race for is
present; the third certificate closes a chain of successors, the third event a
gap of two, the third application runs out of
tries while the others number themselves; a second edit is made while
the first is under way, or in the other page. The proofs below
need no bounds.

*Deadlock checking* is off in every run: systems of finished jobs, delivered
messages or closed cases stop, and bounded counters stop the rest.

*Fairness* is assumed only in `outbox`. `run_schedulers` and `process_jobs` loop
for ever, so a dispatchable intent is dispatched and a started handler or
`finish()` goes on (weak fairness). Claims are taken in order of due time with
`SKIP LOCKED`, so a job that is claimable again and again is claimed in the end
(strong fairness per job). Waiting times and the leases of lost workers run out
(weak fairness). Faults, broker answers, provider answers, the applicant's
verification and operator commands are never forced; a job parked as
`DEAD_LETTER` or `RECONCILIATION_REQUIRED` is an accepted end.

## Findings

Each is the violation run of that name and quotes the line that says otherwise.

- `jobs_cap` (`platform/jobs.py:122`): the attempt cap is applied when an outcome
  is recorded, not when a row with an expired lease is claimed again. An action
  that keeps taking its worker down is attempted for ever and never parked.
- `issuance_hold` (`certificates/application/issuance.py:253`): waiting for a hold
  uses up attempts, so a hold of about three hours ends in `DEAD_LETTER` although
  the comment says the job waits instead of failing.
- `outbox_stale` (`notifications/application/fanout.py:356`): a worker that lost
  its lease still writes the delivery row.
- `case_notice` (`notices/application/commands.py:1314`): a reinspection leaves the
  deficiency notice open; once its findings are verified it blocks the approval as
  "still awaiting the applicant" with nothing left to answer.

- `offline_lost_answer` (`web/src/offline/sync.ts:134`): after a lost answer the device
  compares its assignment with the server's, which acceptance has closed, before
  it looks for the receipt; the accepted operation ends as CONFLICT.

Of some hazards part of what one would like to say is false of this code, and the
notes of the hazards say which part: an object of a CLEAN file that a second
completion overwrites, a threshold that does not fire again once it was set
aside, a merged draft that is refused under the key of the save it repeats, an
account without a contact that cannot sign in again, an export whose failure is
written over its completion. `Intake` shows no fault, but leaves one out:
`ResolveRoutingException` (`cases/application/submission.py:934`) moves the queue of
active obligations only, so a paused one keeps the old queue. The models found two
more things no text speaks of: `CreateRenewalDraft` lets two renewals of one
certificate begin (`certificates/application/lifecycle.py:361`), and an export of
kind REPORT is built from the scope at the time of the job and not of the request.

Three more things were met while modelling `Reports` and have no run.
`notices/application/findings.py:3` says that every mandatory NOT_VERIFIED observation
becomes a finding: `evaluate` makes it a blocker only, and makes findings of the advisory
ones. `notices/application/commands.py:772` speaks of a "(re)inspection report":
`VerifyFinding` accepts any report of the case that passes the item, also one older than
the finding; the approval still needs a later report without blockers. And the
`assignment_version` that officers send cannot reveal a reassignment and its
reversal, since an active assignment always has version 1; the version of the
visit, which every online command must also send, does.

Others have no property because the code does not meet it: a blind resubmission after a crash during signing, publication under a hold
created after the handler's check, clocks revived by a racing release, paused
tasks that survive their stage, early releases of holds with a planned end, and
lock orders that can deadlock.

## Proofs

Eight modules hold theorems: every invariant and every action property that a passing
run checks is proved for every value of the constants, and so are both refinements.
Each module has one invariant `IInv` (`RowsInv` in `ServiceRowsProofs`), a lemma that
`Init` establishes it, a lemma for every action or group of actions, and the theorem
`Invariance` (in `JobQueueProofs`, `InvariantHolds`; in `ServiceRowsProofs`,
`RowsInvariance`), from which the named properties follow. TLC checked every one of these
invariants on the instance of its run.

| Module | Theorems | Assumes |
|---|---|---|
| `JobQueueProofs` | `TypeCorrect`, `EffectsHappenOnce`, `UnknownsAreAnswered`, `WaitingJobsHaveBudget`, `OutcomesAreFenced`, `TableImplementsExactlyOnce` | `JobQueueAssumption` |
| `CommandKernelProofs` | `TypeCorrect`, `EffectOnce`, `UpdatesAreSerial`, `FenceIsEnough`, `ChainsNeverFork`, `AuthorityAtCommit` | `KernelAssumption`; `HolderAssumption`, that the mark of a free lock is no principal |
| `OfflineSyncProofs` | `TypeCorrect`, `ClosedOnce`, `ReceiptsTellTheTruth`, `ManifestsStayFrozen` | `OfflineAssumption`: at least two versions, since closing the attempt takes one |
| `IssuanceProofs` | `TypeCorrect`, `ApprovalsGoOn`, `AmbiguityIsKept`, `IssuanceImplementsRegistry` | `IssuanceAssumption`, `TableAssumption` (the job table's); the refinement also `Deterministic` |
| `OutboxProofs` | `TypeCorrect`, `FanOutsCommitWhole`, `CompletedWasSent` | `OutboxAssumption`, `TableAssumption` |
| `CaseLifecycleProofs` | `TypeCorrect`, `WaitingCaseHasItsVisit`, `AssignmentsFollow`, `WaitingCaseHasItsNotice`, `StageIsTimed`, `ClocksRunUnlessHeld`, `HoldFreezes`, `ApprovalHolds` | `CaseAssumption` |
| `ServicesProofs` | `SessionsAreCurrent`, `PoliciesStayApart`, `TakesTwo`, `FinalStays`, `DueIsFirst` | `ServicesAssumption` |
| `ServiceRowsProofs` | `RowsAreTyped`, `OnceDelivered`, `RowsHold` | `ServicesAssumption` |

**Job table.** `EffectExactlyOnce` is not inductive: it says nothing of which worker
may still write. `IInv` adds: a token counts the attempts of its row, the
newest attempt of a RUNNING row is open and other rows have no lease
(`RowsCoherent`); every claim in some worker's memory names an open attempt, and
if its token is current the row is RUNNING (`ClaimsOpen`); no two workers hold
the same claim (`ClaimsExclusive`); a verdict is about a claim its worker holds (`VerdictHeld`);
the successful attempts of a COMPLETE job are one, of another job none
(`SuccessMeansComplete`). A finish passes the fence only with the current token,
so it closes the newest attempt of a RUNNING row: the set of successes grows from
empty to a single member as the row becomes COMPLETE, and no other action starts
from COMPLETE. The refinement follows step by step: claiming and losing leases
stutter, `Finish` commits, parks or stays open by the outcome, recovery resumes.

**Command kernel.** Three locks are held to the end of a transaction, and each
keeps one thing true that was checked earlier: the fence of the actor, that no
receipt of his key has appeared (`FenceHeld`), which makes the duplicate branch
unreachable; the lock of the row, its version (`RowHeld`); the lock of the chain,
its head (`ChainHeld`). A chain is the path `1, 2, ..., n` of its rows
(`ChainsArePaths`), counted with the library's cardinality theorems, so appending
to the head that was read neither forks nor skips. `AuthorityAtCommit` holds of a
commit because a revocation waits for the fence of the actor it is about, and of an
answer from a receipt because the authority is checked before the receipt is looked up.

**Offline synchronisation.** The session works on the operation as it is stored
(`CopyIsStored`), a manifest is frozen once and every post, row and receipt carries
it (`FrozenOnce`, `SameContent`), an answer reaches only the session that posted the
request (`AnswersAwaited`), and an accepted row is the one that closed the attempt
(`AcceptedClosed`). A request that arrives late meets either its own receipt or a
closed attempt.

**Issuance.** Request, case, job and certificate move together (`RowsLinked`,
`Certified`), because only the completion transaction publishes, behind the fence.
`NoApprovalStranded` is then immediate; what is hard is the worker: `RunsKnow` says
what a handler learnt (an artifact exists, a submission was marked, a receipt was
seen) and that other workers, who may write the same row without the fence, never
take it back. The lemmas of `JobQueueProofs` are used through its instance.
`Deterministic` (a frozen snapshot renders to one document) is a hypothesis of the
refinement only. A handler verifies the receipt against the artifact in its memory,
and `publish` registers the artifact the row refers to by then
(`certificates/application/issuance.py:384`); `_render_and_store` writes that reference
without the fence (`:198`), so a superseded worker may replace it in between. Artifacts
are stored by their hash, so this is harmless exactly when both workers rendered the same
bytes. TLC's run has one right document for this reason.

**Outbox.** Outbox row, notifications and deliveries of an intent change in the one
transaction that completes its fan-out job (`DeliveriesFollow`), and the job table
lets that through once. For this the models of `Issuance` and `Outbox` begin a handler
only for a worker that is not inside one, as a worker process runs its batch
one job after the other.

**Case.** Three threads meet only in the status: visits (`VisitsGood`, `OneVisit`),
clocks (`ClocksGood`: kinds never change, the clock opened last is the stage's, a
paused one belongs to the hold in force), and rounds with findings (`RoundsGood`).
What a command in flight has read and locked stays true until it writes
(`FlightsGood`): a response holds its notice, a verification an unresolved finding, a
release its hold. `ApprovalHolds` needs more of two of them. A review in flight has
its item, which waits for it, to itself, and if it means to reopen a finding, that
finding is open as long as the round it read it in is published, and mandatory no
more once the round is satisfied; only a superseded round lets go of it
(`ReviewsGood`). A verification in flight was issued with every open item that has a
response to its finding, so it accepts them when it closes the finding
(`VerdictsCover`). Approving then finds what `Ready` asked for, and after it every
write is a late return of a superseded round, or leaves the mandatory findings as
they are (`ApprovedWrites`).

**Services.** One component moves at a time, so the invariants of the components
are proved one by one (`AuthorityGood`, `PolicyGood`, `DocumentsGood`, `InboxGood`,
`StatusGood`, `ExportsGood`, `ReviewGood`) and joined by `Focused`. A session's epoch is
never ahead of its account's, and every command that changes powers bumps it
(`SessionsBehind`). An approval under way holds its version and the one it
closes, so what it checked of both is still true when it commits
(`StillApprovable`, `ApprovalsApart`); two approvals may nevertheless
be granted for overlapping intervals, and `ActivatePolicy` is what keeps them
apart. A superseded certificate has exactly one successor although two locks are
taken one by one (`OneSuccessor`). A job that can still complete an export has written
no file (`OpenJobUnwritten`). Nobody but the officer could end the visit he read,
and that takes the fence he holds (`ReadUnderFence`).

The other seven are in `ServiceRowsProofs`, which joins all fourteen in `RowsInv`:

- *Sign-in* (`SignInGood`): a code that was verified or opened a session is consumed,
  and no other session came of it (`SpentOnce`); an older code still open is one the
  later send did not see (`SupersededIfSeen`); what was sent and is being sent never
  exceeds what the limits let pass (`WindowsCounted`).
- *Thresholds* (`ThresholdsGood`): one action per key, and exactly one automatic
  escalation, open or acknowledged, once the action that raises it was executed.
  `ClockGood` says that every command that changes the pauses recomputes the due instant
  in its transaction.
- *Drafts* (`DraftsGood`): an answer that says "saved" names the revision its own request
  made (`AnswersTrue`), and a page awaits its own request only, or none once it is
  blocked (`OwnFlights`); hence a repeated request meets its receipt, and every field
  typed is pending, under way, or saved.
- *Bookings* (`BookingsGood`): what was checked of an officer's calendar and absences
  stays true because whoever would change it needs the same fence (`CheckedUnderFence`,
  `FencesApart`).
- *Intake* (`IntakeGood`): a candidate is counted from what is committed, so numbers stay
  within the count and the tries (`CandidatesCounted`); a held one is on no other case
  (`HeldApart`); and each try that failed leaves one more numbered case below the next
  candidate (`TriesMet`), so a random reference means that many cases are numbered. No
  bound on services or cases is used.
- *Reports* (`ReportsGood`): a mandatory item's finding is closed on a reviewer's evidence
  only (`ClosedOnEvidence`), a case leaves inspection exactly when its visit is complete
  (`ReviewedAfterVisit`), and an approved one stays as the approval left it
  (`ApprovedStays`).
- For the exports a leased handler is alone and its rows are of the frozen scope
  (`FrozenGood`); for the reviews a proposal is resolved exactly when it has an
  outcome (`AssignedGood`).

*The clock.* `DueIsFirst`: `DueInstant` is `EarliestDue`, for every calendar, finite set
of pauses and budget. `DueInstant` is three loops, over the sorted pauses, over the windows,
and over the merged pauses within a window. A loop is a function of the number of its
turns; that it is the function its equations describe (`Turns`), and that what the first
turn has and every turn keeps holds of all (`AllNumbers`), follow from the least number
that would be an exception, which the library's theorem on well-founded relations
(`WFMin`) provides without an operator parameter. The loops then have these invariants:
the merged pauses so far are ordered and cover exactly the instants the pauses so far do
(`AbsorbCovers`, `MergedCovers`); before the budget is used up, the active minutes before
the cursor and what remains make up the budget, and no minute left of the window lies in
a pause that was passed (`Owes`, `InWindow`; `PassPauseCounts`, `PassWindowCounts`); once
there is an answer, it is the end of the minute that completes the budget, or `Forever`
and active time never reaches it (`Answers`).

*What the assumptions say.* They give constants their types, and keep marks like
"none" apart from the values they stand beside. One says something of the
installation: the grants that exist from the beginning are approved rows of staff
(`AuthorityAssumption`); the next grant is proposed by the commands. `ClockAssumption`
says what `_eligible_intervals` yields: no window is empty and each begins after the one before
it has ended, since `from_artifact` refuses a day that closes before it opens.

Only model-checked: the liveness properties (`IntentsComplete`, `DeliveriesSettle`),
which rest on fairness and thus on ENABLED, and the violations of the previous section.

## What is not covered

- *Requests before the kernel*: parsing, throttling, rendering and the pages of the
  web application keep no shared state.
- *Schemas* of notices and policies validate one payload at a time.
- *Sign-in of staff* through an OIDC provider, and the step-up that changes a contact,
  are third-party protocol; `Authority` begins with the session they establish.
- *Validity intervals of grants, jurisdictions of roles*, premises and the creation
  of drafts, recipients and texts of notifications.
- *Case events*: inspection commands number them under the lock of the visit only
  (`inspections/application/commands.py:161`); the unique constraint turns a
  collision into an error and a retry.
- *Real time*: lease lengths, time zones and daylight saving; `WorkingClock` counts
  units.
- *Database deadlocks* are not states of the models: a command that is chosen as
  victim is an `Abort` or `RollBack`, which every model with split commands has.
- *Infrastructure*: backups, containers, CI.

## Plan

Done: the models of all parts listed above, and proofs of all their safety properties.
What is left is breadth.

The queue of an obligation and the case events would be the next state to add to
`CaseLifecycle` and `Intake`.
