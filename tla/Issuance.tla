------------------------------ MODULE Issuance ------------------------------
(***************************************************************************)
(* Certificate issuance (agni.certificates.application.issuance) on top of *)
(* the durable job table: the approval that creates the request, the       *)
(* handler that freezes, renders, signs and verifies in steps of its own,  *)
(* the publication inside the completion transaction, case holds, and the  *)
(* operator commands that resume a request.                                *)
(*                                                                         *)
(* A request is also the logical action of its job, so the job table is    *)
(* instantiated with Jobs <- Requests.  Each request has a case of its own.*)
(* A hold stands for one whose scope lists TRANSITIONS.                    *)
(***************************************************************************)
EXTENDS Naturals, Sequences

CONSTANTS
  Requests,       \* issuance requests
  Workers,        \* worker processes
  Renders,        \* what the renderer can produce from one frozen snapshot
  OtherArtifacts, \* what a receipt may name instead of the artifact submitted
  None,           \* no artifact, no receipt
  MaxAttempts, ClaimLimit, MaxFaults, MaxRequeues,
  MaxResumes      \* bound: runs of the reconcile_issuance management command

ASSUME IssuanceAssumption ==
  /\ None \notin Renders \cup OtherArtifacts
  /\ MaxResumes \in Nat

VARIABLES
  job, attempts, batch, verdict, audit, faults,  \* the job table and its workers
  request,       \* the issuance_request rows
  case,          \* the status of the request's case
  hold,          \* whether an active hold blocks the case's transitions
  certificates,  \* the certificates registered for a request
  signed,        \* the receipt the signer keeps under the request's identity
  run,           \* where a worker stands inside the issuance handler
  resumed        \* how often reconcile_issuance has run for a request

Table == INSTANCE JobQueue WITH Jobs <- Requests, Reconcilable <- Requests
ASSUME TableAssumption == Table!JobQueueAssumption

tableVars == <<job, attempts, batch, verdict, audit, faults>>
caseVars == <<case, hold>>
vars == <<tableVars, request, caseVars, certificates, signed, run, resumed>>

Artifact == Renders \cup OtherArtifacts
RequestRow == [state: {"ABSENT", "READY", "PROCESSING",
                       "RECONCILIATION_REQUIRED", "PUBLISHED"},
               artifact: Artifact \cup {None}, submitted: BOOLEAN]
Certificate == [artifact: Artifact, receipt: Artifact]
Answers == {"obsolete", "refused", "held", "unavailable", "failed", "unknown", "publish"}
Steps == {"freeze", "read", "render", "sign", "submit", "verify"}
Run == [claim: Table!Claim, at: Steps \cup Answers,
        artifact: Artifact \cup {None}, submitted: BOOLEAN,
        receipt: Artifact \cup {None}]
NoRun == [at |-> "none"]

Init ==
  /\ Table!Init
  /\ request = [r \in Requests |->
       [state |-> "ABSENT", artifact |-> None, submitted |-> FALSE]]
  /\ case = [r \in Requests |-> "REVIEW_PENDING"]
  /\ hold = [r \in Requests |-> FALSE]
  /\ certificates = [r \in Requests |-> <<>>]
  /\ signed = [r \in Requests |-> None]
  /\ run = [w \in Workers |-> NoRun]
  /\ resumed = [r \in Requests |-> 0]

-----------------------------------------------------------------------------
(* The case: approval and holds. *)

\* The approving decision creates the request and its job in one transaction.
Approve(r) ==
  /\ case[r] = "REVIEW_PENDING"
  /\ ~hold[r]
  /\ case' = [case EXCEPT ![r] = "APPROVED_PENDING_ISSUE"]
  /\ request' = [request EXCEPT ![r].state = "READY"]
  /\ Table!Enqueue(r, "now")
  /\ UNCHANGED <<hold, certificates, signed, run, resumed>>

CreateHold(r) ==
  /\ case[r] # "COMPLETED"
  /\ ~hold[r]
  /\ hold' = [hold EXCEPT ![r] = TRUE]
  /\ UNCHANGED <<tableVars, request, case, certificates, signed, run, resumed>>

ReleaseHold(r) ==
  /\ hold[r]
  /\ hold' = [hold EXCEPT ![r] = FALSE]
  /\ UNCHANGED <<tableVars, request, case, certificates, signed, run, resumed>>

-----------------------------------------------------------------------------
(* The handler issue_certificate, step by step. *)

\* How the handler's first reads send it on its way.
Admission(r) ==
  CASE request[r].state = "PUBLISHED" -> "obsolete"
    [] request[r].state # "PUBLISHED" /\ case[r] # "APPROVED_PENDING_ISSUE" -> "refused"
    [] request[r].state # "PUBLISHED" /\ case[r] = "APPROVED_PENDING_ISSUE" /\ hold[r] -> "held"
    [] OTHER -> "freeze"

OutcomeOf ==
  [obsolete |-> "SUCCESS", refused |-> "PERMANENT", held |-> "RETRYABLE",
   unavailable |-> "RETRYABLE", failed |-> "PERMANENT", unknown |-> "UNKNOWN", publish |-> "SUCCESS"]

StartHandler(w, c) ==
  LET at == Admission(c.job) IN
  /\ run[w] = NoRun /\ verdict[w] = Table!NoVerdict /\ c \in batch[w]
  /\ run' = [run EXCEPT ![w] = [claim |-> c, at |-> at, artifact |-> None,
                                submitted |-> FALSE, receipt |-> None]]
  /\ IF at = "freeze" THEN UNCHANGED tableVars
                      ELSE Table!HandlerReturns(w, c, OutcomeOf[at])
  /\ UNCHANGED <<request, caseVars, certificates, signed, resumed>>

At(w, step) == run[w] # NoRun /\ run[w].at = step
Of(w) == run[w].claim.job

\* The handler goes on with its next step, or answers: of all it has read, the
\* answer carries only the receipt to publish with.
Proceed(w, step) ==
  /\ run' = [run EXCEPT ![w].at = step]
  /\ UNCHANGED tableVars

Answer(w, answer) ==
  /\ run' = [run EXCEPT ![w] =
       [claim |-> @.claim, at |-> answer, artifact |-> None, submitted |-> FALSE,
        receipt |-> IF answer = "publish" THEN @.receipt ELSE None]]
  /\ Table!HandlerReturns(w, run[w].claim, OutcomeOf[answer])

MutMarked(row, reached) ==
  [state |-> "RECONCILIATION_REQUIRED", artifact |-> row.artifact,
   submitted |-> row.submitted \/ reached]

MutForgets(row, reached) ==
  IF row.state = "PUBLISHED" THEN row
  ELSE [state |-> "RECONCILIATION_REQUIRED", artifact |-> row.artifact,
        submitted |-> row.submitted]

\* The request as _mark leaves it: a published request is left alone, and the
\* signer's request id is kept once the signer may have been reached.
Marked(row, reached) ==
  IF row.state = "PUBLISHED" THEN row
  ELSE [state |-> "RECONCILIATION_REQUIRED", artifact |-> row.artifact,
        submitted |-> row.submitted \/ reached]

Mark(r, reached) == request' = [request EXCEPT ![r] = Marked(@, reached)]

\* The snapshot and the verification token are minted once, under the row lock.
EnsureSnapshot(w) ==
  /\ At(w, "freeze")
  /\ request' = [request EXCEPT ![Of(w)].state =
       IF @ \in {"READY", "RECONCILIATION_REQUIRED"} THEN "PROCESSING" ELSE @]
  /\ Proceed(w, "read")
  /\ UNCHANGED <<caseVars, certificates, signed, resumed>>

\* The row is read again after that transaction; the handler keeps this copy.
ReadBack(w) ==
  LET row == request[Of(w)] IN
  /\ At(w, "read")
  /\ run' = [run EXCEPT ![w] =
       [claim |-> @.claim, artifact |-> row.artifact, submitted |-> row.submitted,
        receipt |-> None,
        at |-> CASE row.artifact = None -> "render"
                 [] row.artifact # None /\ row.submitted -> "sign"
                 [] OTHER -> "submit"]]
  /\ UNCHANGED <<tableVars, request, caseVars, certificates, signed, resumed>>

\* The artifact is stored and the request's reference to it overwritten,
\* whatever happened to the request since it was read.
RenderAndStore(w) ==
  /\ At(w, "render")
  /\ \/ \E a \in Renders :
          /\ request' = [request EXCEPT ![Of(w)].artifact = a]
          /\ run' = [run EXCEPT ![w] =
               [claim |-> @.claim, artifact |-> a, submitted |-> @.submitted, receipt |-> None,
                at |-> IF @.submitted THEN "sign" ELSE "submit"]]
          /\ UNCHANGED tableVars
     \/ Mark(Of(w), FALSE) /\ Answer(w, "failed")
  /\ UNCHANGED <<caseVars, certificates, signed, resumed>>

KeepReceipt(w, x) ==
  /\ run' = [run EXCEPT ![w] = [claim |-> @.claim, at |-> "verify", receipt |-> x,
                                artifact |-> @.artifact, submitted |-> @.submitted]]
  /\ UNCHANGED <<tableVars, request>>

LookUp(w) ==
  /\ At(w, "sign")
  /\ \/ signed[Of(w)] # None /\ KeepReceipt(w, signed[Of(w)])
     \/ signed[Of(w)] = None /\ Proceed(w, "submit") /\ UNCHANGED request
     \/ Mark(Of(w), TRUE) /\ Answer(w, "unknown")
  /\ UNCHANGED <<caseVars, certificates, signed, resumed>>

\* The signer answers with a receipt, refuses, or says nothing: then it may
\* or may not have received the request.
Submit(w) ==
  /\ At(w, "submit")
  /\ \/ \E x \in {run[w].artifact} \cup OtherArtifacts :
          /\ signed' = [signed EXCEPT ![Of(w)] = x]
          /\ \/ KeepReceipt(w, x)
             \/ Mark(Of(w), TRUE) /\ Answer(w, "unknown")
     \/ UNCHANGED signed /\ Mark(Of(w), TRUE) /\ Answer(w, "unknown")
     \/ UNCHANGED signed /\ Mark(Of(w), FALSE) /\ Answer(w, "failed")
  /\ UNCHANGED <<caseVars, certificates, resumed>>

MutVerifies(artifact, receipt) == receipt # None
Verifies(artifact, receipt) == receipt = artifact

Verify(w) ==
  /\ At(w, "verify")
  /\ IF Verifies(run[w].artifact, run[w].receipt)
       THEN Answer(w, "publish") /\ UNCHANGED request
       ELSE Answer(w, "failed") /\ Mark(Of(w), TRUE)
  /\ UNCHANGED <<caseVars, certificates, signed, resumed>>

\* Renderer, object store or signer unavailable, or any exception: retried.
GiveUp(w) ==
  /\ run[w] # NoRun /\ run[w].at \in Steps
  /\ Answer(w, "unavailable")
  /\ UNCHANGED <<request, caseVars, certificates, signed, resumed>>

-----------------------------------------------------------------------------
(* The rest of the worker pass. *)

ClaimDueJobs(w, S) ==
  /\ Table!ClaimDueJobs(w, S)
  /\ UNCHANGED <<request, caseVars, certificates, signed, run, resumed>>

Publishable(r) ==
  /\ request[r].state # "PUBLISHED"
  /\ case[r] = "APPROVED_PENDING_ISSUE"
  /\ request[r].artifact # None

\* publish(): the registry entry is made from the artifact the request refers
\* to now, and the receipt the handler brought.
Publish(r, receipt) ==
  IF Publishable(r)
  THEN /\ certificates' = [certificates EXCEPT ![r] =
            Append(@, [artifact |-> request[r].artifact, receipt |-> receipt])]
       /\ case' = [case EXCEPT ![r] = "COMPLETED"]
       /\ request' = [request EXCEPT ![r] =
            [state |-> "PUBLISHED", artifact |-> @.artifact, submitted |-> TRUE]]
  ELSE /\ request' = [request EXCEPT ![r].state =
            IF @ = "PUBLISHED" THEN @ ELSE "RECONCILIATION_REQUIRED"]
       /\ UNCHANGED <<case, certificates>>

Publishing(w) == At(w, "publish")

Finish(w) ==
  /\ Table!Finish(w)
  /\ IF Publishing(w) THEN Publish(Of(w), run[w].receipt)
                      ELSE UNCHANGED <<request, case, certificates>>
  /\ run' = [run EXCEPT ![w] = NoRun]
  /\ UNCHANGED <<hold, signed, resumed>>

\* The handler's memory goes with its lease, its raising effect or its process.
Drop(w) ==
  /\ Table!LoseLease(w) \/ Table!Crash(w) \/ (Publishing(w) /\ Table!ApplyRaises(w))
  /\ run' = [run EXCEPT ![w] = NoRun]
  /\ UNCHANGED <<request, caseVars, certificates, signed, resumed>>

-----------------------------------------------------------------------------
(* Operator recovery. *)

\* reconcile_issuance takes the job back whatever its state, even from a
\* worker in the middle of its handler: the lease ends, the token stays.
Resume(r) ==
  /\ request[r].state \notin {"ABSENT", "PUBLISHED"}
  /\ request' = [request EXCEPT ![r].state = "PROCESSING"]

ReconcileIssuance(r) ==
  /\ resumed[r] < MaxResumes
  /\ Resume(r)
  /\ job' = [job EXCEPT ![r] = Table!Requeued(@)]
  /\ resumed' = [resumed EXCEPT ![r] = @ + 1]
  /\ UNCHANGED <<attempts, batch, verdict, audit, faults, caseVars, certificates, signed, run>>

ReconcileJob(r) ==
  /\ Resume(r)
  /\ Table!ReconcileJob(r)
  /\ UNCHANGED <<caseVars, certificates, signed, run, resumed>>

RetryJob(r) ==
  /\ Table!RetryJob(r)
  /\ UNCHANGED <<request, caseVars, certificates, signed, run, resumed>>

TimePasses(r) ==
  /\ Table!BecomesDue(r) \/ Table!LeaseExpires(r)
  /\ UNCHANGED <<request, caseVars, certificates, signed, run, resumed>>

-----------------------------------------------------------------------------
(* The specification. *)

HandlerStep(w) ==
  \/ \E c \in batch[w] : StartHandler(w, c)
  \/ EnsureSnapshot(w)
  \/ ReadBack(w)
  \/ RenderAndStore(w)
  \/ LookUp(w)
  \/ Submit(w)
  \/ Verify(w)
  \/ GiveUp(w)

WorkerStep(w) ==
  \/ \E S \in SUBSET Requests : ClaimDueJobs(w, S)
  \/ HandlerStep(w)
  \/ Finish(w)
  \/ Drop(w)

RequestStep(r) ==
  \/ Approve(r)
  \/ CreateHold(r)
  \/ ReleaseHold(r)
  \/ ReconcileIssuance(r)
  \/ ReconcileJob(r)
  \/ RetryJob(r)
  \/ TimePasses(r)

Next == (\E w \in Workers : WorkerStep(w)) \/ (\E r \in Requests : RequestStep(r))

Spec == Init /\ [][Next]_vars

-----------------------------------------------------------------------------
(* Properties. *)

\* Every row and every worker's memory holds values of its column or field.
TypeOK ==
  /\ Table!TypeOK
  /\ request \in [Requests -> RequestRow]
  /\ case \in [Requests -> {"REVIEW_PENDING", "APPROVED_PENDING_ISSUE", "COMPLETED"}]
  /\ hold \in [Requests -> BOOLEAN]
  /\ certificates \in [Requests -> Seq(Certificate)]
  /\ signed \in [Requests -> Artifact \cup {None}]
  /\ run \in [Workers -> Run \cup {NoRun}]
  /\ resumed \in [Requests -> 0..MaxResumes]

\* The job of an approved request is COMPLETE exactly when its certificate is
\* out: an unpublished approval always keeps a job that can still run or that
\* an operator can resume, whatever stale workers wrote to the request.
NoApprovalStranded ==
  \A r \in Requests :
    request[r].state # "ABSENT" =>
      (job[r].state = "COMPLETE" <=> request[r].state = "PUBLISHED")

\* Once an attempt ended without knowing what the signer did, the request
\* remembers that it may have been reached, so every later attempt looks up
\* before it submits, whichever worker or operator starts it.
AmbiguityRemembered ==
  \A r \in Requests : Table!Ended(r, "UNKNOWN") # {} => request[r].submitted

\* The comment "An authorised hold blocks publication too; the job waits
\* (backoff) instead of failing": an attempt that found the case on hold
\* never dead-letters the job.
HoldWaits ==
  [][\A w \in Workers :
       (At(w, "held") /\ run'[w] = NoRun) => job'[Of(w)].state # "DEAD_LETTER"]_vars

Stage(r) ==
  CASE request[r].state = "ABSENT" /\ case[r] = "REVIEW_PENDING" -> "undecided"
    [] request[r].state = "PUBLISHED" /\ case[r] = "COMPLETED" -> "published"
    [] request[r].state \notin {"ABSENT", "PUBLISHED"} /\ case[r] = "APPROVED_PENDING_ISSUE" -> "approved"
    [] OTHER -> "torn"

Document(r) ==
  IF certificates[r] = <<>> THEN None
  ELSE IF Len(certificates[r]) = 1 /\ certificates[r][1].artifact = certificates[r][1].receipt
  THEN certificates[r][1].artifact
  ELSE "torn"

Registry == INSTANCE CertificateRegistry WITH
  Artifacts <- Artifact,
  stage <- [r \in Requests |-> Stage(r)],
  document <- [r \in Requests |-> Document(r)]

\* Request, case and certificate move together, once, and the certificate
\* shows the artifact its receipt signs: issuance implements the registry.
ImplementsRegistry == Registry!Spec
=============================================================================
