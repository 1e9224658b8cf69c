------------------------------ MODULE JobQueue ------------------------------
(***************************************************************************)
(* The durable job table of agni.platform.jobs and its recovery commands.  *)
(*                                                                         *)
(* A worker pass claims a batch of due rows in one transaction, runs the   *)
(* handlers one after the other outside any transaction, and records each  *)
(* result in a transaction of its own, behind the lease fence.  Workers    *)
(* crash, handlers outlive their lease, operators re-queue parked work.    *)
(*                                                                         *)
(* Time is kept only as what the code compares it with: a lease is live or *)
(* has run out, and next_attempt_at has been reached or not.  Operators    *)
(* named Mut... are faulty variants of the definition that follows them,   *)
(* used to show that the properties notice the fault.                      *)
(***************************************************************************)
EXTENDS Naturals, Sequences, FiniteSets

CONSTANTS
  Jobs,          \* logical actions, the identity enqueue_job is idempotent on
  Workers,       \* worker processes
  Reconcilable,  \* the jobs whose kind has a reconciliation procedure
  MaxAttempts,   \* AGNI_JOBS["MAX_ATTEMPTS"]
  ClaimLimit,    \* the limit of one pass
  MaxFaults,     \* bound: crashes, raising applies and leases outlived by a handler
  MaxRequeues    \* bound: recovery commands accepted for one job

ASSUME JobQueueAssumption ==
  /\ IsFiniteSet(Jobs)
  /\ Reconcilable \subseteq Jobs
  /\ MaxAttempts \in Nat \ {0}
  /\ ClaimLimit \in Nat \ {0}
  /\ MaxFaults \in Nat
  /\ MaxRequeues \in Nat

VARIABLES
  job,       \* the logical_job rows
  attempts,  \* the job_attempt rows of a job: the outcome of attempt n
  batch,     \* a worker's claims not yet finished (process memory)
  verdict,   \* what the handler in hand returned, with finish() still to run
  audit,     \* the audit trail: recovery commands accepted for a job, by kind
  faults     \* how many faults have happened

vars == <<job, attempts, batch, verdict, audit, faults>>
workerVars == <<batch, verdict>>

-----------------------------------------------------------------------------
(* Rows and values. *)

JobState == {"ABSENT", "PENDING", "RUNNING", "RETRY_WAIT", "COMPLETE",
             "DEAD_LETTER", "RECONCILIATION_REQUIRED"}
Outcome == {"SUCCESS", "RETRYABLE", "PERMANENT", "UNKNOWN"}
Row == [state: JobState, due: {"never", "later", "now"},
        lease: {"none", "live", "expired"},
        token: Nat, count: Nat, max: Nat]
Claim == [job: Jobs, token: Nat]
Verdict == [claim: Claim, outcome: Outcome, live: BOOLEAN]
NoVerdict == [outcome |-> "none"]

Waiting == {"PENDING", "RETRY_WAIT"}
Parked == {"DEAD_LETTER", "RECONCILIATION_REQUIRED"}

\* The attempts of j that ended with outcome o.
Positions(s, o) == {n \in 1..Len(s) : s[n] = o}
Ended(j, o) == Positions(attempts[j], o)

Init ==
  /\ job = [j \in Jobs |->
              [state |-> "ABSENT", due |-> "never", lease |-> "none",
               token |-> 0, count |-> 0, max |-> MaxAttempts]]
  /\ attempts = [j \in Jobs |-> <<>>]
  /\ batch = [w \in Workers |-> {}]
  /\ verdict = [w \in Workers |-> NoVerdict]
  /\ audit = [j \in Jobs |-> [retried |-> 0, reconciled |-> 0]]
  /\ faults = 0

-----------------------------------------------------------------------------
(* Enqueueing, in the transaction of some command or scheduler pass.        *)
(* Enqueueing the same logical action again finds the row and changes       *)
(* nothing.                                                                 *)

Enqueue(j, due) ==
  /\ job[j].state = "ABSENT"
  /\ job' = [job EXCEPT ![j].state = "PENDING", ![j].due = due]
  /\ UNCHANGED <<attempts, workerVars, audit, faults>>

-----------------------------------------------------------------------------
(* Time. *)

BecomesDue(j) ==
  /\ job[j].due = "later"
  /\ job' = [job EXCEPT ![j].due = "now"]
  /\ UNCHANGED <<attempts, workerVars, audit, faults>>

\* Some worker still remembers a claim under the current token of j.
Held(j) == \E w \in Workers : [job |-> j, token |-> job[j].token] \in batch[w]

\* A lease runs out.  When its worker is gone this is a matter of waiting;
\* when the handlers of the batch take longer than the lease it is a fault.
LeaseExpires(j) ==
  /\ job[j].lease = "live"
  /\ job' = [job EXCEPT ![j].lease = "expired"]
  /\ \/ ~Held(j) /\ UNCHANGED faults
     \/ Held(j) /\ faults < MaxFaults /\ faults' = faults + 1
  /\ UNCHANGED <<attempts, workerVars, audit>>

-----------------------------------------------------------------------------
(* The worker pass. *)

MutClaimable(row) == row.state \in Waiting /\ row.due = "now"

Claimable(row) ==
  \/ row.state \in Waiting /\ row.due = "now"
  \/ row.state = "RUNNING" /\ row.lease = "expired"

Claimed(row) ==
  [state |-> "RUNNING", due |-> row.due, lease |-> "live",
   token |-> row.token + 1, count |-> row.count + 1, max |-> row.max]

\* Rows locked by another transaction are skipped, so any set of claimable
\* rows within the limit may be what this pass takes.
ClaimDueJobs(w, S) ==
  /\ batch[w] = {}
  /\ S # {} /\ Cardinality(S) <= ClaimLimit
  /\ \A j \in S : Claimable(job[j])
  /\ job' = [j \in Jobs |-> IF j \in S THEN Claimed(job[j]) ELSE job[j]]
  /\ attempts' = [j \in Jobs |-> IF j \in S THEN Append(attempts[j], "open")
                                            ELSE attempts[j]]
  /\ batch' = [batch EXCEPT ![w] =
                 {[job |-> j, token |-> job[j].token + 1] : j \in S}]
  /\ UNCHANGED <<verdict, audit, faults>>

\* The handler of one claim returns (an exception counts as RETRYABLE, an
\* unregistered kind as PERMANENT).  The clock is read now, before finish()
\* waits for the row lock.
HandlerReturns(w, c, o) ==
  /\ verdict[w] = NoVerdict
  /\ c \in batch[w]
  /\ verdict' = [verdict EXCEPT ![w] =
       [claim |-> c, outcome |-> o, live |-> job[c.job].lease # "expired"]]
  /\ UNCHANGED <<job, attempts, batch, audit, faults>>

MutFenceOpen(w) == verdict[w].live

\* The lease fence of finish().
FenceOpen(w) ==
  LET c == verdict[w].claim IN
  /\ job[c.job].token = c.token
  /\ job[c.job].lease = "none" \/ verdict[w].live

MutExhausted(row) == row.count > row.max

Exhausted(row) == row.count >= row.max

MutStateAfter(row, o) ==
  CASE o = "SUCCESS" -> "COMPLETE"
    [] o \in {"RETRYABLE", "UNKNOWN"} /\ ~Exhausted(row) -> "RETRY_WAIT"
    [] OTHER -> "DEAD_LETTER"

MutStateName(row, o) == IF o = "SUCCESS" THEN "COMPLETE" ELSE "FAILED"

\* Where an attempt that ended with o leaves the job.
StateAfter(row, o) ==
  CASE o = "SUCCESS" -> "COMPLETE"
    [] o = "RETRYABLE" /\ ~Exhausted(row) -> "RETRY_WAIT"
    [] o = "UNKNOWN" -> "RECONCILIATION_REQUIRED"
    [] OTHER -> "DEAD_LETTER"

\* The row with outcome o recorded and the lease released.
Recorded(row, o) ==
  LET next == StateAfter(row, o) IN
  [state |-> next, due |-> IF next = "RETRY_WAIT" THEN "later" ELSE "never",
   lease |-> "none", token |-> row.token, count |-> row.count, max |-> row.max]

\* The completion transaction: the attempt's outcome, the job row and, on
\* SUCCESS, the business effect commit together.
Finish(w) ==
  /\ verdict[w] # NoVerdict
  /\ FenceOpen(w)
  /\ LET c == verdict[w].claim
         o == verdict[w].outcome
     IN /\ job' = [job EXCEPT ![c.job] = Recorded(@, o)]
        /\ attempts' = [attempts EXCEPT ![c.job][c.token] = o]
        /\ batch' = [batch EXCEPT ![w] = @ \ {c}]
  /\ verdict' = [verdict EXCEPT ![w] = NoVerdict]
  /\ UNCHANGED <<audit, faults>>

\* finish() raises LeaseLost: the pass counts it and takes the next claim.
LoseLease(w) ==
  /\ verdict[w] # NoVerdict
  /\ ~FenceOpen(w)
  /\ batch' = [batch EXCEPT ![w] = @ \ {verdict[w].claim}]
  /\ verdict' = [verdict EXCEPT ![w] = NoVerdict]
  /\ UNCHANGED <<job, attempts, audit, faults>>

\* The process forgets its batch: the rows stay RUNNING under their lease.
AbandonPass(w) ==
  /\ faults < MaxFaults
  /\ faults' = faults + 1
  /\ batch' = [batch EXCEPT ![w] = {}]
  /\ verdict' = [verdict EXCEPT ![w] = NoVerdict]
  /\ UNCHANGED <<job, attempts, audit>>

\* The business effect raises inside finish(): the transaction rolls back and
\* the exception leaves the pass, so the rest of the batch is forgotten too.
ApplyRaises(w) ==
  /\ verdict[w] # NoVerdict
  /\ verdict[w].outcome = "SUCCESS"
  /\ FenceOpen(w)
  /\ AbandonPass(w)

\* The process dies between two transactions, or loses its database.
Crash(w) ==
  /\ batch[w] # {}
  /\ AbandonPass(w)

-----------------------------------------------------------------------------
(* Operator recovery (API-105 and API-106). *)

Maximum(a, b) == IF a >= b THEN a ELSE b

Requeued(row) ==
  [state |-> "PENDING", due |-> "now", lease |-> "none", token |-> row.token,
   count |-> row.count, max |-> Maximum(row.max, row.count + 1)]

LastOutcome(j) == attempts[j][Len(attempts[j])]

MutRetryableFrom == {"DEAD_LETTER", "RETRY_WAIT", "COMPLETE"}

RetryableFrom == {"DEAD_LETTER", "RETRY_WAIT"}

RetryJob(j) ==
  /\ job[j].state \in RetryableFrom
  /\ LastOutcome(j) # "UNKNOWN"
  /\ audit[j].retried < MaxRequeues
  /\ job' = [job EXCEPT ![j] = Requeued(@)]
  /\ audit' = [audit EXCEPT ![j].retried = @ + 1]
  /\ UNCHANGED <<attempts, workerVars, faults>>

ReconcileJob(j) ==
  /\ job[j].state = "RECONCILIATION_REQUIRED"
  /\ j \in Reconcilable
  /\ audit[j].reconciled < MaxRequeues
  /\ job' = [job EXCEPT ![j] = Requeued(@)]
  /\ audit' = [audit EXCEPT ![j].reconciled = @ + 1]
  /\ UNCHANGED <<attempts, workerVars, faults>>

-----------------------------------------------------------------------------
(* The specification. *)

WorkerStep(w) ==
  \/ \E S \in SUBSET Jobs : ClaimDueJobs(w, S)
  \/ \E c \in batch[w], o \in Outcome : HandlerReturns(w, c, o)
  \/ Finish(w)
  \/ LoseLease(w)
  \/ ApplyRaises(w)
  \/ Crash(w)

JobStep(j) ==
  \/ \E due \in {"later", "now"} : Enqueue(j, due)
  \/ BecomesDue(j)
  \/ LeaseExpires(j)
  \/ RetryJob(j)
  \/ ReconcileJob(j)

Next == (\E w \in Workers : WorkerStep(w)) \/ (\E j \in Jobs : JobStep(j))

Spec == Init /\ [][Next]_vars

-----------------------------------------------------------------------------
(* Properties. *)

\* Every row, claim and verdict holds values of its column or field.
TypeOK ==
  /\ job \in [Jobs -> Row]
  /\ attempts \in [Jobs -> Seq(Outcome \cup {"open"})]
  /\ batch \in [Workers -> SUBSET Claim]
  /\ verdict \in [Workers -> Verdict \cup {NoVerdict}]
  /\ audit \in [Jobs -> [retried: Nat, reconciled: Nat]]
  /\ faults \in 0..MaxFaults

\* How often the business effect of j has committed.
Applied(j) == Cardinality(Ended(j, "SUCCESS"))

\* A job is COMPLETE exactly when one of its attempts committed its effect,
\* and never more than one did: workers that lost their lease, crashed passes
\* and operator retries cannot make a business effect happen twice.
EffectExactlyOnce ==
  \A j \in Jobs :
    Applied(j) = IF job[j].state = "COMPLETE" THEN 1 ELSE 0

\* Every ambiguous attempt is answered by its own reconciliation before the
\* job runs again: nothing retries blindly after UNKNOWN.
UnknownAnswered ==
  \A j \in Jobs :
    Cardinality(Ended(j, "UNKNOWN")) =
      audit[j].reconciled + IF job[j].state = "RECONCILIATION_REQUIRED" THEN 1 ELSE 0

\* A job that waits to run has an attempt left, whatever sequence of lost
\* leases, dead letters and operator retries brought it there.
WaitingHasBudget ==
  \A j \in Jobs : job[j].state \in Waiting => job[j].count < job[j].max

\* An outcome is written only on the newest attempt, only over an open one,
\* so a superseded worker never rewrites history.
OutcomeRecordedOnce ==
  [][\A j \in Jobs : \A n \in 1..Len(attempts[j]) :
       attempts'[j][n] # attempts[j][n] =>
         attempts[j][n] = "open" /\ n = Len(attempts[j])]_attempts

\* The attempt cap of the settings: no job starts more attempts than it has.
AttemptCap == \A j \in Jobs : job[j].count <= job[j].max

Phase(j) ==
  CASE job[j].state = "ABSENT" -> "absent"
    [] job[j].state \in Parked -> "parked"
    [] job[j].state = "COMPLETE" -> "done"
    [] OTHER -> "open"

Abstract == INSTANCE ExactlyOnce WITH
  Actions <- Jobs,
  phase <- [j \in Jobs |-> Phase(j)],
  applied <- [j \in Jobs |-> Applied(j)]

\* The job table implements the exactly-once promise about logical actions.
ImplementsExactlyOnce == Abstract!Spec
=============================================================================
