--------------------------- MODULE JobQueueProofs ---------------------------
(***************************************************************************)
(* Theorems about the durable job table, for any number of jobs, workers,  *)
(* faults and recovery commands.                                           *)
(*                                                                         *)
(* The argument rests on one invariant about claims held in process        *)
(* memory: a claim is held by one worker only, its attempt is still open,  *)
(* and while its token is the row's token the row is RUNNING.  The fence   *)
(* of finish() then lets exactly the newest open attempt be written.       *)
(***************************************************************************)
EXTENDS JobQueue, FiniteSetTheorems, SequenceTheorems, TLAPS

-----------------------------------------------------------------------------
(* Positions of an outcome in an attempt history. *)

\* Appending an open attempt leaves the ended ones alone.
LEMMA PositionsAppend ==
  ASSUME NEW s \in Seq(Outcome \cup {"open"}), NEW o \in Outcome
  PROVE  Positions(Append(s, "open"), o) = Positions(s, o)
<1>1. /\ Len(Append(s, "open")) = Len(s) + 1
      /\ \A n \in 1..Len(s) : Append(s, "open")[n] = s[n]
      /\ Append(s, "open")[Len(s) + 1] = "open"
      /\ Len(s) \in Nat
  OBVIOUS
<1>2. "open" # o
  BY DEF Outcome
<1>3. QED
  BY <1>1, <1>2 DEF Positions

\* Writing an outcome over an open attempt adds that attempt to the ones
\* that ended so, and to no other.
LEMMA PositionsWrite ==
  ASSUME NEW s \in Seq(Outcome \cup {"open"}), NEW o \in Outcome, NEW q \in Outcome,
         NEW k \in 1..Len(s), s[k] = "open"
  PROVE  /\ Positions([s EXCEPT ![k] = o], o) = Positions(s, o) \cup {k}
         /\ q # o => Positions([s EXCEPT ![k] = o], q) = Positions(s, q)
         /\ k \notin Positions(s, q)
<1>1. /\ Len([s EXCEPT ![k] = o]) = Len(s)
      /\ \A n \in 1..Len(s) : [s EXCEPT ![k] = o][n] = IF n = k THEN o ELSE s[n]
  OBVIOUS
<1>2. "open" # o /\ "open" # q
  BY DEF Outcome
<1>3. QED
  BY <1>1, <1>2 DEF Positions

\* Writing an outcome keeps a history a history.
LEMMA WriteSeq ==
  ASSUME NEW s \in Seq(Outcome \cup {"open"}), NEW o \in Outcome, NEW k
  PROVE  /\ [s EXCEPT ![k] = o] \in Seq(Outcome \cup {"open"})
         /\ Len([s EXCEPT ![k] = o]) = Len(s)
         /\ \A n \in 1..Len(s) : [s EXCEPT ![k] = o][n] = IF n = k THEN o ELSE s[n]
<1>1. s \in [1..Len(s) -> Outcome \cup {"open"}] /\ Len(s) \in Nat
  OBVIOUS
<1>2. [s EXCEPT ![k] = o] \in [1..Len(s) -> Outcome \cup {"open"}]
  BY <1>1
<1>3. [s EXCEPT ![k] = o] \in Seq(Outcome \cup {"open"})
  BY <1>1, <1>2, SeqDef
<1>4. Len([s EXCEPT ![k] = o]) = Len(s)
  BY <1>1, <1>2, <1>3, LenProperties
<1>5. QED
  BY <1>1, <1>3, <1>4

\* A history has finitely many attempts of each outcome.
LEMMA PositionsFinite ==
  ASSUME NEW s \in Seq(Outcome \cup {"open"}), NEW o
  PROVE  IsFiniteSet(Positions(s, o))
<1>1. Len(s) \in Nat
  OBVIOUS
<1>2. IsFiniteSet(1..Len(s))
  BY <1>1, FS_Interval
<1>3. QED
  BY <1>2, FS_Subset DEF Positions

-----------------------------------------------------------------------------
(* The inductive invariant. *)

\* The row, its history and its lease agree.
RowsCoherent ==
  \A j \in Jobs :
    /\ Len(attempts[j]) = job[j].token
    /\ job[j].state = "RUNNING" =>
         job[j].token # 0 /\ attempts[j][job[j].token] = "open"
    /\ job[j].state \in JobState \ {"RUNNING"} => job[j].lease = "none"
    /\ job[j].state = "ABSENT" => job[j].count < job[j].max

\* A claim in memory points at an open attempt, of a RUNNING row if current.
ClaimsOpen ==
  \A w \in Workers : \A c \in batch[w] :
    /\ c.token \in 1..job[c.job].token
    /\ attempts[c.job][c.token] = "open"
    /\ c.token = job[c.job].token => job[c.job].state = "RUNNING"

\* No two workers hold the same claim.
ClaimsExclusive ==
  \A v, w \in Workers : v # w => batch[v] \cap batch[w] = {}

\* A verdict is about a claim the worker still holds.
VerdictHeld ==
  \A w \in Workers : verdict[w] # NoVerdict => verdict[w].claim \in batch[w]

\* Exactly one attempt of a COMPLETE job succeeded, none of any other job.
SuccessMeansComplete ==
  \A j \in Jobs :
    IF job[j].state = "COMPLETE" THEN \E n \in Nat : Ended(j, "SUCCESS") = {n}
                                 ELSE Ended(j, "SUCCESS") = {}

IInv ==
  /\ TypeOK
  /\ RowsCoherent
  /\ ClaimsOpen
  /\ ClaimsExclusive
  /\ VerdictHeld
  /\ SuccessMeansComplete
  /\ UnknownAnswered
  /\ WaitingHasBudget

-----------------------------------------------------------------------------
(* Type correctness. *)

\* The initial rows are well typed.
LEMMA InitTypeOK == Init => TypeOK
<1> SUFFICES ASSUME Init PROVE TypeOK
  OBVIOUS
<1> USE JobQueueAssumption
<1>1. job \in [Jobs -> Row]
  BY DEF Init, Row, JobState
<1>2. QED
  BY <1>1 DEF Init, TypeOK

\* Claiming, recording an outcome and re-queueing turn a row into a row.
LEMMA RowOperations ==
  ASSUME NEW row \in Row
  PROVE  /\ Claimed(row) \in Row
         /\ Requeued(row) \in Row
         /\ \A o \in Outcome : Recorded(row, o) \in Row
<1>1. \A o \in Outcome : StateAfter(row, o) \in JobState
  BY DEF StateAfter, JobState
<1>2. \A o \in Outcome : Recorded(row, o) \in Row
  BY <1>1 DEF Recorded, Row
<1>3. QED
  BY <1>2 DEF Claimed, Requeued, Maximum, Row, JobState

\* A worker's step keeps every variable in its type.
LEMMA WorkerStepTypeOK ==
  ASSUME TypeOK, NEW w \in Workers, WorkerStep(w)
  PROVE  TypeOK'
<1> USE JobQueueAssumption DEF TypeOK
<1>1. ASSUME NEW S \in SUBSET Jobs, ClaimDueJobs(w, S)
      PROVE  TypeOK'
  <2>2. job' \in [Jobs -> Row]
    BY <1>1, RowOperations DEF ClaimDueJobs
  <2>3. attempts' \in [Jobs -> Seq(Outcome \cup {"open"})]
    <3>1. ASSUME NEW j \in Jobs
          PROVE  Append(attempts[j], "open") \in Seq(Outcome \cup {"open"})
      OBVIOUS
    <3>2. QED
      BY <1>1, <3>1 DEF ClaimDueJobs
  <2>4. {[job |-> j, token |-> job[j].token + 1] : j \in S} \in SUBSET Claim
    <3>1. \A j \in S : job[j].token \in Nat
      BY DEF Row
    <3>2. QED
      BY <3>1 DEF Claim
  <2>5. batch' \in [Workers -> SUBSET Claim]
    BY <1>1, <2>4 DEF ClaimDueJobs
  <2>6. QED
    BY <1>1, <2>2, <2>3, <2>5 DEF ClaimDueJobs
<1>2. ASSUME NEW c \in batch[w], NEW o \in Outcome, HandlerReturns(w, c, o)
      PROVE  TypeOK'
  BY <1>2 DEF HandlerReturns, Verdict
<1>3. CASE Finish(w)
  <2> DEFINE c == verdict[w].claim
             o == verdict[w].outcome
  <2>1. c \in Claim /\ o \in Outcome
    BY <1>3 DEF Finish, Verdict
  <2>2. c.job \in Jobs
    BY <2>1 DEF Claim
  <2>3. job' \in [Jobs -> Row]
    BY <1>3, <2>1, <2>2, RowOperations DEF Finish
  <2>4. attempts' \in [Jobs -> Seq(Outcome \cup {"open"})]
    <3>1. attempts[c.job] \in Seq(Outcome \cup {"open"})
      BY <2>2
    <3>2. [attempts[c.job] EXCEPT ![c.token] = o] \in Seq(Outcome \cup {"open"})
      BY <2>1, <3>1, WriteSeq
    <3>3. attempts' = [attempts EXCEPT ![c.job] = [attempts[c.job] EXCEPT ![c.token] = o]]
      BY <1>3 DEF Finish
    <3>4. QED
      BY <2>2, <3>2, <3>3
  <2>5. batch' \in [Workers -> SUBSET Claim]
    BY <1>3 DEF Finish
  <2>6. QED
    BY <1>3, <2>3, <2>4, <2>5 DEF Finish
<1>4. CASE LoseLease(w)
  BY <1>4 DEF LoseLease
<1>5. CASE ApplyRaises(w) \/ Crash(w)
  <2>1. AbandonPass(w)
    BY <1>5 DEF ApplyRaises, Crash
  <2>2. faults' \in 0..MaxFaults
    BY <2>1 DEF AbandonPass
  <2>3. QED
    BY <2>1, <2>2 DEF AbandonPass
<1>6. QED
  BY <1>1, <1>2, <1>3, <1>4, <1>5 DEF WorkerStep

\* A step of a row outside the workers keeps every variable in its type.
LEMMA JobStepTypeOK ==
  ASSUME TypeOK, NEW j \in Jobs, JobStep(j)
  PROVE  TypeOK'
<1> USE JobQueueAssumption DEF TypeOK
<1>0. job[j] \in Row /\ audit[j] \in [retried: Nat, reconciled: Nat]
  OBVIOUS
<1>1. ASSUME NEW due \in {"later", "now"}, Enqueue(j, due)
      PROVE  TypeOK'
  BY <1>0, <1>1 DEF Enqueue, Row, JobState, workerVars
<1>2. CASE BecomesDue(j)
  BY <1>0, <1>2 DEF BecomesDue, Row, workerVars
<1>3. CASE LeaseExpires(j)
  <2>1. job' \in [Jobs -> Row]
    BY <1>0, <1>3 DEF LeaseExpires, Row
  <2>2. faults' \in 0..MaxFaults
    BY <1>3 DEF LeaseExpires
  <2>3. QED
    BY <1>3, <2>1, <2>2 DEF LeaseExpires, workerVars
<1>5. CASE RetryJob(j) \/ ReconcileJob(j)
  <2>1. job' \in [Jobs -> Row]
    <3>1. Requeued(job[j]) \in Row
      BY <1>0, RowOperations
    <3>2. QED
      BY <1>5, <3>1 DEF RetryJob, ReconcileJob
  <2>2. audit' \in [Jobs -> [retried: Nat, reconciled: Nat]]
    <3>1. /\ [audit[j] EXCEPT !.retried = @ + 1] \in [retried: Nat, reconciled: Nat]
          /\ [audit[j] EXCEPT !.reconciled = @ + 1] \in [retried: Nat, reconciled: Nat]
      BY <1>0
    <3>2. \/ audit' = [audit EXCEPT ![j] = [audit[j] EXCEPT !.retried = @ + 1]]
          \/ audit' = [audit EXCEPT ![j] = [audit[j] EXCEPT !.reconciled = @ + 1]]
      BY <1>5 DEF RetryJob, ReconcileJob
    <3>3. QED
      BY <3>1, <3>2
  <2>3. QED
    BY <1>5, <2>1, <2>2 DEF RetryJob, ReconcileJob, workerVars
<1>6. QED
  BY <1>1, <1>2, <1>3, <1>5 DEF JobStep

\* Every reachable state is well typed.
THEOREM TypeCorrect == Spec => []TypeOK
<1>1. TypeOK /\ [Next]_vars => TypeOK'
  BY WorkerStepTypeOK, JobStepTypeOK DEF Next, vars, TypeOK
<1>2. QED
  BY InitTypeOK, <1>1, PTL DEF Spec

-----------------------------------------------------------------------------
(* The invariant is inductive. *)

\* Nothing has been claimed yet.
LEMMA InitIInv == Init => IInv
<1> SUFFICES ASSUME Init PROVE IInv
  OBVIOUS
<1>1. TypeOK
  BY InitTypeOK
<1>2. \A j \in Jobs, o \in Outcome : Ended(j, o) = {}
  BY DEF Init, Ended, Positions
<1>3. RowsCoherent
  BY JobQueueAssumption DEF Init, RowsCoherent, JobState
<1>4. ClaimsOpen /\ ClaimsExclusive /\ VerdictHeld
  BY DEF Init, ClaimsOpen, ClaimsExclusive, VerdictHeld
<1>5. SuccessMeansComplete
  BY <1>2 DEF Init, SuccessMeansComplete, Outcome
<1>6. UnknownAnswered
  <2>1. \A j \in Jobs : Cardinality(Ended(j, "UNKNOWN")) = 0
    BY <1>2, FS_EmptySet DEF Outcome
  <2>2. \A j \in Jobs : audit[j].reconciled = 0 /\ job[j].state = "ABSENT"
    BY DEF Init
  <2>3. QED
    BY <2>1, <2>2 DEF UnknownAnswered
<1>7. WaitingHasBudget
  BY JobQueueAssumption DEF Init, WaitingHasBudget, Waiting
<1>8. QED
  BY <1>1, <1>3, <1>4, <1>5, <1>6, <1>7 DEF IInv

\* A claim raises the token of rows nobody may finish any more, and appends
\* an open attempt to their history.
LEMMA ClaimIInv ==
  ASSUME IInv, NEW w \in Workers, NEW S \in SUBSET Jobs, ClaimDueJobs(w, S)
  PROVE  IInv'
<1>1. TypeOK /\ TypeOK'
  BY WorkerStepTypeOK DEF IInv, WorkerStep
<1>2. /\ \A j \in Jobs : job[j].token \in Nat
      /\ \A j \in Jobs : Len(attempts[j]) = job[j].token
      /\ \A j \in Jobs : attempts[j] \in Seq(Outcome \cup {"open"})
  BY <1>1 DEF IInv, RowsCoherent, TypeOK, Row
<1>3. \A j \in Jobs :
        job'[j] = IF j \in S THEN Claimed(job[j]) ELSE job[j]
  BY DEF ClaimDueJobs
<1>4. \A j \in S : /\ job'[j].state = "RUNNING" /\ job'[j].lease = "live"
                    /\ job'[j].token = job[j].token + 1
                    /\ job[j].state # "COMPLETE"
                    /\ job[j].state # "RECONCILIATION_REQUIRED"
  BY <1>3 DEF ClaimDueJobs, Claimed, Claimable, Waiting
<1>5. \A j \in Jobs : j \notin S => job'[j] = job[j] /\ attempts'[j] = attempts[j]
  BY <1>3 DEF ClaimDueJobs
<1>6. \A j \in S : /\ attempts'[j] = Append(attempts[j], "open")
                    /\ Len(attempts'[j]) = job[j].token + 1
                    /\ attempts'[j][job[j].token + 1] = "open"
                    /\ \A n \in 1..job[j].token : attempts'[j][n] = attempts[j][n]
  BY <1>2 DEF ClaimDueJobs
<1>7. \A j \in Jobs, o \in Outcome : Ended(j, o)' = Ended(j, o)
  BY <1>2, <1>5, <1>6, PositionsAppend DEF Ended
<1>8. RowsCoherent'
  BY <1>2, <1>4, <1>5, <1>6 DEF IInv, RowsCoherent
<1>9. ASSUME NEW v \in Workers, NEW c \in batch[v]
      PROVE  /\ c \in Claim
             /\ c.token \in 1..job[c.job].token
             /\ attempts[c.job][c.token] = "open"
  BY <1>1 DEF IInv, ClaimsOpen, TypeOK
<1>10. \A v \in Workers :
         batch'[v] = IF v = w THEN {[job |-> j, token |-> job[j].token + 1] : j \in S}
                              ELSE batch[v]
  BY <1>1 DEF ClaimDueJobs, TypeOK
<1>11. ClaimsOpen'
  <2> SUFFICES ASSUME NEW v \in Workers, NEW c \in batch'[v]
               PROVE  /\ c.token \in 1..job'[c.job].token
                      /\ attempts'[c.job][c.token] = "open"
                      /\ c.token = job'[c.job].token => job'[c.job].state = "RUNNING"
    BY DEF ClaimsOpen
  <2>1. CASE v = w
    <3>1. PICK j \in S : c = [job |-> j, token |-> job[j].token + 1]
      BY <2>1, <1>10
    <3>2. QED
      BY <3>1, <1>2, <1>4, <1>6
  <2>2. CASE v # w
    <3>1. c \in batch[v]
      BY <2>2, <1>10
    <3>1a. c.job \in Jobs /\ c.token \in Nat
      BY <3>1, <1>9 DEF Claim
    <3>2. CASE c.job \in S
      BY <3>1, <3>1a, <3>2, <1>2, <1>4, <1>6, <1>9, SMTT(30)
    <3>3. CASE c.job \notin S
      BY <3>1, <3>1a, <3>3, <1>5, <1>9 DEF IInv, ClaimsOpen
    <3>4. QED
      BY <3>2, <3>3
  <2>3. QED
    BY <2>1, <2>2
<1>12. ClaimsExclusive'
  <2>1. ASSUME NEW v \in Workers, NEW c \in batch[v], NEW j \in S
        PROVE  c # [job |-> j, token |-> job[j].token + 1]
    <3>1. c.token \in 1..job[c.job].token /\ c.job \in Jobs
      BY <1>9 DEF Claim
    <3>2. job[c.job].token < job[c.job].token + 1 /\ job[j].token \in Nat
      BY <3>1, <1>2
    <3>3. QED
      BY <3>1, <3>2, <1>2
  <2>2. \A u, v \in Workers : u # v => batch[u] \cap batch[v] = {}
    BY DEF IInv, ClaimsExclusive
  <2>3. ASSUME NEW u \in Workers, NEW v \in Workers, u # v, NEW c \in batch'[u]
        PROVE  c \notin batch'[v]
    <3>1. CASE u = w
      BY <3>1, <2>1, <2>3, <1>10, ZenonT(30)
    <3>2. CASE v = w
      BY <3>2, <2>1, <2>3, <1>10, ZenonT(30)
    <3>3. CASE u # w /\ v # w
      BY <3>3, <2>2, <2>3, <1>10
    <3>4. QED
      BY <3>1, <3>2, <3>3
  <2>4. QED
    BY <2>3 DEF ClaimsExclusive
<1>13. VerdictHeld'
  <2>1. verdict[w] = NoVerdict
    BY DEF IInv, VerdictHeld, ClaimDueJobs
  <2>2. QED
    BY <2>1, <1>10 DEF IInv, VerdictHeld, ClaimDueJobs
<1>14. SuccessMeansComplete'
  <2>1. "SUCCESS" \in Outcome
    BY DEF Outcome
  <2>2. QED
    BY <2>1, <1>4, <1>5, <1>7 DEF IInv, SuccessMeansComplete
<1>15. UnknownAnswered'
  <2>1. "UNKNOWN" \in Outcome /\ audit' = audit
    BY DEF Outcome, ClaimDueJobs
  <2>2. QED
    BY <2>1, <1>4, <1>5, <1>7 DEF IInv, UnknownAnswered
<1>16. WaitingHasBudget'
  BY <1>4, <1>5 DEF IInv, WaitingHasBudget, Waiting
<1>17. QED
  BY <1>1, <1>8, <1>11, <1>12, <1>13, <1>14, <1>15, <1>16 DEF IInv

\* A step that leaves the rows, the histories and the audit trail alone, and
\* at most forgets claims, keeps the invariant.
LEMMA ForgetIInv ==
  ASSUME IInv, TypeOK', UNCHANGED <<job, attempts, audit>>,
         \A w \in Workers : batch'[w] \subseteq batch[w],
         VerdictHeld'
  PROVE  IInv'
<1>1. \A j \in Jobs, o \in Outcome : Ended(j, o)' = Ended(j, o)
  BY DEF Ended
<1>2. RowsCoherent' /\ WaitingHasBudget'
  BY DEF IInv, RowsCoherent, WaitingHasBudget
<1>3. ClaimsOpen' /\ ClaimsExclusive'
  BY DEF IInv, ClaimsOpen, ClaimsExclusive
<1>4. SuccessMeansComplete' /\ UnknownAnswered'
  BY <1>1 DEF IInv, SuccessMeansComplete, UnknownAnswered, Outcome
<1>5. QED
  BY <1>2, <1>3, <1>4 DEF IInv

\* A row is inserted for a logical action that had none.
Inserted(old, new) ==
  /\ old.state = "ABSENT" /\ new.state = "PENDING"
  /\ new.lease = old.lease /\ new.token = old.token
  /\ new.count = old.count /\ new.max = old.max

\* Worker w records outcome o of claim c under an open fence, whatever rows
\* the effect inserts in the same transaction.
Completes(w, c, o) ==
  /\ verdict[w] # NoVerdict /\ FenceOpen(w)
  /\ c = verdict[w].claim /\ o = verdict[w].outcome
  /\ job'[c.job] = Recorded(job[c.job], o)
  /\ \A j \in Jobs : j # c.job => job'[j] = job[j] \/ Inserted(job[j], job'[j])
  /\ attempts' = [attempts EXCEPT ![c.job][c.token] = o]
  /\ batch' = [batch EXCEPT ![w] = @ \ {c}]
  /\ verdict' = [verdict EXCEPT ![w] = NoVerdict]
  /\ UNCHANGED audit

\* A completion closes the newest attempt of a RUNNING row.
LEMMA CompletionIInv ==
  ASSUME IInv, TypeOK', NEW w \in Workers, NEW c, NEW o, Completes(w, c, o)
  PROVE  IInv'
<1> USE DEF Completes
<1>k. PICK k : k = job[c.job].token
  OBVIOUS
<1>1. TypeOK /\ TypeOK'
  BY DEF IInv
<1>2. c \in batch[w] /\ c \in Claim /\ o \in Outcome
  BY <1>1 DEF IInv, VerdictHeld, TypeOK, Verdict
<1>3. /\ c.job \in Jobs /\ c.token = k /\ k \in Nat
      /\ attempts[c.job] \in Seq(Outcome \cup {"open"})
      /\ Len(attempts[c.job]) = k /\ k \in 1..Len(attempts[c.job])
      /\ attempts[c.job][k] = "open"
      /\ job[c.job].state = "RUNNING"
  <2>1. c.token = k /\ c.job \in Jobs
    BY <1>2, <1>k DEF FenceOpen, Claim
  <2>2. k \in Nat /\ attempts[c.job] \in Seq(Outcome \cup {"open"})
    <3>1. job[c.job] \in Row
      BY <1>1, <2>1 DEF TypeOK
    <3>2. QED
      BY <1>1, <1>k, <2>1, <3>1 DEF TypeOK, Row
  <2>3. c.token \in 1..k /\ attempts[c.job][c.token] = "open" /\ job[c.job].state = "RUNNING"
    BY <1>2, <1>k, <2>1 DEF IInv, ClaimsOpen
  <2>4. Len(attempts[c.job]) = k
    BY <2>1, <1>k DEF IInv, RowsCoherent
  <2>5. QED
    BY <2>1, <2>2, <2>3, <2>4
<1>4. /\ job'[c.job] = Recorded(job[c.job], o)
      /\ attempts'[c.job] = [attempts[c.job] EXCEPT ![k] = o]
      /\ \A j \in Jobs : j # c.job =>
           /\ attempts'[j] = attempts[j]
           /\ job'[j] = job[j] \/ Inserted(job[j], job'[j])
           /\ job'[j].token = job[j].token
           /\ \A s \in {"RUNNING", "COMPLETE", "RECONCILIATION_REQUIRED"} :
                job'[j].state = s <=> job[j].state = s
  <2>1. attempts'[c.job] = [attempts[c.job] EXCEPT ![k] = o]
        /\ \A j \in Jobs : j # c.job => attempts'[j] = attempts[j]
    BY <1>1, <1>3 DEF TypeOK
  <2>2. QED
    BY <2>1 DEF Inserted
<1>5. /\ job'[c.job].state = StateAfter(job[c.job], o)
      /\ job'[c.job].token = k
      /\ job'[c.job].count = job[c.job].count
      /\ job'[c.job].max = job[c.job].max
      /\ job'[c.job].lease = "none"
  <2>1. PICK row : row = job[c.job]
    OBVIOUS
  <2>2. job'[c.job] = Recorded(row, o)
    BY <1>4, <2>1
  <2>3. /\ Recorded(row, o).state = StateAfter(row, o)
        /\ Recorded(row, o).lease = "none"
        /\ Recorded(row, o).token = row.token
        /\ Recorded(row, o).count = row.count
        /\ Recorded(row, o).max = row.max
    BY DEF Recorded
  <2>4. QED
    BY <2>1, <2>2, <2>3, <1>k
<1>6. job'[c.job].state \notin {"RUNNING", "PENDING", "ABSENT"}
  BY <1>5 DEF StateAfter
<1>7. /\ Len(attempts'[c.job]) = k
      /\ \A n \in 1..k : n # k => attempts'[c.job][n] = attempts[c.job][n]
  BY <1>2, <1>3, <1>4, WriteSeq
<1>8. RowsCoherent'
  <2>1. ASSUME NEW j \in Jobs, j # c.job
        PROVE  /\ Len(attempts'[j]) = job'[j].token
               /\ job'[j].state = "RUNNING" =>
                    job'[j].token # 0 /\ attempts'[j][job'[j].token] = "open"
               /\ job'[j].state \in JobState \ {"RUNNING"} => job'[j].lease = "none"
               /\ job'[j].state = "ABSENT" => job'[j].count < job'[j].max
    <3>1. attempts'[j] = attempts[j]
      BY <1>4, <2>1
    <3>2. CASE job'[j] = job[j]
      BY <3>1, <3>2 DEF IInv, RowsCoherent
    <3>3. CASE Inserted(job[j], job'[j])
      <4>1. /\ job[j].state = "ABSENT" /\ job'[j].state = "PENDING"
            /\ job'[j].lease = job[j].lease /\ job'[j].token = job[j].token
        BY <3>3 DEF Inserted
      <4>2. Len(attempts[j]) = job[j].token /\ job[j].lease = "none"
        BY <4>1 DEF IInv, RowsCoherent, JobState
      <4>3. "PENDING" # "RUNNING" /\ "PENDING" # "ABSENT"
        OBVIOUS
      <4>4. QED
        BY <3>1, <4>1, <4>2, <4>3
    <3>4. QED
      BY <1>4, <2>1, <3>2, <3>3
  <2>2. /\ Len(attempts'[c.job]) = job'[c.job].token
        /\ job'[c.job].state \notin {"RUNNING", "ABSENT"}
        /\ job'[c.job].lease = "none"
    BY <1>5, <1>6, <1>7
  <2>3. QED
    BY <2>1, <2>2 DEF RowsCoherent
<1>9. \A v \in Workers : batch'[v] = IF v = w THEN batch[w] \ {c} ELSE batch[v]
  BY <1>1 DEF TypeOK
<1>10. \A v \in Workers : c \notin batch'[v]
  BY <1>2, <1>9 DEF IInv, ClaimsExclusive
<1>11. ClaimsOpen'
  <2> SUFFICES ASSUME NEW v \in Workers, NEW d \in batch'[v]
               PROVE  /\ d.token \in 1..job'[d.job].token
                      /\ attempts'[d.job][d.token] = "open"
                      /\ d.token = job'[d.job].token => job'[d.job].state = "RUNNING"
    BY DEF ClaimsOpen
  <2>1. d \in batch[v] /\ d \in Claim /\ d # c
    BY <1>1, <1>9, <1>10 DEF TypeOK
  <2>2. /\ d.token \in 1..job[d.job].token
        /\ attempts[d.job][d.token] = "open"
        /\ d.token = job[d.job].token => job[d.job].state = "RUNNING"
    BY <2>1 DEF IInv, ClaimsOpen
  <2>3. CASE d.job = c.job
    <3>1. d.token # k
      BY <2>1, <2>3, <1>2, <1>3 DEF Claim
    <3>2. QED
      <4>1. d.token \in 1..k /\ attempts[c.job][d.token] = "open"
        BY <2>2, <2>3, <1>k
      <4>2. attempts'[c.job][d.token] = "open"
        BY <4>1, <3>1, <1>7
      <4>3. QED
        BY <4>1, <4>2, <2>3, <3>1, <1>5
  <2>4. CASE d.job # c.job
    <3>1. /\ attempts'[d.job] = attempts[d.job] /\ job'[d.job].token = job[d.job].token
          /\ job'[d.job].state = "RUNNING" <=> job[d.job].state = "RUNNING"
      BY <2>1, <2>4, <1>4 DEF Claim
    <3>2. QED
      BY <3>1, <2>2
  <2>5. QED
    BY <2>3, <2>4
<1>12. ClaimsExclusive'
  BY <1>9 DEF IInv, ClaimsExclusive
<1>13. VerdictHeld'
  <2>1. \A v \in Workers : v # w => verdict'[v] = verdict[v] /\ batch'[v] = batch[v]
    BY <1>1, <1>9 DEF TypeOK
  <2>2. verdict'[w] = NoVerdict
    BY <1>1 DEF TypeOK
  <2>3. QED
    BY <2>1, <2>2 DEF IInv, VerdictHeld
<1>14. /\ Ended(c.job, o)' = Ended(c.job, o) \cup {k}
       /\ \A q \in Outcome : /\ q # o => Ended(c.job, q)' = Ended(c.job, q)
                             /\ k \notin Ended(c.job, q)
  <2>1. PICK s : s = attempts[c.job]
    OBVIOUS
  <2>2. s \in Seq(Outcome \cup {"open"}) /\ k \in 1..Len(s) /\ s[k] = "open" /\ o \in Outcome
    BY <2>1, <1>2, <1>3, <1>4
  <2>3. attempts'[c.job] = [s EXCEPT ![k] = o]
    BY <2>1, <1>4
  <2>4. ASSUME NEW q \in Outcome
        PROVE  /\ Positions([s EXCEPT ![k] = o], o) = Positions(s, o) \cup {k}
               /\ q # o => Positions([s EXCEPT ![k] = o], q) = Positions(s, q)
               /\ k \notin Positions(s, q)
    BY <2>2, PositionsWrite
  <2>5. QED
    BY <2>1, <2>2, <2>3, <2>4 DEF Ended
<1>15. \A j \in Jobs, q \in Outcome : j # c.job => Ended(j, q)' = Ended(j, q)
  BY <1>4 DEF Ended
<1>16. SuccessMeansComplete'
  <2>1. Ended(c.job, "SUCCESS") = {}
    BY <1>3 DEF IInv, SuccessMeansComplete
  <2>2. CASE o = "SUCCESS"
    <3>1. job'[c.job].state = "COMPLETE" /\ Ended(c.job, "SUCCESS")' = {k}
      BY <2>1, <2>2, <1>5, <1>14 DEF StateAfter
    <3>2. ASSUME NEW j \in Jobs, j # c.job
          PROVE  /\ job'[j].state = "COMPLETE" <=> job[j].state = "COMPLETE"
                 /\ Ended(j, "SUCCESS")' = Ended(j, "SUCCESS")
      BY <2>2, <3>2, <1>2, <1>4, <1>15
    <3>3. QED
      BY <3>1, <3>2, <1>3 DEF IInv, SuccessMeansComplete
  <2>3. CASE o # "SUCCESS"
    <3>1. job'[c.job].state # "COMPLETE"
      BY <2>3, <1>5 DEF StateAfter
    <3>2. Ended(c.job, "SUCCESS")' = {}
      BY <2>1, <2>3, <1>14 DEF Outcome
    <3>3. "SUCCESS" \in Outcome
      BY DEF Outcome
    <3>4. QED
      BY <3>1, <3>2, <3>3, <1>4, <1>15 DEF IInv, SuccessMeansComplete
  <2>4. QED
    BY <2>2, <2>3
<1>17. UnknownAnswered'
  <2> SUFFICES ASSUME NEW j \in Jobs
               PROVE  Cardinality(Ended(j, "UNKNOWN")') = audit[j].reconciled
                        + IF job'[j].state = "RECONCILIATION_REQUIRED" THEN 1 ELSE 0
    BY DEF UnknownAnswered
  <2>1. "UNKNOWN" \in Outcome
    BY DEF Outcome
  <2>2. Cardinality(Ended(j, "UNKNOWN")) = audit[j].reconciled
          + IF job[j].state = "RECONCILIATION_REQUIRED" THEN 1 ELSE 0
    BY DEF IInv, UnknownAnswered
  <2>3. CASE j # c.job
    BY <2>1, <2>2, <2>3, <1>4, <1>15
  <2>4. CASE j = c.job /\ o = "UNKNOWN"
    <3>1. IsFiniteSet(Ended(j, "UNKNOWN"))
      BY <2>4, <1>3, PositionsFinite DEF Ended
    <3>2. Cardinality(Ended(j, "UNKNOWN") \cup {k}) = Cardinality(Ended(j, "UNKNOWN")) + 1
      BY <2>1, <2>4, <3>1, <1>14, FS_AddElement
    <3>3. job'[j].state = "RECONCILIATION_REQUIRED"
      BY <2>4, <1>5 DEF StateAfter
    <3>4. audit[j].reconciled \in Nat
      BY <1>1 DEF TypeOK
    <3>5. Ended(j, "UNKNOWN")' = Ended(j, "UNKNOWN") \cup {k}
      BY <2>4, <1>14
    <3>6. Cardinality(Ended(j, "UNKNOWN")) = audit[j].reconciled
      BY <2>2, <2>4, <3>4, <1>3
    <3>7. QED
      BY <3>2, <3>3, <3>4, <3>5, <3>6
  <2>5. CASE j = c.job /\ o # "UNKNOWN"
    <3>1. job'[j].state # "RECONCILIATION_REQUIRED"
      BY <2>5, <1>5 DEF StateAfter
    <3>2. Ended(j, "UNKNOWN")' = Ended(j, "UNKNOWN")
      BY <2>1, <2>5, <1>14
    <3>3. QED
      BY <2>2, <2>5, <3>1, <3>2, <1>3
  <2>6. QED
    BY <2>3, <2>4, <2>5
<1>18. WaitingHasBudget'
  <2>1. job'[c.job].state \in Waiting => job'[c.job].count < job'[c.job].max
    <3>1. job[c.job].count \in Nat /\ job[c.job].max \in Nat
      BY <1>1, <1>3 DEF TypeOK, Row
    <3>2. StateAfter(job[c.job], o) \in Waiting => ~Exhausted(job[c.job])
      BY DEF StateAfter, Waiting
    <3>3. ~Exhausted(job[c.job]) => job[c.job].count < job[c.job].max
      BY <3>1 DEF Exhausted
    <3>4. QED
      BY <3>2, <3>3, <1>5
  <2>2. ASSUME NEW j \in Jobs, j # c.job, job'[j].state \in Waiting
        PROVE  job'[j].count < job'[j].max
    BY <2>2, <1>4 DEF IInv, WaitingHasBudget, RowsCoherent, Inserted
  <2>3. QED
    BY <2>1, <2>2 DEF WaitingHasBudget
<1>19. QED
  BY <1>1, <1>8, <1>11, <1>12, <1>13, <1>16, <1>17, <1>18 DEF IInv

LEMMA FinishIInv ==
  ASSUME IInv, NEW w \in Workers, Finish(w)
  PROVE  IInv'
<1>1. PICK c, o : c = verdict[w].claim /\ o = verdict[w].outcome
  OBVIOUS
<1>2. TypeOK'
  BY WorkerStepTypeOK DEF IInv, WorkerStep
<1>3. c \in Claim /\ c.job \in Jobs
  BY <1>1 DEF IInv, TypeOK, Finish, Verdict, Claim
<1>4. /\ verdict[w] # NoVerdict /\ FenceOpen(w)
      /\ job' = [job EXCEPT ![c.job] = Recorded(@, o)]
      /\ attempts' = [attempts EXCEPT ![c.job][c.token] = o]
      /\ batch' = [batch EXCEPT ![w] = @ \ {c}]
      /\ verdict' = [verdict EXCEPT ![w] = NoVerdict]
      /\ UNCHANGED audit
  BY <1>1 DEF Finish
<1>5. /\ job'[c.job] = Recorded(job[c.job], o)
      /\ \A j \in Jobs : j # c.job => job'[j] = job[j]
  BY <1>3, <1>4 DEF IInv, TypeOK
<1>6. Completes(w, c, o)
  BY <1>1, <1>4, <1>5 DEF Completes
<1>7. QED
  BY <1>2, <1>6, CompletionIInv

\* A step of one row that neither starts nor ends an attempt.
LEMMA RowIInv ==
  ASSUME IInv, TypeOK', NEW j \in Jobs,
         UNCHANGED <<attempts, batch, verdict>>,
         \A i \in Jobs : i # j => job'[i] = job[i] /\ audit'[i] = audit[i],
         job'[j].token = job[j].token,
         job'[j].state = "ABSENT" => job'[j].count < job'[j].max,
         job[j].state = "RUNNING" <=> job'[j].state = "RUNNING",
         job'[j].state # "RUNNING" => job'[j].lease = "none",
         job'[j].state = "COMPLETE" <=> job[j].state = "COMPLETE",
         job'[j].state \in Waiting => job'[j].count < job'[j].max,
         audit'[j].reconciled
           + (IF job'[j].state = "RECONCILIATION_REQUIRED" THEN 1 ELSE 0) =
         audit[j].reconciled
           + (IF job[j].state = "RECONCILIATION_REQUIRED" THEN 1 ELSE 0)
  PROVE  IInv'
<1>1. \A i \in Jobs : Ended(i, "SUCCESS")' = Ended(i, "SUCCESS")
                     /\ Ended(i, "UNKNOWN")' = Ended(i, "UNKNOWN")
  BY DEF Ended
<1>2. RowsCoherent' /\ WaitingHasBudget'
  BY DEF IInv, RowsCoherent, WaitingHasBudget
<1>3. ClaimsOpen'
  <2> SUFFICES ASSUME NEW w \in Workers, NEW c \in batch[w]
               PROVE  /\ c.token \in 1..job'[c.job].token
                      /\ attempts[c.job][c.token] = "open"
                      /\ c.token = job'[c.job].token => job'[c.job].state = "RUNNING"
    BY DEF ClaimsOpen
  <2>1. c.job \in Jobs
    BY DEF IInv, TypeOK, Claim
  <2>2. job'[c.job].token = job[c.job].token
        /\ (job[c.job].state = "RUNNING" <=> job'[c.job].state = "RUNNING")
    BY <2>1
  <2>3. QED
    BY <2>2 DEF IInv, ClaimsOpen
<1>4. ClaimsExclusive' /\ VerdictHeld'
  BY DEF IInv, ClaimsExclusive, VerdictHeld
<1>5. SuccessMeansComplete' /\ UnknownAnswered'
  BY <1>1 DEF IInv, SuccessMeansComplete, UnknownAnswered
<1>6. QED
  BY <1>2, <1>3, <1>4, <1>5 DEF IInv

\* Enqueueing, time passing and operator recovery keep the invariant.
LEMMA JobStepIInv ==
  ASSUME IInv, NEW j \in Jobs, JobStep(j)
  PROVE  IInv'
<1>1. TypeOK /\ TypeOK' /\ job[j] \in Row /\ audit[j] \in [retried: Nat, reconciled: Nat]
  BY JobStepTypeOK DEF IInv, TypeOK
<1>2. job[j].count \in Nat /\ job[j].max \in Nat /\ job[j].state \in JobState
  BY <1>1 DEF Row
<1>3. job[j].state # "RUNNING" => job[j].lease = "none"
  BY <1>2 DEF IInv, RowsCoherent
<1>4. job[j].state \in Waiting => job[j].count < job[j].max
  BY DEF IInv, WaitingHasBudget
<1>4a. job[j].state = "ABSENT" => job[j].count < job[j].max
  BY DEF IInv, RowsCoherent
<1>5. ASSUME NEW due \in {"later", "now"}, Enqueue(j, due)
      PROVE  IInv'
  <2>1. /\ job'[j].token = job[j].token /\ job'[j].lease = job[j].lease
        /\ job'[j].count = job[j].count /\ job'[j].max = job[j].max
        /\ job[j].state = "ABSENT" /\ job'[j].state = "PENDING"
        /\ \A i \in Jobs : i # j => job'[i] = job[i]
    BY <1>1, <1>5 DEF Enqueue, TypeOK, Row
  <2>2. UNCHANGED <<attempts, batch, verdict, audit>>
    BY <1>5 DEF Enqueue, workerVars
  <2>3. QED
    BY <1>1, <1>3, <1>4a, <2>1, <2>2, RowIInv
<1>6. CASE BecomesDue(j) \/ LeaseExpires(j)
  <2>1. /\ job'[j].token = job[j].token /\ job'[j].state = job[j].state
        /\ job'[j].count = job[j].count /\ job'[j].max = job[j].max
        /\ \A i \in Jobs : i # j => job'[i] = job[i]
    BY <1>1, <1>6 DEF BecomesDue, LeaseExpires, TypeOK, Row
  <2>2. job[j].state # "RUNNING" => job'[j].lease = "none"
    BY <1>1, <1>3, <1>6 DEF BecomesDue, LeaseExpires, TypeOK, Row
  <2>3. UNCHANGED <<attempts, batch, verdict, audit>>
    BY <1>6 DEF BecomesDue, LeaseExpires, workerVars
  <2>4. QED
    BY <1>1, <1>4, <1>4a, <2>1, <2>2, <2>3, RowIInv
<1>7. ASSUME job' = [job EXCEPT ![j] = Requeued(@)]
      PROVE  /\ job'[j].token = job[j].token
             /\ job'[j].state = "PENDING" /\ job'[j].lease = "none"
             /\ job'[j].count < job'[j].max
             /\ \A i \in Jobs : i # j => job'[i] = job[i]
  BY <1>1, <1>2, <1>7 DEF Requeued, Maximum, TypeOK
<1>8. CASE RetryJob(j)
  <2>1. /\ job[j].state \in {"DEAD_LETTER", "RETRY_WAIT"}
        /\ job' = [job EXCEPT ![j] = Requeued(@)]
        /\ UNCHANGED <<attempts, batch, verdict>>
        /\ audit'[j].reconciled = audit[j].reconciled
        /\ \A i \in Jobs : i # j => audit'[i] = audit[i]
    BY <1>1, <1>8 DEF RetryJob, RetryableFrom, TypeOK, workerVars
  <2>2. QED
    BY <1>1, <1>7, <2>1, RowIInv
<1>9. CASE ReconcileJob(j)
  <2>1. /\ job[j].state = "RECONCILIATION_REQUIRED"
        /\ job' = [job EXCEPT ![j] = Requeued(@)]
        /\ UNCHANGED <<attempts, batch, verdict>>
        /\ audit'[j].reconciled = audit[j].reconciled + 1
        /\ \A i \in Jobs : i # j => audit'[i] = audit[i]
    BY <1>1, <1>9 DEF ReconcileJob, TypeOK, workerVars
  <2>2. QED
    BY <1>1, <1>7, <2>1, RowIInv
<1>10. QED
  BY <1>5, <1>6, <1>8, <1>9 DEF JobStep

\* Every step keeps the invariant.
LEMMA StepIInv == IInv /\ [Next]_vars => IInv'
<1> SUFFICES ASSUME IInv, [Next]_vars PROVE IInv'
  OBVIOUS
<1>1. ASSUME NEW w \in Workers, WorkerStep(w)
      PROVE  IInv'
  <2>1. TypeOK /\ TypeOK'
    BY <1>1, WorkerStepTypeOK DEF IInv
  <2>2. ASSUME NEW S \in SUBSET Jobs, ClaimDueJobs(w, S)
        PROVE  IInv'
    BY <2>2, ClaimIInv
  <2>3. ASSUME NEW c \in batch[w], NEW o \in Outcome, HandlerReturns(w, c, o)
        PROVE  IInv'
    <3>1. /\ UNCHANGED <<job, attempts, batch, audit>>
          /\ verdict'[w].claim = c
          /\ \A v \in Workers : v # w => verdict'[v] = verdict[v]
      BY <2>1, <2>3 DEF HandlerReturns, TypeOK
    <3>2. VerdictHeld'
      BY <3>1 DEF IInv, VerdictHeld
    <3>3. QED
      BY <2>1, <3>1, <3>2, ForgetIInv
  <2>4. CASE Finish(w)
    BY <2>4, FinishIInv
  <2>5. CASE LoseLease(w) \/ ApplyRaises(w) \/ Crash(w)
    <3>1. /\ UNCHANGED <<job, attempts, audit>>
          /\ batch'[w] \subseteq batch[w]
          /\ verdict'[w] = NoVerdict
          /\ \A v \in Workers : v # w => batch'[v] = batch[v] /\ verdict'[v] = verdict[v]
      BY <2>1, <2>5 DEF LoseLease, ApplyRaises, Crash, AbandonPass, TypeOK
    <3>2. VerdictHeld'
      BY <3>1 DEF IInv, VerdictHeld
    <3>3. QED
      BY <2>1, <3>1, <3>2, ForgetIInv
  <2>6. QED
    BY <1>1, <2>2, <2>3, <2>4, <2>5 DEF WorkerStep
<1>2. ASSUME NEW j \in Jobs, JobStep(j)
      PROVE  IInv'
  BY <1>2, JobStepIInv
<1>3. CASE UNCHANGED vars
  <2>1. TypeOK' /\ VerdictHeld' /\ UNCHANGED <<job, attempts, batch, audit>>
    BY <1>3 DEF vars, IInv, TypeOK, VerdictHeld
  <2>2. QED
    BY <2>1, ForgetIInv
<1>4. QED
  BY <1>1, <1>2, <1>3 DEF Next

\* IInv holds in every reachable state.
THEOREM InvariantHolds == Spec => []IInv
BY InitIInv, StepIInv, PTL DEF Spec

-----------------------------------------------------------------------------
(* What the invariant is for. *)

\* The set of successful attempts has one member or none.
LEMMA EffectFromIInv == IInv => EffectExactlyOnce
<1> SUFFICES ASSUME IInv, NEW j \in Jobs
             PROVE  Applied(j) = IF job[j].state = "COMPLETE" THEN 1 ELSE 0
  BY DEF EffectExactlyOnce
<1>1. CASE job[j].state = "COMPLETE"
  BY <1>1, FS_Singleton DEF IInv, SuccessMeansComplete, Applied
<1>2. CASE job[j].state # "COMPLETE"
  BY <1>2, FS_EmptySet DEF IInv, SuccessMeansComplete, Applied
<1>3. QED
  BY <1>1, <1>2

\* Exactly-once effects: a job is COMPLETE exactly when one attempt committed
\* its business effect, and no job ever has two such attempts.
THEOREM EffectsHappenOnce == Spec => []EffectExactlyOnce
BY EffectFromIInv, InvariantHolds, PTL

\* No blind retry: ambiguous attempts and reconciliations match one to one.
THEOREM UnknownsAreAnswered == Spec => []UnknownAnswered
<1>1. IInv => UnknownAnswered
  BY DEF IInv
<1>2. QED
  BY <1>1, InvariantHolds, PTL

\* A job waits to run only while it has an attempt left.
THEOREM WaitingJobsHaveBudget == Spec => []WaitingHasBudget
<1>1. IInv => WaitingHasBudget
  BY DEF IInv
<1>2. QED
  BY <1>1, InvariantHolds, PTL

\* What a completion writes: the newest attempt, which was open, of a RUNNING
\* row; nothing else changes.
LEMMA FinishWrites ==
  ASSUME IInv, NEW w \in Workers, Finish(w)
  PROVE  \E j \in Jobs, k \in Nat, o \in Outcome :
           /\ k = Len(attempts[j]) /\ k # 0 /\ attempts[j][k] = "open"
           /\ attempts' = [attempts EXCEPT ![j] = [attempts[j] EXCEPT ![k] = o]]
           /\ job' = [job EXCEPT ![j] = Recorded(job[j], o)]
           /\ job[j].state = "RUNNING"
<1> DEFINE c == verdict[w].claim
           o == verdict[w].outcome
<1>1. TypeOK
  BY DEF IInv
<1>2. c \in batch[w] /\ c \in Claim /\ o \in Outcome
  BY <1>1 DEF IInv, VerdictHeld, Finish, TypeOK, Verdict
<1>3. c.job \in Jobs /\ c.token \in Nat /\ c.token = job[c.job].token
  BY <1>2 DEF Finish, FenceOpen, Claim
<1>4. /\ c.token \in 1..job[c.job].token /\ attempts[c.job][c.token] = "open"
      /\ job[c.job].state = "RUNNING"
      /\ Len(attempts[c.job]) = job[c.job].token
  BY <1>2, <1>3 DEF IInv, ClaimsOpen, RowsCoherent
<1>5. /\ job' = [job EXCEPT ![c.job] = Recorded(job[c.job], o)]
      /\ attempts' = [attempts EXCEPT ![c.job] = [attempts[c.job] EXCEPT ![c.token] = o]]
  BY DEF Finish
<1>6. c.token = Len(attempts[c.job]) /\ c.token # 0
  BY <1>3, <1>4
<1>7. QED
  BY <1>2, <1>3, <1>4, <1>5, <1>6

\* Fencing: an outcome is written once, on the newest attempt only.
THEOREM OutcomesAreFenced == Spec => OutcomeRecordedOnce
<1> DEFINE Fenced == \A j \in Jobs : \A n \in 1..Len(attempts[j]) :
             attempts'[j][n] # attempts[j][n] =>
               attempts[j][n] = "open" /\ n = Len(attempts[j])
<1>1. ASSUME IInv, Next
      PROVE  Fenced \/ attempts' = attempts
  <2>1. ASSUME NEW w \in Workers, NEW S \in SUBSET Jobs, ClaimDueJobs(w, S)
        PROVE  Fenced
    <3>1. \A j \in Jobs : attempts[j] \in Seq(Outcome \cup {"open"})
      BY <1>1 DEF IInv, TypeOK
    <3>2. \A j \in Jobs : attempts'[j] = IF j \in S THEN Append(attempts[j], "open")
                                                   ELSE attempts[j]
      BY <2>1 DEF ClaimDueJobs
    <3>3. ASSUME NEW j \in Jobs, NEW n \in 1..Len(attempts[j])
          PROVE  Append(attempts[j], "open")[n] = attempts[j][n]
      BY <3>1
    <3>4. QED
      BY <3>2, <3>3
  <2>2. ASSUME NEW w \in Workers, Finish(w)
        PROVE  Fenced
    <3>1. PICK j \in Jobs, k \in Nat, o \in Outcome :
            /\ k = Len(attempts[j]) /\ attempts[j][k] = "open"
            /\ attempts' = [attempts EXCEPT ![j] = [attempts[j] EXCEPT ![k] = o]]
      BY <1>1, <2>2, FinishWrites
    <3>2. \A i \in Jobs : attempts[i] \in Seq(Outcome \cup {"open"})
      BY <1>1 DEF IInv, TypeOK
    <3>3. /\ attempts'[j] = [attempts[j] EXCEPT ![k] = o]
          /\ \A i \in Jobs : i # j => attempts'[i] = attempts[i]
      BY <1>1, <3>1 DEF IInv, TypeOK
    <3>4. \A n \in 1..Len(attempts[j]) : n # k => attempts'[j][n] = attempts[j][n]
      BY <3>2, <3>3, WriteSeq
    <3>5. QED
      BY <3>1, <3>3, <3>4
  <2>3. QED
    BY <1>1, <2>1, <2>2
    DEF Next, WorkerStep, JobStep, HandlerReturns, LoseLease, ApplyRaises, Crash,
        AbandonPass, Enqueue, BecomesDue, LeaseExpires, RetryJob, ReconcileJob
<1>2. IInv /\ [Next]_vars => [Fenced]_attempts
  BY <1>1 DEF vars
<1>3. QED
  BY <1>2, InvariantHolds, PTL DEF Spec, OutcomeRecordedOnce

-----------------------------------------------------------------------------
(* The job table implements the exactly-once promise. *)

\* One row moves through the abstract phases and everything else stays: the
\* abstract step of that action, or none when its phase stays too.
LEMMA MappedMove ==
  ASSUME NEW j \in Jobs,
         \A i \in Jobs : i # j => Phase(i)' = Phase(i) /\ Applied(i)' = Applied(i),
         \/ Phase(j)' = Phase(j) /\ Applied(j)' = Applied(j)
         \/ /\ Applied(j)' = Applied(j)
            /\ <<Phase(j), Phase(j)'>> \in
                 {<<"absent", "open">>, <<"open", "parked">>, <<"parked", "open">>}
         \/ /\ Applied(j)' = Applied(j) + 1
            /\ Phase(j) = "open" /\ Phase(j)' = "done"
  PROVE  [Abstract!Next]_(Abstract!vars)
<1> DEFINE ph == [i \in Jobs |-> Phase(i)]
           ap == [i \in Jobs |-> Applied(i)]
<1>1. ph' = [ph EXCEPT ![j] = Phase(j)'] /\ ap' = [ap EXCEPT ![j] = Applied(j)']
  OBVIOUS
<1>2. ph[j] = Phase(j) /\ ap[j] = Applied(j)
  OBVIOUS
<1>3. CASE Phase(j)' = Phase(j) /\ Applied(j)' = Applied(j)
  <2>1. ph' = ph /\ ap' = ap
    BY <1>1, <1>3
  <2>2. QED
    BY <2>1 DEF Abstract!vars
<1>4. CASE Applied(j)' = Applied(j) /\ Phase(j) = "absent" /\ Phase(j)' = "open"
  <2>1. ap' = ap /\ ph[j] = Phase(j) /\ ph' = [ph EXCEPT ![j] = Phase(j)']
    BY <1>1, <1>2, <1>4
  <2>2. Abstract!Submit(j)
    BY <2>1, <1>4 DEF Abstract!Submit, Abstract!Move
  <2>3. QED
    BY <2>2 DEF Abstract!Next
<1>5. CASE Applied(j)' = Applied(j) /\ Phase(j) = "open" /\ Phase(j)' = "parked"
  <2>1. ap' = ap /\ ph[j] = Phase(j) /\ ph' = [ph EXCEPT ![j] = Phase(j)']
    BY <1>1, <1>2, <1>5
  <2>2. Abstract!Park(j)
    BY <2>1, <1>5 DEF Abstract!Park, Abstract!Move
  <2>3. QED
    BY <2>2 DEF Abstract!Next
<1>6. CASE Applied(j)' = Applied(j) /\ Phase(j) = "parked" /\ Phase(j)' = "open"
  <2>1. ap' = ap /\ ph[j] = Phase(j) /\ ph' = [ph EXCEPT ![j] = Phase(j)']
    BY <1>1, <1>2, <1>6
  <2>2. Abstract!Resume(j)
    BY <2>1, <1>6 DEF Abstract!Resume, Abstract!Move
  <2>3. QED
    BY <2>2 DEF Abstract!Next
<1>7. CASE Applied(j)' = Applied(j) + 1 /\ Phase(j) = "open" /\ Phase(j)' = "done"
  <2>1. Abstract!Commit(j)
    BY <1>1, <1>2, <1>7 DEF Abstract!Commit, Abstract!Move
  <2>2. QED
    BY <2>1 DEF Abstract!Next
<1>8. QED
  BY <1>3, <1>4, <1>5, <1>6, <1>7

\* Steps that keep every job's state column and history are invisible.
LEMMA MappedStutter ==
  ASSUME \A j \in Jobs : Phase(j)' = Phase(j) /\ Applied(j)' = Applied(j)
  PROVE  [Abstract!Next]_(Abstract!vars)
<1>1. /\ [j \in Jobs |-> Phase(j)]' = [j \in Jobs |-> Phase(j)]
      /\ [j \in Jobs |-> Applied(j)]' = [j \in Jobs |-> Applied(j)]
  OBVIOUS
<1>2. QED
  BY <1>1 DEF Abstract!vars

\* A completion commits, parks or retries the one job it is about.
LEMMA FinishMaps ==
  ASSUME IInv, IInv', NEW w \in Workers, Finish(w)
  PROVE  [Abstract!Next]_(Abstract!vars)
<1>1. PICK j \in Jobs, k \in Nat, o \in Outcome :
        /\ k = Len(attempts[j]) /\ k # 0 /\ attempts[j][k] = "open"
        /\ attempts' = [attempts EXCEPT ![j] = [attempts[j] EXCEPT ![k] = o]]
        /\ job' = [job EXCEPT ![j] = Recorded(job[j], o)]
        /\ job[j].state = "RUNNING"
  BY FinishWrites
<1>2. /\ job'[j].state = StateAfter(job[j], o)
      /\ attempts'[j] = [attempts[j] EXCEPT ![k] = o]
      /\ \A i \in Jobs : i # j => job'[i] = job[i] /\ attempts'[i] = attempts[i]
  BY <1>1 DEF IInv, TypeOK, Recorded
<1>3. \A i \in Jobs : i # j => Phase(i)' = Phase(i) /\ Applied(i)' = Applied(i)
  BY <1>2 DEF Phase, Applied, Ended
<1>4. Phase(j) = "open"
  BY <1>1 DEF Phase, Parked
<1>5. EffectExactlyOnce /\ EffectExactlyOnce'
  BY EffectFromIInv, PTL
<1>6. Applied(j) = 0
  BY <1>1, <1>5 DEF EffectExactlyOnce
<1>7. CASE o = "SUCCESS"
  <2>1. job'[j].state = "COMPLETE"
    BY <1>2, <1>7 DEF StateAfter
  <2>2. Phase(j)' = "done" /\ Applied(j)' = 1
    BY <2>1, <1>5 DEF Phase, Parked, EffectExactlyOnce
  <2>3. QED
    BY <2>2, <1>3, <1>4, <1>6, MappedMove
<1>8. CASE o # "SUCCESS"
  <2>1. job'[j].state \in {"RETRY_WAIT", "RECONCILIATION_REQUIRED", "DEAD_LETTER"}
    BY <1>2, <1>8 DEF StateAfter
  <2>2. Phase(j)' \in {"open", "parked"} /\ Applied(j)' = 0
    BY <2>1, <1>5 DEF Phase, Parked, EffectExactlyOnce
  <2>3. QED
    BY <2>2, <1>3, <1>4, <1>6, MappedMove
<1>9. QED
  BY <1>7, <1>8

\* Every other step of a row submits it, resumes it or is invisible.
LEMMA JobStepMaps ==
  ASSUME IInv, NEW j \in Jobs, JobStep(j)
  PROVE  [Abstract!Next]_(Abstract!vars)
<1>1. attempts' = attempts
  BY DEF JobStep, Enqueue, BecomesDue, LeaseExpires, RetryJob, ReconcileJob
<1>2. \A i \in Jobs : Applied(i)' = Applied(i)
  BY <1>1 DEF Applied, Ended
<1>3. \A i \in Jobs : i # j => job'[i] = job[i]
  BY DEF IInv, TypeOK, JobStep, Enqueue, BecomesDue, LeaseExpires, RetryJob, ReconcileJob
<1>4. <<Phase(j), Phase(j)'>> \in
        {<<"absent", "open">>, <<"parked", "open">>, <<"open", "open">>}
      \/ Phase(j)' = Phase(j)
  <2>1. job[j] \in Row
    BY DEF IInv, TypeOK
  <2>2. CASE \E due \in {"later", "now"} : Enqueue(j, due)
    <3>1. job[j].state = "ABSENT" /\ job'[j].state = "PENDING"
      BY <2>1, <2>2 DEF IInv, TypeOK, Enqueue, Row
    <3>2. QED
      BY <3>1 DEF Phase, Parked
  <2>3. CASE BecomesDue(j) \/ LeaseExpires(j)
    <3>1. job'[j].state = job[j].state
      BY <2>1, <2>3 DEF IInv, TypeOK, BecomesDue, LeaseExpires, Row
    <3>2. QED
      BY <3>1 DEF Phase
  <2>4. CASE RetryJob(j) \/ ReconcileJob(j)
    <3>1. job[j].state \in Parked \cup {"RETRY_WAIT"} /\ job'[j].state = "PENDING"
      BY <2>4 DEF IInv, TypeOK, RetryJob, ReconcileJob, RetryableFrom, Requeued, Parked
    <3>2. QED
      BY <3>1 DEF Phase, Parked
  <2>5. QED
    BY <2>2, <2>3, <2>4 DEF JobStep
<1>5. \A i \in Jobs : i # j => Phase(i)' = Phase(i)
  BY <1>3 DEF Phase
<1>6. QED
  BY <1>2, <1>4, <1>5, MappedMove

\* Refinement: the table implements the exactly-once promise.
THEOREM TableImplementsExactlyOnce == Spec => ImplementsExactlyOnce
<1>1. Init => Abstract!Init
  <2> SUFFICES ASSUME Init PROVE Abstract!Init
    OBVIOUS
  <2>1. \A j \in Jobs : Phase(j) = "absent"
    BY DEF Init, Phase, Parked
  <2>2. \A j \in Jobs : Ended(j, "SUCCESS") = {}
    BY DEF Init, Ended, Positions
  <2>3. QED
    BY <2>1, <2>2, FS_EmptySet DEF Abstract!Init, Applied
<1>2. ASSUME IInv, IInv', [Next]_vars
      PROVE  [Abstract!Next]_(Abstract!vars)
  <2>1. ASSUME NEW w \in Workers, NEW S \in SUBSET Jobs, ClaimDueJobs(w, S)
        PROVE  [Abstract!Next]_(Abstract!vars)
    <3>1. ASSUME NEW j \in Jobs
          PROVE  Phase(j)' = Phase(j)
      <4>1. job'[j] = IF j \in S THEN Claimed(job[j]) ELSE job[j]
        BY <2>1 DEF ClaimDueJobs
      <4>2. j \in S => job[j].state \in Waiting \cup {"RUNNING"}
        BY <2>1 DEF ClaimDueJobs, Claimable
      <4>3. QED
        BY <4>1, <4>2 DEF Claimed, Waiting, Phase, Parked
    <3>2. ASSUME NEW j \in Jobs
          PROVE  Applied(j)' = Applied(j)
      <4>1. attempts'[j] = IF j \in S THEN Append(attempts[j], "open") ELSE attempts[j]
        BY <2>1 DEF ClaimDueJobs
      <4>2. attempts[j] \in Seq(Outcome \cup {"open"}) /\ "SUCCESS" \in Outcome
        BY <1>2 DEF IInv, TypeOK, Outcome
      <4>3. Ended(j, "SUCCESS")' = Ended(j, "SUCCESS")
        BY <4>1, <4>2, PositionsAppend DEF Ended
      <4>4. QED
        BY <4>3 DEF Applied
    <3>3. QED
      BY <3>1, <3>2, MappedStutter
  <2>2. ASSUME NEW w \in Workers, Finish(w)
        PROVE  [Abstract!Next]_(Abstract!vars)
    BY <1>2, <2>2, FinishMaps
  <2>3. ASSUME UNCHANGED <<job, attempts>>
        PROVE  [Abstract!Next]_(Abstract!vars)
    <3>1. \A j \in Jobs : Phase(j)' = Phase(j) /\ Applied(j)' = Applied(j)
      BY <2>3 DEF Phase, Applied, Ended
    <3>2. QED
      BY <3>1, MappedStutter
  <2>4. ASSUME NEW j \in Jobs, JobStep(j)
        PROVE  [Abstract!Next]_(Abstract!vars)
    BY <1>2, <2>4, JobStepMaps
  <2>5. QED
    BY <1>2, <2>1, <2>2, <2>3, <2>4
    DEF Next, WorkerStep, HandlerReturns, LoseLease, ApplyRaises, Crash, AbandonPass, vars
<1>3. QED
  BY <1>1, <1>2, InvariantHolds, PTL DEF Spec, ImplementsExactlyOnce, Abstract!Spec
=============================================================================
