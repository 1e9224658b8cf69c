---------------------------- MODULE OutboxProofs ----------------------------
(***************************************************************************)
(* Theorems about the outbox and its deliveries, for any number of         *)
(* intents, recipients, workers, faults and requeues.                      *)
(*                                                                         *)
(* The argument: an outbox row, its notifications and the rows of its      *)
(* deliveries change only in the completion transaction of its fan-out     *)
(* job, which the fence lets through once, so a delivery is scheduled only *)
(* where none was.  What a worker learned inside the delivery handler, that *)
(* a provider took the message, stays true while it waits for the fence.   *)
(***************************************************************************)
EXTENDS Outbox, TLAPS

\* The lemmas about the job table, for the table of fan-outs and deliveries.
P == INSTANCE JobQueueProofs WITH Jobs <- AllJobs, Reconcilable <- {}

-----------------------------------------------------------------------------
(* The inductive invariant. *)

\* A delivery has a job only after the fan-out of its intent.
DeliveriesFollow ==
  \A d \in Deliveries : job[d].state # "ABSENT" => outbox[d[1]] = "COMPLETE"

\* What the rows call sent went out.
RowsTellSent ==
  \A d \in Deliveries : delivery[d] = "ACCEPTED_BY_PROVIDER" => sent[d] > 0

\* A verdict is the answer of the handler that holds the claim, and a verdict
\* of success about a delivery says that a provider took it.
RunHeld(w) ==
  IF run[w] = NoRun
  THEN /\ verdict[w] # Table!NoVerdict /\ verdict[w].outcome = "SUCCESS"
       /\ verdict[w].claim.job \in Deliveries
       => sent[verdict[w].claim.job] > 0
  ELSE /\ run[w].claim \in batch[w] /\ run[w].claim.job \in Deliveries
       /\ run[w].at = "accepted" => sent[run[w].claim.job] > 0
       /\ IF run[w].at \in {"accepted", "done"}
          THEN /\ verdict[w] # Table!NoVerdict /\ verdict[w].claim = run[w].claim
               /\ verdict[w].outcome = "SUCCESS" <=> run[w].at = "accepted"
          ELSE verdict[w] = Table!NoVerdict

IInv ==
  /\ TypeOK
  /\ P!IInv
  /\ FanOutComplete
  /\ DeliveriesFollow
  /\ RowsTellSent
  /\ CompleteMeansSent
  /\ \A w \in Workers : RunHeld(w)

-----------------------------------------------------------------------------
(* The job table, as JobQueueProofs knows it. *)

LEMMA TableAssumed ==
  /\ P!IsFiniteSet(AllJobs) /\ {} \subseteq AllJobs
  /\ MaxAttempts \in Nat \ {0} /\ ClaimLimit \in Nat \ {0}
  /\ MaxFaults \in Nat /\ MaxRequeues \in Nat
BY TableAssumption DEF TableAssumption, Table!JobQueueAssumption, Table!IsFiniteSet, P!IsFiniteSet

LEMMA SameTable ==
  /\ Table!TypeOK <=> P!TypeOK
  /\ \A row \in Table!Row, o \in Table!Outcome : Table!Recorded(row, o) \in Table!Row
  /\ \A row \in Table!Row : Table!Requeued(row) \in Table!Row /\ Table!Claimed(row) \in Table!Row
<1>1. Table!Row = P!Row /\ Table!Outcome = P!Outcome
  BY DEF Table!Row, P!Row, Table!JobState, P!JobState, Table!Outcome, P!Outcome
<1>2. \A row, o : Table!Recorded(row, o) = P!Recorded(row, o)
  BY DEF Table!Recorded, P!Recorded, Table!StateAfter, P!StateAfter, Table!Exhausted, P!Exhausted
<1>3. \A row : Table!Requeued(row) = P!Requeued(row) /\ Table!Claimed(row) = P!Claimed(row)
  BY DEF Table!Requeued, P!Requeued, Table!Claimed, P!Claimed, Table!Maximum, P!Maximum
<1>4. Table!TypeOK <=> P!TypeOK
  BY <1>1
  DEF Table!TypeOK, P!TypeOK, Table!Claim, P!Claim, Table!Verdict, P!Verdict,
    Table!NoVerdict, P!NoVerdict, Table!Outcome, P!Outcome
<1>5. QED
  BY <1>1, <1>2, <1>3, <1>4, TableAssumed, P!RowOperations

\* A step of a worker or of a row is the same step of the table in JobQueueProofs.
LEMMA SameWorkerStep ==
  ASSUME NEW w \in Workers, Table!WorkerStep(w)
  PROVE  P!WorkerStep(w)
<1>1. ASSUME NEW S \in SUBSET AllJobs, Table!ClaimDueJobs(w, S)
      PROVE  P!ClaimDueJobs(w, S)
  BY <1>1
  DEF Table!ClaimDueJobs, P!ClaimDueJobs, Table!Claimable, P!Claimable, Table!Claimed, P!Claimed,
    Table!Waiting, P!Waiting, Table!Cardinality, P!Cardinality, Table!IsFiniteSet, P!IsFiniteSet
<1>2. ASSUME NEW c \in batch[w], NEW o \in Table!Outcome, Table!HandlerReturns(w, c, o)
      PROVE  o \in P!Outcome /\ P!HandlerReturns(w, c, o)
  BY <1>2
  DEF Table!HandlerReturns, P!HandlerReturns, Table!NoVerdict, P!NoVerdict, Table!Outcome, P!Outcome
<1>3. Table!FenceOpen(w) <=> P!FenceOpen(w)
  BY DEF Table!FenceOpen, P!FenceOpen
<1>4. \A row, o : Table!Recorded(row, o) = P!Recorded(row, o)
  BY DEF Table!Recorded, P!Recorded, Table!StateAfter, P!StateAfter, Table!Exhausted, P!Exhausted
<1>5. CASE Table!Finish(w)
  <2>1. P!Finish(w)
    BY <1>3, <1>4, <1>5 DEF Table!Finish, P!Finish, Table!NoVerdict, P!NoVerdict
  <2>2. QED
    BY <2>1 DEF P!WorkerStep
<1>6. CASE Table!LoseLease(w) \/ Table!ApplyRaises(w) \/ Table!Crash(w)
  <2>1. P!LoseLease(w) \/ P!ApplyRaises(w) \/ P!Crash(w)
    BY <1>3, <1>6
    DEF Table!LoseLease, P!LoseLease, Table!ApplyRaises, P!ApplyRaises, Table!Crash, P!Crash,
      Table!AbandonPass, P!AbandonPass, Table!NoVerdict, P!NoVerdict
  <2>2. QED
    BY <2>1 DEF P!WorkerStep
<1>7. QED
  BY <1>1, <1>2, <1>5, <1>6 DEF Table!WorkerStep, P!WorkerStep

LEMMA SameJobStep ==
  ASSUME NEW j \in AllJobs, Table!JobStep(j)
  PROVE  P!JobStep(j)
<1>1. ASSUME NEW due \in {"later", "now"}, Table!Enqueue(j, due)
      PROVE  P!Enqueue(j, due)
  BY <1>1 DEF Table!Enqueue, P!Enqueue, Table!workerVars, P!workerVars
<1>2. CASE Table!BecomesDue(j) \/ Table!LeaseExpires(j)
  BY <1>2
  DEF P!JobStep, Table!BecomesDue, P!BecomesDue, Table!LeaseExpires, P!LeaseExpires,
    Table!Held, P!Held, Table!workerVars, P!workerVars
<1>3. CASE Table!RetryJob(j) \/ Table!ReconcileJob(j)
  BY <1>3
  DEF P!JobStep, Table!RetryJob, P!RetryJob, Table!ReconcileJob, P!ReconcileJob,
    Table!RetryableFrom, P!RetryableFrom, Table!LastOutcome, P!LastOutcome,
    Table!Requeued, P!Requeued, Table!Maximum, P!Maximum, Table!workerVars, P!workerVars
<1>4. QED
  BY <1>1, <1>2, <1>3 DEF Table!JobStep, P!JobStep

\* Typed rows are the same in both, before and after a step.
LEMMA SameTyping == (Table!TypeOK <=> P!TypeOK) /\ (Table!TypeOK <=> P!TypeOK)'
<1>1. Table!TypeOK <=> P!TypeOK
  BY SameTable
<1>2. QED
  BY <1>1, PTL

\* So a step of the table keeps the invariant of the table.
LEMMA TableKept ==
  ASSUME IInv,
         \/ \E w \in Workers : Table!WorkerStep(w)
         \/ \E j \in AllJobs : Table!JobStep(j)
         \/ UNCHANGED tableVars
  PROVE  P!IInv' /\ Table!TypeOK'
<1>1. P!Next \/ UNCHANGED P!vars
  BY SameWorkerStep, SameJobStep DEF P!Next, P!vars, P!workerVars, tableVars
<1>2. P!IInv'
  BY <1>1, TableAssumed, P!StepIInv DEF IInv
<1>3. QED
  BY <1>2, SameTyping DEF P!IInv

-----------------------------------------------------------------------------
(* The jobs of an intent. *)

LEMMA Shape ==
  /\ \A m \in Messages : /\ Fan(m) \in AllJobs /\ Fan(m) \notin Deliveries /\ Fan(m)[1] = m
                         /\ \A n \in Messages : Fan(m) = Fan(n) => m = n
  /\ \A d \in Deliveries : /\ d \in AllJobs /\ d[1] \in Messages /\ d[2] \in Reachable
                           /\ d[2] \in People /\ d = <<d[1], d[2]>> /\ d # Fan(d[1])
BY OutboxAssumption DEF OutboxAssumption, AllJobs, Fan, Deliveries

\* A worker inside the handler.
LEMMA InHandler ==
  ASSUME TypeOK, NEW w \in Workers, run[w] # NoRun
  PROVE  /\ run[w] \in [claim: Table!Claim, at: {"read", "send", "accepted", "done"}]
         /\ run[w].claim \in Table!Claim /\ run[w].claim.job \in AllJobs
<1>1. run[w] \in [claim: Table!Claim, at: {"read", "send", "accepted", "done"}]
  BY DEF TypeOK
<1>2. run[w].claim \in Table!Claim
  BY <1>1
<1>3. QED
  BY <1>1, <1>2 DEF Table!Claim

-----------------------------------------------------------------------------
(* Initially. *)

LEMMA InitInv == Init => IInv
<1> SUFFICES ASSUME Init PROVE IInv
  OBVIOUS
<1>1. P!IInv
  <2>1. P!Init
    BY DEF Init, Table!Init, P!Init, Table!NoVerdict, P!NoVerdict
  <2>2. QED
    BY <2>1, TableAssumed, P!InitIInv
<1>2. TypeOK
  <2>1. Table!TypeOK
    BY <1>1, SameTyping DEF P!IInv
  <2>2. /\ outbox \in [Messages -> OutboxState] /\ delivery \in [Deliveries -> DeliveryState]
        /\ run \in [Workers -> {NoRun} \cup
             [claim: Table!Claim, at: {"read", "send", "accepted", "done"}]]
    BY DEF Init, OutboxState, DeliveryState
  <2>3. QED
    BY <2>1, <2>2 DEF Init, TypeOK
<1>3. \A j \in AllJobs : job[j].state = "ABSENT"
  BY DEF Init, Table!Init
<1>4. FanOutComplete
  BY <1>3, Shape DEF Init, FanOutComplete
<1>5. DeliveriesFollow /\ RowsTellSent /\ CompleteMeansSent
  BY <1>3, Shape DEF Init, DeliveriesFollow, RowsTellSent, CompleteMeansSent
<1>6. \A w \in Workers : RunHeld(w)
  BY DEF Init, Table!Init, RunHeld
<1>7. QED
  BY <1>1, <1>2, <1>4, <1>5, <1>6 DEF IInv

-----------------------------------------------------------------------------
(* Steps that complete nothing. *)

\* No intent, fan-out or delivery completes, and nothing sent is unsent.
Quiet ==
  /\ \A m \in Messages : outbox'[m] = "COMPLETE" <=> outbox[m] = "COMPLETE"
  /\ notifications' = notifications
  /\ \A j \in AllJobs : job'[j].state = "COMPLETE" <=> job[j].state = "COMPLETE"
  /\ \A d \in Deliveries :
       /\ job'[d].state # "ABSENT" => job[d].state # "ABSENT"
       /\ delivery'[d] = "ACCEPTED_BY_PROVIDER" => delivery[d] = "ACCEPTED_BY_PROVIDER"
       /\ sent[d] > 0 => sent'[d] > 0

LEMMA QuietKeeps ==
  ASSUME IInv, TypeOK', P!IInv', Quiet, \A w \in Workers : RunHeld(w)'
  PROVE  IInv'
<1> USE Shape DEF IInv, Quiet
<1>1. FanOutComplete'
  BY DEF FanOutComplete
<1>2. DeliveriesFollow'
  BY DEF DeliveriesFollow
<1>3. RowsTellSent'
  BY DEF RowsTellSent
<1>4. CompleteMeansSent'
  BY DEF CompleteMeansSent
<1>5. QED
  BY <1>1, <1>2, <1>3, <1>4

\* A worker that the step does not concern.
LEMMA HeldElsewhere ==
  ASSUME IInv, NEW v \in Workers,
         run'[v] = run[v], verdict'[v] = verdict[v], batch'[v] = batch[v],
         \A d \in Deliveries : sent[d] > 0 => sent'[d] > 0
  PROVE  RunHeld(v)'
BY DEF IInv, RunHeld

\* The table may move a row that is neither complete nor absent, and the
\* outbox, the deliveries and the handlers stay as they are.
LEMMA RowStepKeeps ==
  ASSUME IInv,
         \/ \E j \in AllJobs : Table!JobStep(j)
         \/ UNCHANGED tableVars,
         UNCHANGED <<notifications, delivery, sent, run, batch, verdict>>,
         outbox' \in [Messages -> OutboxState], stale' \in [Messages -> BOOLEAN],
         contact' \in [Reachable -> BOOLEAN],
         Quiet
  PROVE  IInv'
<1>1. P!IInv' /\ Table!TypeOK'
  BY TableKept
<1>2. TypeOK'
  BY <1>1 DEF IInv, TypeOK
<1>3. \A w \in Workers : RunHeld(w)'
  BY HeldElsewhere
<1>4. QED
  BY <1>1, <1>2, <1>3, QuietKeeps

LEMMA EnqueueIntentKeeps ==
  ASSUME IInv, NEW m \in Messages, EnqueueIntent(m)
  PROVE  IInv'
<1>1. Quiet
  BY DEF EnqueueIntent, Quiet, tableVars, IInv, TypeOK
<1>2. outbox' \in [Messages -> OutboxState]
  BY DEF EnqueueIntent, IInv, TypeOK, OutboxState
<1>3. QED
  BY <1>1, <1>2, RowStepKeeps DEF EnqueueIntent, tableVars, IInv, TypeOK

LEMMA BecomesStaleKeeps ==
  ASSUME IInv, NEW m \in Messages, BecomesStale(m)
  PROVE  IInv'
<1>1. Quiet
  BY DEF BecomesStale, Quiet, tableVars, IInv, TypeOK
<1>2. stale' \in [Messages -> BOOLEAN]
  BY DEF BecomesStale, IInv, TypeOK
<1>3. QED
  BY <1>1, <1>2, RowStepKeeps DEF BecomesStale, tableVars, IInv, TypeOK

LEMMA ContactKeeps ==
  ASSUME IInv, NEW p \in Reachable, RecordVerifiedContact(p)
  PROVE  IInv'
<1>1. Quiet
  BY DEF RecordVerifiedContact, Quiet, tableVars, outboxVars, IInv, TypeOK
<1>2. contact' \in [Reachable -> BOOLEAN]
  BY DEF RecordVerifiedContact, IInv, TypeOK
<1>3. QED
  BY <1>1, <1>2, RowStepKeeps DEF RecordVerifiedContact, tableVars, outboxVars, IInv, TypeOK

\* Dispatching makes the fan-out job and never marks an intent complete.
LEMMA DispatchKeeps ==
  ASSUME IInv, NEW m \in Messages, DispatchPending(m)
  PROVE  IInv'
<1>1. outbox[m] # "COMPLETE" /\ outbox \in [Messages -> OutboxState] /\ stale \in [Messages -> BOOLEAN]
  BY DEF DispatchPending, Dispatchable, IInv, TypeOK
<1>2. /\ outbox' \in [Messages -> OutboxState] /\ stale' \in [Messages -> BOOLEAN]
      /\ \A n \in Messages : outbox'[n] = "COMPLETE" <=> outbox[n] = "COMPLETE"
  BY <1>1 DEF DispatchPending, OutboxState
<1>3. \/ Table!Enqueue(Fan(m), "now")
      \/ UNCHANGED tableVars
  BY DEF DispatchPending
<1>4. CASE Table!Enqueue(Fan(m), "now")
  <2>1. /\ job' = [job EXCEPT ![Fan(m)].state = "PENDING", ![Fan(m)].due = "now"]
        /\ job[Fan(m)].state = "ABSENT" /\ UNCHANGED <<batch, verdict>>
    BY <1>4 DEF Table!Enqueue, Table!workerVars
  <2>2. job \in [AllJobs -> Table!Row] /\ Fan(m) \in AllJobs
    BY Shape DEF IInv, TypeOK, Table!TypeOK
  <2>3. job'[Fan(m)].state = "PENDING" /\ \A j \in AllJobs : j # Fan(m) => job'[j] = job[j]
    BY <2>1, <2>2 DEF Table!Row
  <2>4. Quiet
    <3>1. "PENDING" # "COMPLETE" /\ "ABSENT" # "COMPLETE"
      OBVIOUS
    <3>2. \A j \in AllJobs : job'[j].state = "COMPLETE" <=> job[j].state = "COMPLETE"
      BY <2>1, <2>3, <3>1
    <3>3. QED
      BY <1>2, <2>3, <3>2, Shape DEF Quiet, DispatchPending
  <2>5. Table!JobStep(Fan(m))
    BY <1>4 DEF Table!JobStep
  <2>6. QED
    BY <1>2, <2>1, <2>2, <2>4, <2>5, RowStepKeeps DEF DispatchPending, IInv, TypeOK
<1>5. CASE UNCHANGED tableVars
  <2>1. Quiet
    BY <1>2, <1>5 DEF Quiet, DispatchPending, tableVars
  <2>2. QED
    BY <1>2, <1>5, <2>1, RowStepKeeps DEF DispatchPending, IInv, TypeOK, tableVars
<1>6. QED
  BY <1>3, <1>4, <1>5

\* Time and operators move a job between states other than COMPLETE and ABSENT.
LEMMA JobStepKeeps ==
  ASSUME IInv, NEW j \in AllJobs, RetryJob(j) \/ TimePasses(j)
  PROVE  IInv'
<1>1. job \in [AllJobs -> Table!Row]
  BY DEF IInv, TypeOK, Table!TypeOK
<1>2. /\ UNCHANGED <<batch, verdict, outbox, stale, notifications, contact, delivery, sent, run>>
      /\ \A i \in AllJobs : i # j => job'[i] = job[i]
      /\ \/ job'[j].state = job[j].state
         \/ job'[j].state = "PENDING" /\ job[j].state \in {"DEAD_LETTER", "RETRY_WAIT"}
  <2>1. UNCHANGED <<outbox, stale, notifications, contact, delivery, sent, run>>
    BY DEF RetryJob, TimePasses, outboxVars
  <2>2. CASE Table!BecomesDue(j)
    <3>1. job' = [job EXCEPT ![j].due = "now"] /\ batch' = batch /\ verdict' = verdict
      BY <2>2 DEF Table!BecomesDue, Table!workerVars
    <3>2. job'[j].state = job[j].state /\ \A i \in AllJobs : i # j => job'[i] = job[i]
      BY <1>1, <3>1 DEF Table!Row
    <3>3. batch' = batch /\ verdict' = verdict
      BY <3>1
    <3>4. QED
      BY <2>1, <3>2, <3>3
  <2>3. CASE Table!LeaseExpires(j)
    <3>1. job' = [job EXCEPT ![j].lease = "expired"] /\ batch' = batch /\ verdict' = verdict
      BY <2>3 DEF Table!LeaseExpires, Table!workerVars
    <3>2. job'[j].state = job[j].state /\ \A i \in AllJobs : i # j => job'[i] = job[i]
      BY <1>1, <3>1 DEF Table!Row
    <3>3. batch' = batch /\ verdict' = verdict
      BY <3>1
    <3>4. QED
      BY <2>1, <3>2, <3>3
  <2>4. CASE Table!RetryJob(j)
    BY <1>1, <2>1, <2>4
    DEF Table!RetryJob, Table!workerVars, Table!RetryableFrom, Table!Requeued
  <2>5. QED
    BY <2>2, <2>3, <2>4 DEF RetryJob, TimePasses
<1>3. \A i \in AllJobs : /\ job'[i].state = "COMPLETE" <=> job[i].state = "COMPLETE"
                         /\ job'[i].state # "ABSENT" => job[i].state # "ABSENT"
  <2>1. "PENDING" \notin {"COMPLETE", "ABSENT"}
    OBVIOUS
  <2>2. QED
    BY <1>2, <2>1
<1>4. Quiet
  BY <1>2, <1>3, Shape DEF Quiet
<1>5. Table!JobStep(j)
  BY DEF RetryJob, TimePasses, Table!JobStep
<1>6. QED
  BY <1>2, <1>4, <1>5, RowStepKeeps DEF IInv, TypeOK

-----------------------------------------------------------------------------
(* The worker before the completion. *)

\* A worker claims only when it holds nothing, hence outside the handler.
LEMMA ClaimKeeps ==
  ASSUME IInv, NEW w \in Workers, NEW S \in SUBSET AllJobs, ClaimDueJobs(w, S)
  PROVE  IInv'
<1>1. job \in [AllJobs -> Table!Row] /\ batch \in [Workers -> SUBSET Table!Claim]
  BY DEF IInv, TypeOK, Table!TypeOK
<1>2. P!IInv' /\ Table!TypeOK'
  BY TableKept DEF ClaimDueJobs, Table!WorkerStep
<1>3. UNCHANGED <<verdict, outbox, stale, notifications, contact, delivery, sent, run>>
  BY DEF ClaimDueJobs, Table!ClaimDueJobs, outboxVars
<1>4. TypeOK'
  BY <1>2, <1>3 DEF IInv, TypeOK
<1>5. \A j \in AllJobs : /\ job'[j].state = "COMPLETE" <=> job[j].state = "COMPLETE"
                         /\ job'[j].state # "ABSENT" => job[j].state # "ABSENT"
  <2> SUFFICES ASSUME NEW j \in AllJobs
               PROVE  /\ job'[j].state = "COMPLETE" <=> job[j].state = "COMPLETE"
                      /\ job'[j].state # "ABSENT" => job[j].state # "ABSENT"
    OBVIOUS
  <2>1. job'[j] = IF j \in S THEN Table!Claimed(job[j]) ELSE job[j]
    BY DEF ClaimDueJobs, Table!ClaimDueJobs
  <2>2. CASE j \in S
    <3>1. job[j].state \in {"PENDING", "RETRY_WAIT", "RUNNING"}
      BY <2>2 DEF ClaimDueJobs, Table!ClaimDueJobs, Table!Claimable, Table!Waiting
    <3>2. job'[j].state = "RUNNING"
      BY <2>1, <2>2 DEF Table!Claimed
    <3>3. QED
      BY <3>1, <3>2
  <2>3. QED
    BY <2>1, <2>2
<1>6. Quiet
  BY <1>3, <1>5, Shape DEF Quiet
<1>7. ASSUME NEW v \in Workers PROVE RunHeld(v)'
  <2>1. CASE v # w
    BY <1>1, <1>3, <2>1, HeldElsewhere DEF ClaimDueJobs, Table!ClaimDueJobs
  <2>2. CASE v = w
    <3>1. run[w] = NoRun
      BY DEF ClaimDueJobs, Table!ClaimDueJobs, IInv, RunHeld
    <3>2. QED
      BY <1>3, <2>2, <3>1 DEF IInv, RunHeld
  <2>3. QED
    BY <2>1, <2>2
<1>8. QED
  BY <1>2, <1>4, <1>6, <1>7, QuietKeeps

\* The handler of worker w writes its delivery and perhaps answers.
LEMMA HandlerKeeps ==
  ASSUME IInv, NEW w \in Workers,
         \/ \E c \in batch[w], o \in Table!Outcome : Table!HandlerReturns(w, c, o)
         \/ UNCHANGED tableVars,
         UNCHANGED <<outboxVars, notifications, contact>>,
         delivery' \in [Deliveries -> DeliveryState],
         sent' \in [Deliveries -> Nat],
         \A d \in Deliveries :
           /\ delivery'[d] = "ACCEPTED_BY_PROVIDER" => delivery[d] = "ACCEPTED_BY_PROVIDER"
           /\ sent[d] > 0 => sent'[d] > 0,
         \A v \in Workers : v # w => run'[v] = run[v],
         run' \in [Workers -> {NoRun} \cup
           [claim: Table!Claim, at: {"read", "send", "accepted", "done"}]],
         RunHeld(w)'
  PROVE  IInv'
<1>1. P!IInv' /\ Table!TypeOK'
  BY TableKept DEF Table!WorkerStep
<1>2. UNCHANGED <<job, batch>> /\ \A v \in Workers : v # w => verdict'[v] = verdict[v]
  BY DEF Table!HandlerReturns, tableVars, IInv, TypeOK, Table!TypeOK
<1>3. TypeOK'
  BY <1>1 DEF IInv, TypeOK, outboxVars
<1>4. Quiet
  BY <1>2 DEF Quiet, outboxVars
<1>5. \A v \in Workers : RunHeld(v)'
  BY <1>2, HeldElsewhere
<1>6. QED
  BY <1>1, <1>3, <1>4, <1>5, QuietKeeps

\* What the handler's answer leaves in the worker's memory.
LEMMA Answered ==
  ASSUME IInv, NEW w \in Workers, NEW c \in batch[w], NEW o \in Table!Outcome,
         Table!HandlerReturns(w, c, o)
  PROVE  /\ verdict'[w] # Table!NoVerdict
         /\ verdict'[w].claim = c /\ verdict'[w].outcome = o
         /\ batch' = batch /\ c \in Table!Claim
<1>1. /\ verdict'[w].claim = c /\ verdict'[w].outcome = o
      /\ batch' = batch /\ c \in Table!Claim
  BY DEF Table!HandlerReturns, IInv, TypeOK, Table!TypeOK
<1>2. "none" # o
  BY DEF Table!Outcome
<1>3. QED
  BY <1>1, <1>2 DEF Table!NoVerdict

LEMMA FanOutKeeps ==
  ASSUME IInv, NEW w \in Workers, NEW c \in batch[w], FanOut(w, c)
  PROVE  IInv'
<1>1. PICK o \in Table!Outcome : Table!HandlerReturns(w, c, o)
  BY DEF FanOut, Table!Outcome
<1>2. c.job \notin Deliveries
  BY Shape DEF FanOut
<1>3. RunHeld(w)'
  BY <1>1, <1>2, Answered DEF FanOut, RunHeld
<1>4. QED
  BY <1>1, <1>3, HandlerKeeps DEF FanOut, IInv, TypeOK

\* The handler begins: it answers at once, or goes on to the provider.
LEMMA StartDeliveryKeeps ==
  ASSUME IInv, NEW w \in Workers, NEW c \in batch[w], StartDelivery(w, c)
  PROVE  IInv'
<1> DEFINE d == c.job
<1>1. /\ d \in Deliveries /\ run[w] = NoRun /\ c \in Table!Claim
      /\ delivery \in [Deliveries -> DeliveryState] /\ sent \in [Deliveries -> Nat]
  BY DEF StartDelivery, IInv, TypeOK, Table!TypeOK
<1>2. UNCHANGED <<outboxVars, notifications, contact, sent>>
  BY DEF StartDelivery
<1>3. CASE AlreadySent(d)
  <2>1. "SUCCESS" \in Table!Outcome /\ Table!HandlerReturns(w, c, "SUCCESS")
        /\ UNCHANGED <<delivery, run>>
    BY <1>3 DEF StartDelivery, Table!Outcome
  <2>2. sent[d] > 0
    BY <1>1, <1>3 DEF AlreadySent, IInv, RowsTellSent
  <2>3. RunHeld(w)'
    BY <1>1, <1>2, <2>1, <2>2, Answered DEF RunHeld
  <2>4. QED
    BY <1>2, <2>1, <2>3, HandlerKeeps DEF IInv, TypeOK
<1>4. CASE ~AlreadySent(d) /\ ~contact[d[2]]
  <2>1. "PERMANENT" \in Table!Outcome /\ Table!HandlerReturns(w, c, "PERMANENT")
        /\ delivery' = [delivery EXCEPT ![d] = "FAILED"] /\ UNCHANGED run
    BY <1>4 DEF StartDelivery, Table!Outcome
  <2>2. RunHeld(w)'
    BY <1>1, <1>2, <2>1, Answered DEF RunHeld
  <2>3. delivery' \in [Deliveries -> DeliveryState]
        /\ \A e \in Deliveries : delivery'[e] = "ACCEPTED_BY_PROVIDER" =>
                                   delivery[e] = "ACCEPTED_BY_PROVIDER"
    BY <1>1, <2>1 DEF DeliveryState
  <2>4. QED
    BY <1>2, <2>1, <2>2, <2>3, HandlerKeeps DEF IInv, TypeOK
<1>5. CASE ~AlreadySent(d) /\ contact[d[2]]
  <2> DEFINE r == [claim |-> c, at |-> "read"]
  <2>1. run' = [run EXCEPT ![w] = r] /\ UNCHANGED <<tableVars, delivery>>
    BY <1>5 DEF StartDelivery
  <2>2. r \in [claim: Table!Claim, at: {"read", "send", "accepted", "done"}] /\ r # NoRun
    BY <1>1 DEF NoRun
  <2>3. run'[w] = r /\ (\A v \in Workers : v # w => run'[v] = run[v])
        /\ run' \in [Workers -> {NoRun} \cup
             [claim: Table!Claim, at: {"read", "send", "accepted", "done"}]]
    BY <2>1, <2>2 DEF IInv, TypeOK
  <2>4. verdict'[w] = Table!NoVerdict
    BY <2>1 DEF StartDelivery, tableVars
  <2>5. RunHeld(w)'
    BY <1>1, <2>1, <2>2, <2>3, <2>4 DEF RunHeld, tableVars
  <2>6. QED
    BY <1>2, <2>1, <2>3, <2>5, HandlerKeeps DEF IInv, TypeOK
<1>6. QED
  BY <1>3, <1>4, <1>5

LEMMA MarkSendingKeeps ==
  ASSUME IInv, NEW w \in Workers, MarkSending(w)
  PROVE  IInv'
<1> DEFINE r == [run[w] EXCEPT !.at = "send"]
<1>1. run[w] # NoRun /\ run[w].at = "read"
  BY DEF MarkSending, At
<1>2. /\ delivery \in [Deliveries -> DeliveryState] /\ sent \in [Deliveries -> Nat]
      /\ run \in [Workers -> {NoRun} \cup
           [claim: Table!Claim, at: {"read", "send", "accepted", "done"}]]
  BY DEF IInv, TypeOK
<1>3. run[w].claim \in batch[w] /\ run[w].claim.job \in Deliveries /\ verdict[w] = Table!NoVerdict
  BY <1>1 DEF IInv, RunHeld
<1>4. delivery' \in [Deliveries -> DeliveryState]
      /\ \A e \in Deliveries : delivery'[e] = "ACCEPTED_BY_PROVIDER" =>
                                 delivery[e] = "ACCEPTED_BY_PROVIDER"
  BY <1>2, <1>3 DEF MarkSending, DeliveryState
<1>5. /\ r \in [claim: Table!Claim, at: {"read", "send", "accepted", "done"}]
      /\ r # NoRun /\ r.claim = run[w].claim /\ r.at = "send"
  BY <1>1, InHandler DEF IInv, NoRun
<1>6. run' = [run EXCEPT ![w] = r]
  BY DEF MarkSending
<1>7. run'[w] = r /\ (\A v \in Workers : v # w => run'[v] = run[v])
      /\ run' \in [Workers -> {NoRun} \cup
           [claim: Table!Claim, at: {"read", "send", "accepted", "done"}]]
  BY <1>2, <1>5, <1>6
<1>8. UNCHANGED <<tableVars, outboxVars, notifications, contact, sent>>
  BY DEF MarkSending
<1>9. RunHeld(w)'
  BY <1>3, <1>5, <1>7, <1>8 DEF RunHeld, tableVars
<1>10. QED
  BY <1>2, <1>4, <1>7, <1>8, <1>9, HandlerKeeps

\* The provider's answer becomes the handler's.
LEMMA ReturnKeeps ==
  ASSUME IInv, NEW w \in Workers, At(w, "send"),
         NEW o \in {"SUCCESS", "RETRYABLE", "PERMANENT"}, Return(w, o),
         UNCHANGED <<outboxVars, notifications, contact>>,
         delivery' \in [Deliveries -> DeliveryState],
         sent' \in [Deliveries -> Nat],
         \A d \in Deliveries :
           /\ delivery'[d] = "ACCEPTED_BY_PROVIDER" => delivery[d] = "ACCEPTED_BY_PROVIDER"
           /\ sent[d] > 0 => sent'[d] > 0,
         o = "SUCCESS" => sent'[run[w].claim.job] > 0
  PROVE  IInv'
<1> DEFINE r == [run[w] EXCEPT !.at = IF o = "SUCCESS" THEN "accepted" ELSE "done"]
<1>1. run[w] # NoRun /\ run[w].at = "send"
  BY DEF At
<1>2. run \in [Workers -> {NoRun} \cup
        [claim: Table!Claim, at: {"read", "send", "accepted", "done"}]]
  BY DEF IInv, TypeOK
<1>3. run[w].claim \in batch[w] /\ run[w].claim.job \in Deliveries
  BY <1>1 DEF IInv, RunHeld
<1>4. /\ r \in [claim: Table!Claim, at: {"read", "send", "accepted", "done"}]
      /\ r # NoRun /\ r.claim = run[w].claim
      /\ r.at = IF o = "SUCCESS" THEN "accepted" ELSE "done"
  BY <1>1, InHandler DEF IInv, NoRun
<1>5. run' = [run EXCEPT ![w] = r]
  BY DEF Return
<1>6. run'[w] = r /\ (\A v \in Workers : v # w => run'[v] = run[v])
      /\ run' \in [Workers -> {NoRun} \cup
           [claim: Table!Claim, at: {"read", "send", "accepted", "done"}]]
  BY <1>2, <1>4, <1>5
<1>7. o \in Table!Outcome /\ Table!HandlerReturns(w, run[w].claim, o)
  BY DEF Return, Table!Outcome
<1>8. /\ verdict'[w] # Table!NoVerdict
      /\ verdict'[w].claim = run[w].claim /\ verdict'[w].outcome = o /\ batch' = batch
  BY <1>3, <1>7, Answered
<1>9. r.at \in {"accepted", "done"} /\ (r.at = "accepted" <=> o = "SUCCESS")
  BY <1>4
<1> HIDE DEF r
<1>10. RunHeld(w)'
  BY <1>3, <1>4, <1>6, <1>8, <1>9 DEF RunHeld
<1>11. QED
  BY <1>3, <1>6, <1>7, <1>10, HandlerKeeps

LEMMA SendKeeps ==
  ASSUME IInv, NEW w \in Workers, Send(w)
  PROVE  IInv'
<1> DEFINE d == run[w].claim.job
<1>1. At(w, "send") /\ UNCHANGED <<outboxVars, notifications, contact>>
  BY DEF Send
<1>2. d \in Deliveries
  BY <1>1 DEF At, IInv, RunHeld
<1>3. delivery \in [Deliveries -> DeliveryState] /\ sent \in [Deliveries -> Nat]
  BY DEF IInv, TypeOK
<1>4. CASE /\ sent' = [sent EXCEPT ![d] = @ + 1]
           /\ \E o \in {"SUCCESS", "RETRYABLE"} : Return(w, o)
           /\ UNCHANGED delivery
  <2>1. /\ sent' \in [Deliveries -> Nat] /\ sent'[d] > 0
        /\ \A e \in Deliveries : sent[e] > 0 => sent'[e] > 0
    BY <1>2, <1>3, <1>4
  <2>2. PICK o \in {"SUCCESS", "RETRYABLE", "PERMANENT"} : Return(w, o)
    BY <1>4
  <2>3. QED
    BY <1>1, <1>3, <1>4, <2>1, <2>2, ReturnKeeps
<1>5. CASE /\ delivery' = [delivery EXCEPT ![d] = "FAILED"]
           /\ \E o \in {"RETRYABLE", "PERMANENT"} : Return(w, o)
           /\ UNCHANGED sent
  <2>1. delivery' \in [Deliveries -> DeliveryState]
        /\ \A e \in Deliveries : delivery'[e] = "ACCEPTED_BY_PROVIDER" =>
                                   delivery[e] = "ACCEPTED_BY_PROVIDER"
    BY <1>2, <1>3, <1>5 DEF DeliveryState
  <2>2. PICK o \in {"SUCCESS", "RETRYABLE", "PERMANENT"} : Return(w, o) /\ o # "SUCCESS"
    BY <1>5
  <2>3. QED
    BY <1>1, <1>3, <1>5, <2>1, <2>2, ReturnKeeps
<1>6. CASE Return(w, "RETRYABLE") /\ UNCHANGED <<delivery, sent>>
  <2>1. "RETRYABLE" # "SUCCESS"
    OBVIOUS
  <2>2. QED
    BY <1>1, <1>3, <1>6, <2>1, ReturnKeeps
<1>7. QED
  BY <1>4, <1>5, <1>6 DEF Send

\* The worker gives its claim up, and with it what it knew.
LEMMA DropKeeps ==
  ASSUME IInv, NEW w \in Workers, Drop(w)
  PROVE  IInv'
<1>1. P!IInv' /\ Table!TypeOK'
  BY TableKept DEF Drop, Table!WorkerStep
<1>2. UNCHANGED <<job, outbox, stale, notifications, contact, delivery, sent>>
  BY DEF Drop, outboxVars, Table!LoseLease, Table!Crash, Table!ApplyRaises, Table!AbandonPass
<1>3. run' = [run EXCEPT ![w] = NoRun] /\ run \in [Workers -> {NoRun} \cup
        [claim: Table!Claim, at: {"read", "send", "accepted", "done"}]]
  BY DEF Drop, IInv, TypeOK
<1>4. TypeOK'
  BY <1>1, <1>2, <1>3 DEF IInv, TypeOK
<1>5. Quiet
  BY <1>2 DEF Quiet
<1>6. verdict'[w] = Table!NoVerdict
      /\ \A v \in Workers : v # w => verdict'[v] = verdict[v] /\ batch'[v] = batch[v]
  BY DEF Drop, Table!LoseLease, Table!Crash, Table!ApplyRaises, Table!AbandonPass,
    IInv, TypeOK, Table!TypeOK
<1>7. ASSUME NEW v \in Workers PROVE RunHeld(v)'
  <2>1. CASE v # w
    BY <1>2, <1>3, <1>6, <2>1, HeldElsewhere
  <2>2. CASE v = w
    BY <1>3, <1>6, <2>2 DEF RunHeld
  <2>3. QED
    BY <2>1, <2>2
<1>8. QED
  BY <1>1, <1>4, <1>5, <1>7, QuietKeeps

-----------------------------------------------------------------------------
(* The completion transaction. *)

\* The jobs that the effect of outcome o of claim c inserts.
New(c, o) == IF o = "SUCCESS" THEN Scheduled(c) ELSE {}

\* Worker w, whose fence is open, completes claim c with outcome o.
Completes(w, c, o) ==
  /\ c = verdict[w].claim /\ o = verdict[w].outcome
  /\ c \in Table!Claim /\ c.job \in AllJobs /\ c \in batch[w] /\ o \in Table!Outcome
  /\ job[c.job].state = "RUNNING" /\ job[c.job] \in Table!Row
  /\ job'[c.job] = Table!Recorded(job[c.job], o)
  /\ job'[c.job].state # "ABSENT" /\ (job'[c.job].state = "COMPLETE" <=> o = "SUCCESS")
  /\ \A j \in AllJobs : j # c.job =>
       IF j \in New(c, o)
       THEN job'[j] = [job[j] EXCEPT !.state = "PENDING", !.due = "now"]
       ELSE job'[j] = job[j]
  /\ attempts' = [attempts EXCEPT ![c.job][c.token] = o]
  /\ batch' = [batch EXCEPT ![w] = @ \ {c}]
  /\ verdict' = [verdict EXCEPT ![w] = Table!NoVerdict]
  /\ run' = [run EXCEPT ![w] = NoRun]
  /\ UNCHANGED <<audit, faults, stale, contact, sent>>

LEMMA FinishCompletes ==
  ASSUME IInv, NEW w \in Workers, Finish(w)
  PROVE  \E c, o : Completes(w, c, o)
<1>1. PICK c, o : c = verdict[w].claim /\ o = verdict[w].outcome
  OBVIOUS
<1>2. verdict[w] # Table!NoVerdict /\ verdict[w] \in Table!Verdict
  BY DEF Finish, IInv, TypeOK, Table!TypeOK
<1>3. c \in Table!Claim /\ c.job \in AllJobs /\ o \in Table!Outcome
  BY <1>1, <1>2 DEF Table!Verdict, Table!Claim
<1>4. job[c.job] \in Table!Row
  BY <1>3 DEF IInv, TypeOK, Table!TypeOK
<1>5. c \in batch[w]
  <2>1. verdict[w] # P!NoVerdict
    BY <1>2 DEF Table!NoVerdict, P!NoVerdict
  <2>2. QED
    BY <1>1, <2>1 DEF IInv, P!IInv, P!VerdictHeld
<1>6. job[c.job].state = "RUNNING"
  <2>1. c.token = job[c.job].token
    BY <1>1 DEF Finish, Table!FenceOpen
  <2>2. QED
    BY <1>5, <2>1 DEF IInv, P!IInv, P!ClaimsOpen
<1>7. job'[c.job] = Table!Recorded(job[c.job], o)
  BY <1>1, <1>3 DEF Finish
<1>8. job'[c.job].state # "ABSENT" /\ (job'[c.job].state = "COMPLETE" <=> o = "SUCCESS")
  <2>1. job'[c.job].state = Table!StateAfter(job[c.job], o)
    BY <1>7 DEF Table!Recorded
  <2>2. QED
    BY <2>1 DEF Table!StateAfter
<1>9. \A j \in AllJobs : j # c.job =>
        IF j \in New(c, o)
        THEN job'[j] = [job[j] EXCEPT !.state = "PENDING", !.due = "now"]
        ELSE job'[j] = job[j]
  BY <1>1 DEF Finish, New
<1>10. /\ attempts' = [attempts EXCEPT ![c.job][c.token] = o]
       /\ batch' = [batch EXCEPT ![w] = @ \ {c}]
       /\ verdict' = [verdict EXCEPT ![w] = Table!NoVerdict]
       /\ run' = [run EXCEPT ![w] = NoRun]
       /\ UNCHANGED <<audit, faults, stale, contact, sent>>
  BY <1>1 DEF Finish
<1>11. Completes(w, c, o)
  BY <1>1, <1>3, <1>4, <1>5, <1>6, <1>7, <1>8, <1>9, <1>10 DEF Completes
<1>12. QED
  BY <1>11

\* A fan-out schedules deliveries of its own intent only, and none of them had a job.
LEMMA ScheduledAreNew ==
  ASSUME IInv, NEW c, c.job \in AllJobs, job[c.job].state = "RUNNING",
         NEW d \in Scheduled(c)
  PROVE  /\ d \in Deliveries /\ c.job = Fan(d[1]) /\ d[1] \in Messages
         /\ job[d].state = "ABSENT" /\ d # c.job
<1>1. d \in Deliveries /\ c.job = Fan(d[1])
  BY DEF Scheduled
<1>2. d[1] \in Messages /\ d # Fan(d[1])
  BY <1>1, Shape
<1>3. outbox[d[1]] # "COMPLETE"
  BY <1>1, <1>2 DEF IInv, FanOutComplete
<1>4. QED
  BY <1>1, <1>2, <1>3 DEF IInv, DeliveriesFollow

\* The completion is one of the table, with the insertions of its effect.
LEMMA FinishTable ==
  ASSUME IInv, NEW w \in Workers, NEW c, NEW o, Finish(w), Completes(w, c, o)
  PROVE  P!IInv' /\ Table!TypeOK'
<1>1. Table!TypeOK
  BY DEF IInv, TypeOK
<1>2. \A j \in AllJobs : j # c.job => job'[j] = job[j] \/ P!Inserted(job[j], job'[j])
  <2> SUFFICES ASSUME NEW j \in AllJobs, j # c.job, j \in New(c, o)
               PROVE  P!Inserted(job[j], job'[j])
    BY DEF Completes
  <2>1. job[j].state = "ABSENT"
    BY ScheduledAreNew DEF New, Completes
  <2>2. job'[j] = [job[j] EXCEPT !.state = "PENDING", !.due = "now"] /\ job[j] \in Table!Row
    BY <1>1 DEF Completes, Table!TypeOK
  <2>3. QED
    BY <2>1, <2>2 DEF P!Inserted, Table!Row
<1>3. Table!TypeOK'
  <2>1. job' \in [AllJobs -> Table!Row]
    <3>1. \A j \in AllJobs : job[j] \in Table!Row
      BY <1>1 DEF Table!TypeOK
    <3>2. job'[c.job] \in Table!Row
      <4>1. /\ job[c.job] \in Table!Row /\ o \in Table!Outcome
            /\ job'[c.job] = Table!Recorded(job[c.job], o)
        BY DEF Completes
      <4>2. Table!Recorded(job[c.job], o) \in Table!Row
        BY <4>1, SameTable
      <4>3. QED
        BY <4>1, <4>2
    <3>3. \A j \in AllJobs : [job[j] EXCEPT !.state = "PENDING", !.due = "now"] \in Table!Row
      BY <3>1 DEF Table!Row, Table!JobState
    <3>4. \A j \in AllJobs : job'[j] \in Table!Row
      BY <3>1, <3>2, <3>3 DEF Completes
    <3>5. job' = [j \in AllJobs |-> job'[j]]
      BY DEF Finish
    <3>6. QED
      BY <3>4, <3>5
  <2>2. attempts' \in [AllJobs -> Seq(Table!Outcome \cup {"open"})]
    <3>1. attempts[c.job] \in Seq(P!Outcome \cup {"open"}) /\ o \in P!Outcome
      BY <1>1 DEF Completes, Table!TypeOK, Table!Outcome, P!Outcome
    <3>2. [attempts[c.job] EXCEPT ![c.token] = o] \in Seq(P!Outcome \cup {"open"})
      BY <3>1, TableAssumed, P!WriteSeq
    <3>3. [attempts[c.job] EXCEPT ![c.token] = o] \in Seq(Table!Outcome \cup {"open"})
      BY <3>2 DEF Table!Outcome, P!Outcome
    <3>4. QED
      BY <1>1, <3>3 DEF Completes, Table!TypeOK
  <2>3. batch' \in [Workers -> SUBSET Table!Claim]
    BY <1>1 DEF Completes, Table!TypeOK
  <2>4. verdict' \in [Workers -> Table!Verdict \cup {Table!NoVerdict}]
    BY <1>1 DEF Completes, Table!TypeOK
  <2>5. QED
    BY <1>1, <2>1, <2>2, <2>3, <2>4 DEF Completes, Table!TypeOK
<1>4. P!Completes(w, c, o)
  <2>1. verdict[w] # P!NoVerdict /\ P!FenceOpen(w)
    BY DEF Finish, Table!FenceOpen, P!FenceOpen, Table!NoVerdict, P!NoVerdict
  <2>2. Table!Recorded(job[c.job], o) = P!Recorded(job[c.job], o)
    BY DEF Table!Recorded, P!Recorded, Table!StateAfter, P!StateAfter,
      Table!Exhausted, P!Exhausted
  <2>3. QED
    BY <1>2, <2>1, <2>2 DEF Completes, P!Completes, Table!NoVerdict, P!NoVerdict
<1>5. P!IInv'
  BY <1>3, <1>4, TableAssumed, SameTyping, P!CompletionIInv DEF IInv
<1>6. QED
  BY <1>3, <1>5

\* Intents, notifications and deliveries after a completion.
LEMMA FinishRows ==
  ASSUME IInv, NEW w \in Workers, NEW c, NEW o, Finish(w), Completes(w, c, o)
  PROVE  /\ TypeOK' /\ FanOutComplete' /\ DeliveriesFollow' /\ RowsTellSent' /\ CompleteMeansSent'
<1> DEFINE isFanOut == o = "SUCCESS" /\ \E m \in Messages : c.job = Fan(m)
<1>1. Table!TypeOK'
  BY FinishTable
<1>2. /\ outbox \in [Messages -> OutboxState] /\ delivery \in [Deliveries -> DeliveryState]
      /\ notifications \subseteq Messages \X People /\ sent \in [Deliveries -> Nat]
      /\ run \in [Workers -> {NoRun} \cup
           [claim: Table!Claim, at: {"read", "send", "accepted", "done"}]]
  BY DEF IInv, TypeOK
<1>3. run' \in [Workers -> {NoRun} \cup
        [claim: Table!Claim, at: {"read", "send", "accepted", "done"}]]
  BY <1>2 DEF Completes
<1>4. \A j \in AllJobs : j # c.job =>
        /\ job'[j].state = "COMPLETE" <=> job[j].state = "COMPLETE"
        /\ job'[j].state # "ABSENT" => job[j].state # "ABSENT" \/ j \in New(c, o)
  <2> SUFFICES ASSUME NEW j \in AllJobs, j # c.job
               PROVE  /\ job'[j].state = "COMPLETE" <=> job[j].state = "COMPLETE"
                      /\ job'[j].state # "ABSENT" => job[j].state # "ABSENT" \/ j \in New(c, o)
    OBVIOUS
  <2>1. CASE j \in New(c, o)
    <3>1. job[j].state = "ABSENT"
      BY <2>1, ScheduledAreNew DEF New, Completes
    <3>2. job[j] \in Table!Row
      BY DEF IInv, TypeOK, Table!TypeOK
    <3>3. job'[j].state = "PENDING"
      BY <2>1, <3>2 DEF Completes, Table!Row
    <3>4. "PENDING" # "COMPLETE" /\ "ABSENT" # "COMPLETE"
      OBVIOUS
    <3>5. QED
      BY <2>1, <3>1, <3>3, <3>4
  <2>2. CASE j \notin New(c, o)
    BY <2>2 DEF Completes
  <2>3. QED
    BY <2>1, <2>2
<1>5. /\ job[c.job].state = "RUNNING" /\ c.job \in AllJobs
      /\ job'[c.job].state = "COMPLETE" <=> o = "SUCCESS"
  BY DEF Completes
<1>6. UNCHANGED <<stale, contact, sent>>
  BY DEF Completes
<1>7. CASE isFanOut
  <2>1. PICK m \in Messages : c.job = Fan(m)
    BY <1>7
  <2>2. m = c.job[1] /\ c.job \notin Deliveries
    BY <2>1, Shape
  <2>3. /\ outbox' = [outbox EXCEPT ![m] = "COMPLETE"]
        /\ notifications' = notifications \cup {<<m, p>> : p \in People}
        /\ delivery' = [d \in Deliveries |-> IF d \in New(c, o) THEN "READY" ELSE delivery[d]]
    <3>1. c = verdict[w].claim /\ o = verdict[w].outcome
      BY DEF Completes
    <3>2. /\ outbox' = [outbox EXCEPT ![c.job[1]] = "COMPLETE"]
          /\ notifications' = notifications \cup {<<c.job[1], p>> : p \in People}
          /\ delivery' = [d \in Deliveries |->
               IF d \in (IF o = "SUCCESS" THEN Scheduled(c) ELSE {})
               THEN "READY" ELSE delivery[d]]
      BY <1>7, <3>1 DEF Finish
    <3>3. QED
      BY <2>2, <3>2 DEF New
  <2>4. /\ outbox'[m] = "COMPLETE" /\ \A n \in Messages : n # m => outbox'[n] = outbox[n]
        /\ outbox' \in [Messages -> OutboxState]
    BY <1>2, <2>1, <2>3 DEF OutboxState
  <2>5. TypeOK'
    <3>1. delivery' \in [Deliveries -> DeliveryState]
      BY <1>2, <2>3 DEF DeliveryState
    <3>2. notifications' \subseteq Messages \X People
      BY <1>2, <2>1, <2>3
    <3>3. QED
      BY <1>1, <1>3, <1>6, <2>4, <3>1, <3>2 DEF IInv, TypeOK
  <2>6. FanOutComplete'
    <3> SUFFICES ASSUME NEW n \in Messages
                 PROVE  /\ outbox'[n] = "COMPLETE" <=> job'[Fan(n)].state = "COMPLETE"
                        /\ {p \in People : <<n, p>> \in notifications'} =
                             IF outbox'[n] = "COMPLETE" THEN People ELSE {}
      BY DEF FanOutComplete
    <3>1. CASE n = m
      BY <1>5, <1>7, <2>1, <2>3, <2>4, <3>1
    <3>2. CASE n # m
      <4>1. Fan(n) \in AllJobs /\ Fan(n) # c.job
        BY <2>1, <3>2, Shape
      <4>2. \A p \in People : <<n, p>> \in notifications' <=> <<n, p>> \in notifications
        BY <2>3, <3>2
      <4>3. QED
        BY <1>4, <2>4, <3>2, <4>1, <4>2 DEF IInv, FanOutComplete
    <3>3. QED
      BY <3>1, <3>2
  <2>7. DeliveriesFollow'
    <3> SUFFICES ASSUME NEW d \in Deliveries, job'[d].state # "ABSENT"
                 PROVE  outbox'[d[1]] = "COMPLETE"
      BY DEF DeliveriesFollow
    <3>1. d \in AllJobs /\ d[1] \in Messages /\ d # c.job
      BY <2>2, Shape
    <3>2. CASE d \in New(c, o)
      <4>1. c.job = Fan(d[1])
        BY <1>5, <3>2, ScheduledAreNew DEF New
      <4>2. QED
        BY <2>1, <2>4, <3>1, <4>1, Shape
    <3>3. CASE d \notin New(c, o)
      <4>1. outbox[d[1]] = "COMPLETE"
        BY <1>4, <3>1, <3>3 DEF IInv, DeliveriesFollow
      <4>2. QED
        BY <2>4, <3>1, <4>1
    <3>4. QED
      BY <3>2, <3>3
  <2>8. RowsTellSent'
    <3>1. "READY" # "ACCEPTED_BY_PROVIDER"
      OBVIOUS
    <3>2. QED
      BY <1>6, <2>3, <3>1 DEF IInv, RowsTellSent
  <2>9. CompleteMeansSent'
    BY <1>4, <1>6, <2>2, Shape DEF IInv, CompleteMeansSent
  <2>10. QED
    BY <2>5, <2>6, <2>7, <2>8, <2>9
<1>8. CASE ~isFanOut
  <2>1. /\ UNCHANGED <<outbox, notifications>>
        /\ delivery' = IF At(w, "accepted")
                       THEN [delivery EXCEPT ![c.job] = "ACCEPTED_BY_PROVIDER"] ELSE delivery
    BY <1>8 DEF Finish, Completes
  <2>2. New(c, o) = {}
    BY <1>8, Shape DEF New, Scheduled
  <2>3. o = "SUCCESS" /\ c.job \in Deliveries => sent[c.job] > 0
    <3>1. verdict[w] # Table!NoVerdict
      BY DEF Finish
    <3>2. QED
      BY <3>1 DEF IInv, RunHeld, Completes
  <2>4. At(w, "accepted") => c.job \in Deliveries /\ sent[c.job] > 0
    BY DEF At, IInv, RunHeld, Completes
  <2>5. /\ delivery' \in [Deliveries -> DeliveryState]
        /\ \A d \in Deliveries : delivery'[d] = "ACCEPTED_BY_PROVIDER" => sent[d] > 0
    <3>1. CASE At(w, "accepted")
      BY <1>2, <2>1, <2>4, <3>1 DEF DeliveryState, IInv, RowsTellSent
    <3>2. CASE ~At(w, "accepted")
      BY <1>2, <2>1, <3>2 DEF IInv, RowsTellSent
    <3>3. QED
      BY <3>1, <3>2
  <2>6. TypeOK'
    BY <1>1, <1>3, <1>6, <2>1, <2>5 DEF IInv, TypeOK
  <2>7. RowsTellSent'
    BY <1>6, <2>5 DEF RowsTellSent
  <2>8. FanOutComplete'
    <3>1. \A m \in Messages : job'[Fan(m)].state = "COMPLETE" <=> job[Fan(m)].state = "COMPLETE"
      BY <1>4, <1>5, <1>8, Shape
    <3>2. QED
      BY <2>1, <3>1 DEF IInv, FanOutComplete
  <2>9. DeliveriesFollow'
    <3>1. \A d \in Deliveries : job'[d].state # "ABSENT" => job[d].state # "ABSENT"
      BY <1>4, <1>5, <2>2, Shape
    <3>2. QED
      BY <2>1, <3>1 DEF IInv, DeliveriesFollow
  <2>10. CompleteMeansSent'
    <3>1. \A d \in Deliveries : job'[d].state = "COMPLETE" => sent[d] > 0
      BY <1>4, <1>5, <2>3, Shape DEF IInv, CompleteMeansSent
    <3>2. QED
      BY <1>6, <3>1 DEF CompleteMeansSent
  <2>11. QED
    BY <2>6, <2>7, <2>8, <2>9, <2>10
<1>9. QED
  BY <1>7, <1>8

LEMMA FinishKeeps ==
  ASSUME IInv, NEW w \in Workers, Finish(w)
  PROVE  IInv'
<1>1. PICK c, o : Completes(w, c, o)
  BY FinishCompletes
<1>2. ASSUME NEW v \in Workers PROVE RunHeld(v)'
  <2>1. UNCHANGED sent
    BY <1>1 DEF Completes
  <2>2. CASE v # w
    BY <1>1, <2>1, <2>2, HeldElsewhere DEF Completes, IInv, TypeOK, Table!TypeOK
  <2>3. CASE v = w
    <3>1. run'[w] = NoRun /\ verdict'[w] = Table!NoVerdict
      BY <1>1 DEF Completes, IInv, TypeOK, Table!TypeOK
    <3>2. QED
      BY <2>3, <3>1 DEF RunHeld
  <2>4. QED
    BY <2>2, <2>3
<1>3. QED
  BY <1>1, <1>2, FinishTable, FinishRows DEF IInv

-----------------------------------------------------------------------------
(* The theorems. *)

LEMMA StepKeeps == IInv /\ [Next]_vars => IInv'
<1> SUFFICES ASSUME IInv, [Next]_vars PROVE IInv'
  OBVIOUS
<1>1. ASSUME NEW w \in Workers, HandlerStep(w) PROVE IInv'
  BY <1>1, FanOutKeeps, StartDeliveryKeeps, MarkSendingKeeps, SendKeeps DEF HandlerStep
<1>2. ASSUME NEW w \in Workers, WorkerStep(w) PROVE IInv'
  BY <1>1, <1>2, ClaimKeeps, FinishKeeps, DropKeeps DEF WorkerStep
<1>3. ASSUME NEW m \in Messages, MessageStep(m) PROVE IInv'
  BY <1>3, EnqueueIntentKeeps, BecomesStaleKeeps, DispatchKeeps DEF MessageStep
<1>4. CASE UNCHANGED vars
  <2>1. Quiet
    BY <1>4 DEF vars, tableVars, outboxVars, Quiet
  <2>2. QED
    BY <1>4, <2>1, RowStepKeeps DEF vars, tableVars, outboxVars, IInv, TypeOK
<1>5. QED
  BY <1>2, <1>3, <1>4, ContactKeeps, JobStepKeeps DEF Next

\* The inductive invariant holds in every reachable state of the dispatcher
\* (agni.platform.dispatch) and the delivery jobs (notifications.application.fanout).
THEOREM Invariance == Spec => []IInv
<1>1. QED
  BY InitInv, StepKeeps, PTL DEF Spec

\* Every row and every worker's memory holds values of its column or field.
THEOREM TypeCorrect == Spec => []TypeOK
<1>1. IInv => TypeOK
  BY DEF IInv
<1>2. QED
  BY <1>1, Invariance, PTL

\* An intent is COMPLETE exactly when its fan-out job is, and exactly then have its
\* recipients been notified: fan_out_event commits once, with the row of its job.
THEOREM FanOutsCommitWhole == Spec => []FanOutComplete
<1>1. IInv => FanOutComplete
  BY DEF IInv
<1>2. QED
  BY <1>1, Invariance, PTL

\* A delivery whose job is COMPLETE went out: run_delivery's ALREADY_SENT short cut and
\* its completion only ever repeat what a provider said.
THEOREM CompletedWasSent == Spec => []CompleteMeansSent
<1>1. IInv => CompleteMeansSent
  BY DEF IInv
<1>2. QED
  BY <1>1, Invariance, PTL

\* The table of fan-outs and deliveries keeps the promise of the job table although a
\* completion here inserts rows: every effect commits exactly once per COMPLETE job.
THEOREM EffectsHappenOnce == Spec => []P!EffectExactlyOnce
<1>1. IInv => P!EffectExactlyOnce
  BY TableAssumed, P!EffectFromIInv DEF IInv
<1>2. QED
  BY <1>1, Invariance, PTL
=============================================================================
