--------------------------- MODULE IssuanceProofs ---------------------------
(***************************************************************************)
(* Theorems about certificate issuance, for any number of requests,        *)
(* workers, faults and resumptions.                                        *)
(*                                                                         *)
(* The argument: request, case, job and certificate move together, because *)
(* only the completion transaction publishes, behind the fence, and no     *)
(* claim under the current token of a COMPLETE job is left.  What a worker *)
(* knows inside its handler stays true of the request, whatever other      *)
(* workers write to it: an artifact is never taken away, a published       *)
(* request stays published, and the mark of a submission stays.            *)
(***************************************************************************)
EXTENDS Issuance, TLAPS

\* The lemmas about the job table, for the table of the requests.
P == INSTANCE JobQueueProofs WITH Jobs <- Requests, Reconcilable <- Requests

-----------------------------------------------------------------------------
(* The inductive invariant. *)

CaseOf(state) ==
  CASE state = "ABSENT" -> "REVIEW_PENDING"
    [] state = "PUBLISHED" -> "COMPLETED"
    [] OTHER -> "APPROVED_PENDING_ISSUE"

\* Request, case and job move together.
RowsLinked ==
  \A r \in Requests :
    /\ job[r].state = "ABSENT" <=> request[r].state = "ABSENT"
    /\ job[r].state = "COMPLETE" <=> request[r].state = "PUBLISHED"
    /\ case[r] = CaseOf(request[r].state)
    /\ request[r].state = "PUBLISHED" => request[r].submitted
    /\ request[r].artifact \in Renders \cup {None}

\* A published request has one certificate, the others have none.
Certified ==
  \A r \in Requests :
    IF request[r].state = "PUBLISHED"
    THEN \E a, x \in Renders : certificates[r] = <<[artifact |-> a, receipt |-> x]>>
    ELSE certificates[r] = <<>>

\* A claim in memory points at an open attempt.  When it is the newest one, its row
\* is RUNNING, or PENDING again because reconcile_issuance took the job back.
ClaimsOpen ==
  /\ \A r \in Requests : /\ Len(attempts[r]) = job[r].token
                         /\ job[r].state = "ABSENT" => job[r].token = 0
  /\ \A w \in Workers : \A c \in batch[w] :
       /\ c.token \in 1..job[c.job].token
       /\ attempts[c.job][c.token] = "open"
       /\ c.token = job[c.job].token => job[c.job].state \in {"RUNNING", "PENDING"}

\* No two workers hold the same claim.
ClaimsExclusive ==
  \A v, w \in Workers : v # w => batch[v] \cap batch[w] = {}

\* A worker inside a handler holds its claim; its verdict is the handler's answer.
RunHeld(w) ==
  IF run[w] = NoRun THEN verdict[w] = Table!NoVerdict
  ELSE /\ run[w].claim \in batch[w]
       /\ IF run[w].at \in Answers
          THEN /\ verdict[w] # Table!NoVerdict
               /\ verdict[w].claim = run[w].claim
               /\ verdict[w].outcome = OutcomeOf[run[w].at]
          ELSE verdict[w] = Table!NoVerdict

\* What a worker at this point of the handler knows of the request.
Knows(here, row) ==
  /\ here.at \in {"sign", "submit", "verify"} => here.artifact \in Renders
  /\ here.at = "publish" => here.receipt \in Renders
  /\ here.at \in {"sign", "submit", "verify", "publish"} => row.artifact \in Renders
  /\ here.at = "unknown" => row.submitted
  /\ here.at = "obsolete" => row.state = "PUBLISHED"

RunsKnow == \A w \in Workers : run[w] # NoRun => Knows(run[w], request[Of(w)])

IInv ==
  /\ TypeOK
  /\ RowsLinked
  /\ Certified
  /\ ClaimsOpen
  /\ ClaimsExclusive
  /\ \A w \in Workers : RunHeld(w)
  /\ RunsKnow
  /\ AmbiguityRemembered

-----------------------------------------------------------------------------
(* The job table, as JobQueueProofs knows it. *)

LEMMA TableAssumed ==
  /\ P!IsFiniteSet(Requests) /\ Requests \subseteq Requests
  /\ MaxAttempts \in Nat \ {0} /\ ClaimLimit \in Nat \ {0}
  /\ MaxFaults \in Nat /\ MaxRequeues \in Nat
BY TableAssumption DEF TableAssumption, Table!JobQueueAssumption, Table!IsFiniteSet, P!IsFiniteSet

LEMMA SameTable ==
  /\ Table!TypeOK <=> P!TypeOK
  /\ \A row \in Table!Row, o \in Table!Outcome : Table!Recorded(row, o) \in Table!Row
  /\ \A row \in Table!Row : Table!Requeued(row) \in Table!Row /\ Table!Claimed(row) \in Table!Row
<1>1. Table!Row = P!Row /\ Table!Outcome = P!Outcome
  BY DEF Table!Row, P!Row, Table!JobState, P!JobState, Table!Outcome, P!Outcome
<1>2. \A row, o : Table!Recorded(row, o) = P!Recorded(row, o)
  BY DEF Table!Recorded, P!Recorded, Table!StateAfter, P!StateAfter, Table!Exhausted, P!Exhausted
<1>3. \A row : Table!Requeued(row) = P!Requeued(row) /\ Table!Claimed(row) = P!Claimed(row)
  BY DEF Table!Requeued, P!Requeued, Table!Claimed, P!Claimed, Table!Maximum, P!Maximum
<1>4. Table!TypeOK <=> P!TypeOK
  BY <1>1
  DEF Table!TypeOK, P!TypeOK, Table!Claim, P!Claim, Table!Verdict, P!Verdict,
    Table!NoVerdict, P!NoVerdict, Table!Outcome, P!Outcome
<1>5. QED
  BY <1>1, <1>2, <1>3, <1>4, TableAssumed, P!RowOperations

\* A step of a worker or of a row is the same step of the table in JobQueueProofs.
LEMMA SameWorkerStep ==
  ASSUME NEW w \in Workers, Table!WorkerStep(w)
  PROVE  P!WorkerStep(w)
<1>1. ASSUME NEW S \in SUBSET Requests, Table!ClaimDueJobs(w, S)
      PROVE  P!ClaimDueJobs(w, S)
  BY <1>1
  DEF Table!ClaimDueJobs, P!ClaimDueJobs, Table!Claimable, P!Claimable, Table!Claimed, P!Claimed,
    Table!Waiting, P!Waiting, Table!Cardinality, P!Cardinality, Table!IsFiniteSet, P!IsFiniteSet
<1>2. ASSUME NEW c \in batch[w], NEW o \in Table!Outcome, Table!HandlerReturns(w, c, o)
      PROVE  o \in P!Outcome /\ P!HandlerReturns(w, c, o)
  BY <1>2
  DEF Table!HandlerReturns, P!HandlerReturns, Table!NoVerdict, P!NoVerdict, Table!Outcome, P!Outcome
<1>3. Table!FenceOpen(w) <=> P!FenceOpen(w)
  BY DEF Table!FenceOpen, P!FenceOpen
<1>4. \A row, o : Table!Recorded(row, o) = P!Recorded(row, o)
  BY DEF Table!Recorded, P!Recorded, Table!StateAfter, P!StateAfter, Table!Exhausted, P!Exhausted
<1>5. CASE Table!Finish(w)
  <2>1. P!Finish(w)
    BY <1>3, <1>4, <1>5 DEF Table!Finish, P!Finish, Table!NoVerdict, P!NoVerdict
  <2>2. QED
    BY <2>1 DEF P!WorkerStep
<1>6. CASE Table!LoseLease(w) \/ Table!ApplyRaises(w) \/ Table!Crash(w)
  <2>1. P!LoseLease(w) \/ P!ApplyRaises(w) \/ P!Crash(w)
    BY <1>3, <1>6
    DEF Table!LoseLease, P!LoseLease, Table!ApplyRaises, P!ApplyRaises, Table!Crash, P!Crash,
      Table!AbandonPass, P!AbandonPass, Table!NoVerdict, P!NoVerdict
  <2>2. QED
    BY <2>1 DEF P!WorkerStep
<1>7. QED
  BY <1>1, <1>2, <1>5, <1>6 DEF Table!WorkerStep, P!WorkerStep

LEMMA SameJobStep ==
  ASSUME NEW r \in Requests, Table!JobStep(r)
  PROVE  P!JobStep(r)
<1>1. ASSUME NEW due \in {"later", "now"}, Table!Enqueue(r, due)
      PROVE  P!Enqueue(r, due)
  BY <1>1 DEF Table!Enqueue, P!Enqueue, Table!workerVars, P!workerVars
<1>2. CASE Table!BecomesDue(r) \/ Table!LeaseExpires(r)
  BY <1>2
  DEF P!JobStep, Table!BecomesDue, P!BecomesDue, Table!LeaseExpires, P!LeaseExpires,
    Table!Held, P!Held, Table!workerVars, P!workerVars
<1>3. CASE Table!RetryJob(r) \/ Table!ReconcileJob(r)
  BY <1>3
  DEF P!JobStep, Table!RetryJob, P!RetryJob, Table!ReconcileJob, P!ReconcileJob,
    Table!RetryableFrom, P!RetryableFrom, Table!LastOutcome, P!LastOutcome,
    Table!Requeued, P!Requeued, Table!Maximum, P!Maximum, Table!workerVars, P!workerVars
<1>4. QED
  BY <1>1, <1>2, <1>3 DEF Table!JobStep, P!JobStep

\* So a step of the table keeps its rows well typed.
LEMMA TableTyped ==
  ASSUME Table!TypeOK,
         \/ \E w \in Workers : Table!WorkerStep(w)
         \/ \E r \in Requests : Table!JobStep(r)
  PROVE  Table!TypeOK'
<1>1. P!TypeOK
  BY SameTable
<1>2. P!TypeOK'
  BY <1>1, TableAssumed, SameWorkerStep, SameJobStep, P!WorkerStepTypeOK, P!JobStepTypeOK
<1>3. Table!TypeOK' <=> P!TypeOK'
  BY DEF Table!TypeOK, P!TypeOK, Table!Claim, P!Claim, Table!Verdict, P!Verdict,
    Table!NoVerdict, P!NoVerdict, Table!Outcome, P!Outcome, Table!Row, P!Row,
    Table!JobState, P!JobState
<1>4. QED
  BY <1>2, <1>3

-----------------------------------------------------------------------------
(* Initially. *)

LEMMA InitInv == Init => IInv
<1> SUFFICES ASSUME Init PROVE IInv
  OBVIOUS
<1>1. Table!TypeOK
  <2>1. P!Init
    BY DEF Init, Table!Init, P!Init, Table!NoVerdict, P!NoVerdict
  <2>2. QED
    BY <2>1, TableAssumed, SameTable, P!InitTypeOK
<1>2. TypeOK
  <2>1. request \in [Requests -> RequestRow]
    BY DEF Init, RequestRow
  <2>2. certificates \in [Requests -> Seq(Certificate)]
    BY DEF Init
  <2>3. resumed \in [Requests -> 0..MaxResumes]
    BY IssuanceAssumption DEF Init
  <2>4. QED
    BY <1>1, <2>1, <2>2, <2>3 DEF Init, TypeOK
<1>3. RowsLinked /\ Certified
  BY DEF Init, Table!Init, RowsLinked, Certified, CaseOf
<1>4. ClaimsOpen /\ ClaimsExclusive
  BY DEF Init, Table!Init, ClaimsOpen, ClaimsExclusive
<1>5. (\A w \in Workers : RunHeld(w)) /\ RunsKnow
  BY DEF Init, Table!Init, RunHeld, RunsKnow
<1>6. AmbiguityRemembered
  BY DEF Init, Table!Init, AmbiguityRemembered, Table!Ended, Table!Positions
<1>7. QED
  BY <1>2, <1>3, <1>4, <1>5, <1>6 DEF IInv

-----------------------------------------------------------------------------
(* Inside the handler. *)

\* How other parties may change a request without a handler noticing.
Grows(old, new) ==
  /\ new.state = "PUBLISHED" <=> old.state = "PUBLISHED"
  /\ new.state = "ABSENT" <=> old.state = "ABSENT"
  /\ old.submitted => new.submitted
  /\ new.artifact \in Renders \/ new.artifact = old.artifact

\* A worker inside the handler.
LEMMA InHandler ==
  ASSUME IInv, NEW w \in Workers, run[w] # NoRun
  PROVE  /\ run[w] \in Run /\ run[w].claim \in batch[w] /\ Of(w) \in Requests
         /\ request[Of(w)] \in RequestRow
         /\ run[w].at \in Steps => verdict[w] = Table!NoVerdict
<1>1. run[w] \in Run /\ run[w].claim \in Table!Claim
  BY DEF IInv, TypeOK, Run
<1>2. Of(w) \in Requests
  BY <1>1 DEF Of, Table!Claim
<1>3. QED
  BY <1>1, <1>2 DEF IInv, TypeOK, RunHeld, Steps, Answers

\* A step of the handler: the worker moves to another place of the handler, and
\* writes at most the request it works on.
LEMMA HandlerKeeps ==
  ASSUME IInv, NEW w \in Workers, NEW n \in Run, NEW row \in RequestRow,
         n.claim \in batch[w], verdict[w] = Table!NoVerdict,
         run' = [run EXCEPT ![w] = n],
         request' = [request EXCEPT ![n.claim.job] = row],
         Grows(request[n.claim.job], row),
         Knows(n, row),
         signed' \in [Requests -> Artifact \cup {None}],
         IF n.at \in Answers THEN Table!HandlerReturns(w, n.claim, OutcomeOf[n.at])
                             ELSE UNCHANGED tableVars,
         UNCHANGED <<caseVars, certificates, resumed>>
  PROVE  IInv'
<1> DEFINE r == n.claim.job
<1>1. r \in Requests
  BY DEF IInv, TypeOK, Table!TypeOK, Table!Claim
<1>2. UNCHANGED <<job, attempts, batch, audit, faults, case, hold>>
  BY DEF tableVars, caseVars, Table!HandlerReturns, Table!workerVars
<1>3. /\ request'[r] = row
      /\ \A q \in Requests : q # r => request'[q] = request[q]
      /\ run'[w] = n /\ \A v \in Workers : v # w => run'[v] = run[v]
  BY <1>1 DEF IInv, TypeOK
<1>4. OutcomeOf \in [Answers -> Table!Outcome]
  BY DEF OutcomeOf, Answers, Table!Outcome
<1>5. Table!TypeOK'
  <2>1. CASE n.at \in Answers
    BY <1>4, <2>1, TableTyped DEF IInv, TypeOK, Table!WorkerStep
  <2>2. CASE n.at \notin Answers
    BY <2>2 DEF tableVars, IInv, TypeOK, Table!TypeOK
  <2>3. QED
    BY <2>1, <2>2
<1>6. TypeOK'
  BY <1>1, <1>2, <1>3, <1>5 DEF IInv, TypeOK
<1>7. RowsLinked' /\ Certified'
  <2>1. \A q \in Requests : /\ request'[q].state = "PUBLISHED" <=> request[q].state = "PUBLISHED"
                            /\ request'[q].state = "ABSENT" <=> request[q].state = "ABSENT"
                            /\ request[q].submitted => request'[q].submitted
                            /\ request[q].artifact \in Renders \cup {None} =>
                                 request'[q].artifact \in Renders \cup {None}
    BY <1>1, <1>3 DEF Grows
  <2>2. QED
    BY <1>2, <2>1, SMTT(30) DEF IInv, RowsLinked, Certified, CaseOf
<1>8. ClaimsOpen' /\ ClaimsExclusive'
  BY <1>2 DEF IInv, ClaimsOpen, ClaimsExclusive
<1>9. ASSUME NEW v \in Workers PROVE RunHeld(v)'
  <2>1. n # NoRun
    BY DEF Run, NoRun, Steps, Answers
  <2>2. CASE v = w
    <3>1. CASE n.at \in Answers
      <4>1. verdict'[w].claim = n.claim /\ verdict'[w].outcome = OutcomeOf[n.at]
        BY <3>1 DEF Table!HandlerReturns, IInv, TypeOK, Table!TypeOK
      <4>2. OutcomeOf[n.at] # "none"
        BY <1>4, <3>1 DEF Table!Outcome
      <4>3. verdict'[w] # Table!NoVerdict
        BY <4>1, <4>2 DEF Table!NoVerdict
      <4>4. QED
        BY <1>2, <1>3, <2>1, <2>2, <3>1, <4>1, <4>3 DEF RunHeld
    <3>2. CASE n.at \notin Answers
      BY <1>2, <1>3, <2>1, <2>2, <3>2 DEF RunHeld, tableVars
    <3>3. QED
      BY <3>1, <3>2
  <2>3. CASE v # w
    <3>1. verdict'[v] = verdict[v]
      BY <2>3 DEF tableVars, Table!HandlerReturns, IInv, TypeOK, Table!TypeOK
    <3>2. QED
      BY <1>2, <1>3, <2>3, <3>1 DEF IInv, RunHeld
  <2>4. QED
    BY <2>2, <2>3
<1>10. RunsKnow'
  <2> SUFFICES ASSUME NEW v \in Workers, run'[v] # NoRun
               PROVE  Knows(run'[v], request'[run'[v].claim.job])
    BY DEF RunsKnow, Of
  <2>1. CASE v = w
    BY <1>3, <2>1
  <2>2. CASE v # w
    <3>1. run'[v] = run[v] /\ Knows(run[v], request[run[v].claim.job])
      BY <1>3, <2>2 DEF IInv, RunsKnow, Of
    <3>2. run[v].claim.job \in Requests
      BY <3>1, InHandler DEF Of
    <3>3. CASE run[v].claim.job = r
      BY <1>3, <3>1, <3>3 DEF Grows, Knows
    <3>4. CASE run[v].claim.job # r
      BY <1>3, <3>1, <3>2, <3>4
    <3>5. QED
      BY <3>3, <3>4
  <2>3. QED
    BY <2>1, <2>2
<1>11. AmbiguityRemembered'
  BY <1>1, <1>2, <1>3 DEF IInv, AmbiguityRemembered, Table!Ended, Grows
<1>12. QED
  BY <1>6, <1>7, <1>8, <1>9, <1>10, <1>11 DEF IInv

\* The handler answers, having written the request it works on or not.
LEMMA AnswerKeeps ==
  ASSUME IInv, NEW w \in Workers, run[w] # NoRun, run[w].at \in Steps,
         NEW answer \in Answers, Answer(w, answer),
         NEW row \in RequestRow, request' = [request EXCEPT ![Of(w)] = row],
         Grows(request[Of(w)], row),
         answer = "publish" => row.artifact \in Renders /\ run[w].receipt \in Renders,
         answer = "unknown" => row.submitted,
         answer # "obsolete",
         signed' \in [Requests -> Artifact \cup {None}],
         UNCHANGED <<caseVars, certificates, resumed>>
  PROVE  IInv'
<1> DEFINE n == [claim |-> run[w].claim, at |-> answer, artifact |-> None, submitted |-> FALSE,
                 receipt |-> IF answer = "publish" THEN run[w].receipt ELSE None]
<1>1. run[w] \in Run /\ run[w].claim \in batch[w] /\ verdict[w] = Table!NoVerdict
  BY InHandler
<1>2. n \in Run
  BY <1>1 DEF Run
<1>3. Knows(n, row)
  BY DEF Knows, Answers
<1>4. run' = [run EXCEPT ![w] = n]
  BY DEF Answer
<1>5. n.at \in Answers /\ n.at = answer /\ n.claim = run[w].claim
  OBVIOUS
<1>6. Table!HandlerReturns(w, n.claim, OutcomeOf[n.at])
  BY DEF Answer
<1> HIDE DEF n
<1>7. QED
  BY <1>1, <1>2, <1>3, <1>4, <1>5, <1>6, HandlerKeeps DEF Of

\* The handler goes on, with what it has learnt.
LEMMA ProceedKeeps ==
  ASSUME IInv, NEW w \in Workers, run[w] # NoRun, run[w].at \in Steps,
         NEW n \in Run, n.claim = run[w].claim, n.at \in Steps,
         run' = [run EXCEPT ![w] = n],
         NEW row \in RequestRow, request' = [request EXCEPT ![Of(w)] = row],
         Grows(request[Of(w)], row),
         n.at \in {"sign", "submit", "verify"} =>
           n.artifact \in Renders /\ row.artifact \in Renders,
         signed' \in [Requests -> Artifact \cup {None}],
         UNCHANGED <<tableVars, caseVars, certificates, resumed>>
  PROVE  IInv'
<1>1. run[w].claim \in batch[w] /\ verdict[w] = Table!NoVerdict
  BY InHandler
<1>2. n.at \notin Answers
  BY DEF Steps, Answers
<1>3. Knows(n, row)
  BY <1>2 DEF Knows, Answers
<1>4. QED
  BY <1>1, <1>2, <1>3, HandlerKeeps DEF Of

\* _mark leaves a row that a handler may find.
LEMMA MarkedRow ==
  ASSUME NEW row \in RequestRow, NEW reached \in BOOLEAN, row.state # "ABSENT",
         row.state = "PUBLISHED" => row.submitted
  PROVE  /\ Marked(row, reached) \in RequestRow /\ Grows(row, Marked(row, reached))
         /\ reached => Marked(row, reached).submitted
BY DEF RequestRow, Marked, Grows

\* The rows a handler may leave: the request of a claim exists.
LEMMA RequestAtHand ==
  ASSUME IInv, NEW w \in Workers, run[w] # NoRun
  PROVE  /\ request[Of(w)] \in RequestRow
         /\ request[Of(w)].state # "ABSENT"
         /\ request[Of(w)].state = "PUBLISHED" => request[Of(w)].submitted
         /\ request[Of(w)].artifact \in Renders \cup {None}
         /\ request' = request => request' = [request EXCEPT ![Of(w)] = request[Of(w)]]
<1>1. run[w].claim \in batch[w] /\ Of(w) \in Requests /\ request[Of(w)] \in RequestRow
  BY InHandler
<1>2. job[Of(w)].token # 0
  <2>1. job[Of(w)].token \in Nat
    BY <1>1 DEF IInv, TypeOK, Table!TypeOK, Table!Row
  <2>2. QED
    BY <1>1, <2>1 DEF IInv, ClaimsOpen, Of
<1>3. QED
  BY <1>1, <1>2 DEF IInv, ClaimsOpen, RowsLinked, TypeOK

\* An answer after which the request is marked.
LEMMA MarkKeeps ==
  ASSUME IInv, NEW w \in Workers, run[w] # NoRun, run[w].at \in Steps,
         NEW reached \in BOOLEAN, Mark(Of(w), reached),
         \/ Answer(w, "failed")
         \/ Answer(w, "unknown") /\ reached,
         signed' \in [Requests -> Artifact \cup {None}],
         UNCHANGED <<caseVars, certificates, resumed>>
  PROVE  IInv'
<1>1. /\ request[Of(w)] \in RequestRow /\ request[Of(w)].state # "ABSENT"
      /\ request[Of(w)].state = "PUBLISHED" => request[Of(w)].submitted
  BY RequestAtHand
<1>2. request' = [request EXCEPT ![Of(w)] = Marked(request[Of(w)], reached)]
  BY DEF Mark
<1>3. {"failed", "unknown"} \subseteq Answers
  BY DEF Answers
<1>4. PICK row \in RequestRow : row = Marked(request[Of(w)], reached)
  BY <1>1, MarkedRow
<1>5. Grows(request[Of(w)], row) /\ (reached => row.submitted)
  BY <1>1, <1>4, MarkedRow
<1>6. CASE Answer(w, "failed")
  BY <1>2, <1>3, <1>4, <1>5, <1>6, AnswerKeeps
<1>7. CASE Answer(w, "unknown") /\ reached
  BY <1>2, <1>3, <1>4, <1>5, <1>7, AnswerKeeps
<1>8. QED
  BY <1>6, <1>7

LEMMA StartHandlerKeeps ==
  ASSUME IInv, NEW w \in Workers, NEW c \in batch[w], StartHandler(w, c)
  PROVE  IInv'
<1> DEFINE n == [claim |-> c, at |-> Admission(c.job), artifact |-> None,
                 submitted |-> FALSE, receipt |-> None]
<1>1. c \in Table!Claim /\ c.job \in Requests /\ request[c.job] \in RequestRow
  BY DEF IInv, TypeOK, Table!TypeOK, Table!Claim
<1>2. Admission(c.job) \in {"obsolete", "refused", "held", "freeze"}
  BY DEF Admission
<1>3. n \in Run
  BY <1>1, <1>2 DEF Run, Steps, Answers
<1>4. Admission(c.job) = "obsolete" => request[c.job].state = "PUBLISHED"
  BY DEF Admission
<1>5. Knows(n, request[c.job])
  BY <1>2, <1>4 DEF Knows
<1>6. n.claim = c /\ n.at = Admission(c.job)
  OBVIOUS
<1>7. /\ run' = [run EXCEPT ![w] = n] /\ verdict[w] = Table!NoVerdict
      /\ UNCHANGED <<request, caseVars, certificates, signed, resumed>>
  BY DEF StartHandler
<1>8. request' = [request EXCEPT ![c.job] = request[c.job]]
  BY <1>7 DEF IInv, TypeOK
<1>9. IF n.at \in Answers THEN Table!HandlerReturns(w, n.claim, OutcomeOf[n.at])
                          ELSE UNCHANGED tableVars
  BY <1>2, <1>6 DEF StartHandler, Answers
<1>10. signed' \in [Requests -> Artifact \cup {None}] /\ Grows(request[c.job], request[c.job])
  BY <1>7 DEF IInv, TypeOK, Grows
<1> HIDE DEF n
<1>11. QED
  BY <1>1, <1>3, <1>5, <1>6, <1>7, <1>8, <1>9, <1>10, HandlerKeeps

LEMMA EnsureSnapshotKeeps ==
  ASSUME IInv, NEW w \in Workers, EnsureSnapshot(w)
  PROVE  IInv'
<1> DEFINE row == [request[Of(w)] EXCEPT !.state =
                     IF @ \in {"READY", "RECONCILIATION_REQUIRED"} THEN "PROCESSING" ELSE @]
           n == [run[w] EXCEPT !.at = "read"]
<1>1. run[w] # NoRun /\ run[w].at \in Steps /\ run[w] \in Run /\ Of(w) \in Requests
  BY InHandler DEF EnsureSnapshot, At, Steps
<1>2. request[Of(w)] \in RequestRow
  BY <1>1, InHandler
<1>3. row \in RequestRow /\ Grows(request[Of(w)], row)
  BY <1>2 DEF RequestRow, Grows
<1>4. n \in Run /\ n.claim = run[w].claim /\ n.at = "read"
  BY <1>1 DEF Run, Steps
<1>5. request' = [request EXCEPT ![Of(w)] = row] /\ run' = [run EXCEPT ![w] = n]
  BY <1>1, <1>2 DEF EnsureSnapshot, Proceed, RequestRow
<1>6. UNCHANGED <<tableVars, caseVars, certificates, signed, resumed>>
  BY DEF EnsureSnapshot, Proceed
<1>7. signed' \in [Requests -> Artifact \cup {None}] /\ "read" \in Steps
  BY <1>6 DEF IInv, TypeOK, Steps
<1> HIDE DEF row, n
<1>8. QED
  BY <1>1, <1>3, <1>4, <1>5, <1>6, <1>7, ProceedKeeps

LEMMA ReadBackKeeps ==
  ASSUME IInv, NEW w \in Workers, ReadBack(w)
  PROVE  IInv'
<1> DEFINE row == request[Of(w)]
           step == CASE row.artifact = None -> "render"
                     [] row.artifact # None /\ row.submitted -> "sign"
                     [] OTHER -> "submit"
           n == [claim |-> run[w].claim, artifact |-> row.artifact, submitted |-> row.submitted,
                 receipt |-> None, at |-> step]
<1>1. run[w] # NoRun /\ run[w].at \in Steps /\ run[w] \in Run
  BY InHandler DEF ReadBack, At, Steps
<1>2. row \in RequestRow /\ row.artifact \in Renders \cup {None}
      /\ (request' = request => request' = [request EXCEPT ![Of(w)] = row])
  BY <1>1, RequestAtHand
<1>3. step \in {"render", "sign", "submit"} /\ (step \in {"sign", "submit"} => row.artifact # None)
  OBVIOUS
<1>4. n \in Run /\ n.claim = run[w].claim /\ n.at = step /\ n.artifact = row.artifact
  BY <1>1, <1>2, <1>3 DEF Run, RequestRow, Steps
<1>5. run' = [run EXCEPT ![w] = n]
      /\ UNCHANGED <<tableVars, request, caseVars, certificates, signed, resumed>>
  BY DEF ReadBack
<1>6. signed' \in [Requests -> Artifact \cup {None}] /\ {"render", "sign", "submit"} \subseteq Steps
  BY <1>5 DEF IInv, TypeOK, Steps
<1>7. Grows(row, row) /\ row = request[Of(w)]
  BY DEF Grows
<1> HIDE DEF row, n, step
<1>8. QED
  BY <1>1, <1>2, <1>3, <1>4, <1>5, <1>6, <1>7, ProceedKeeps

LEMMA RenderAndStoreKeeps ==
  ASSUME IInv, NEW w \in Workers, RenderAndStore(w)
  PROVE  IInv'
<1>1. run[w] # NoRun /\ run[w].at \in Steps /\ run[w] \in Run
  BY InHandler DEF RenderAndStore, At, Steps
<1>2. /\ request[Of(w)] \in RequestRow /\ request[Of(w)].state # "ABSENT"
      /\ request[Of(w)].state = "PUBLISHED" => request[Of(w)].submitted
  BY <1>1, RequestAtHand
<1>3. UNCHANGED <<caseVars, certificates, resumed>> /\ signed' \in [Requests -> Artifact \cup {None}]
  BY DEF RenderAndStore, IInv, TypeOK
<1>4. ASSUME NEW a \in Renders,
             request' = [request EXCEPT ![Of(w)].artifact = a],
             run' = [run EXCEPT ![w] =
               [claim |-> @.claim, artifact |-> a, submitted |-> @.submitted, receipt |-> None,
                at |-> IF @.submitted THEN "sign" ELSE "submit"]],
             UNCHANGED tableVars
      PROVE  IInv'
  <2> DEFINE row == [request[Of(w)] EXCEPT !.artifact = a]
             n == [claim |-> run[w].claim, artifact |-> a, submitted |-> run[w].submitted,
                   receipt |-> None, at |-> IF run[w].submitted THEN "sign" ELSE "submit"]
  <2>1. row \in RequestRow /\ row.artifact \in Renders /\ Grows(request[Of(w)], row)
    BY <1>2 DEF RequestRow, Artifact, Grows
  <2>2. n \in Run /\ n.claim = run[w].claim /\ n.at \in Steps /\ n.artifact \in Renders
    BY <1>1 DEF Run, Artifact, Steps
  <2>3. request' = [request EXCEPT ![Of(w)] = row] /\ run' = [run EXCEPT ![w] = n]
    BY <1>4
  <2> HIDE DEF row, n
  <2>4. QED
    BY <1>1, <1>3, <1>4, <2>1, <2>2, <2>3, ProceedKeeps
<1>5. CASE Mark(Of(w), FALSE) /\ Answer(w, "failed")
  BY <1>1, <1>3, <1>5, MarkKeeps
<1>6. QED
  BY <1>4, <1>5 DEF RenderAndStore

\* A receipt comes back from the signer, now or from an earlier submission.
LEMMA KeepReceiptKeeps ==
  ASSUME IInv, NEW w \in Workers, run[w] # NoRun, run[w].at \in {"sign", "submit"},
         NEW x \in Artifact, KeepReceipt(w, x),
         signed' \in [Requests -> Artifact \cup {None}],
         UNCHANGED <<caseVars, certificates, resumed>>
  PROVE  IInv'
<1> DEFINE n == [claim |-> run[w].claim, at |-> "verify", receipt |-> x,
                 artifact |-> run[w].artifact, submitted |-> run[w].submitted]
<1>1. run[w] \in Run /\ run[w].at \in Steps
  BY InHandler DEF Steps
<1>2. request[Of(w)] \in RequestRow
      /\ (request' = request => request' = [request EXCEPT ![Of(w)] = request[Of(w)]])
  BY RequestAtHand
<1>3. run[w].artifact \in Renders /\ request[Of(w)].artifact \in Renders
  BY DEF IInv, RunsKnow, Knows
<1>4. n \in Run /\ n.claim = run[w].claim /\ n.at = "verify" /\ n.artifact = run[w].artifact
  BY <1>1 DEF Run, Steps
<1>5. run' = [run EXCEPT ![w] = n] /\ UNCHANGED <<tableVars, request>>
  BY DEF KeepReceipt
<1>6. Grows(request[Of(w)], request[Of(w)]) /\ "verify" \in Steps
  BY DEF Grows, Steps
<1> HIDE DEF n
<1>7. QED
  BY <1>1, <1>2, <1>3, <1>4, <1>5, <1>6, ProceedKeeps

LEMMA LookUpKeeps ==
  ASSUME IInv, NEW w \in Workers, LookUp(w)
  PROVE  IInv'
<1>1. /\ run[w] # NoRun /\ run[w].at = "sign" /\ run[w].at \in Steps
      /\ run[w] \in Run /\ Of(w) \in Requests
  BY InHandler DEF LookUp, At, Steps
<1>2. UNCHANGED <<caseVars, certificates, signed, resumed>>
      /\ signed' \in [Requests -> Artifact \cup {None}]
  BY DEF LookUp, IInv, TypeOK
<1>3. CASE signed[Of(w)] # None /\ KeepReceipt(w, signed[Of(w)])
  <2>1. signed[Of(w)] \in Artifact
    BY <1>1, <1>3 DEF IInv, TypeOK
  <2>2. QED
    BY <1>1, <1>2, <1>3, <2>1, KeepReceiptKeeps
<1>4. CASE Proceed(w, "submit") /\ UNCHANGED request
  <2>1. PICK n \in Run : n = [run[w] EXCEPT !.at = "submit"]
    BY <1>1 DEF Run, Steps
  <2>2. n.claim = run[w].claim /\ n.at = "submit" /\ n.artifact = run[w].artifact
    BY <1>1, <2>1 DEF Run
  <2>3. run' = [run EXCEPT ![w] = n] /\ UNCHANGED tableVars
    BY <1>4, <2>1 DEF Proceed
  <2>4. request[Of(w)] \in RequestRow /\ request' = [request EXCEPT ![Of(w)] = request[Of(w)]]
    BY <1>1, <1>4, RequestAtHand
  <2>5. run[w].artifact \in Renders /\ request[Of(w)].artifact \in Renders
    BY <1>1 DEF IInv, RunsKnow, Knows
  <2>6. Grows(request[Of(w)], request[Of(w)]) /\ "submit" \in Steps
    BY DEF Grows, Steps
  <2>7. QED
    BY <1>1, <1>2, <2>2, <2>3, <2>4, <2>5, <2>6, ProceedKeeps
<1>5. CASE Mark(Of(w), TRUE) /\ Answer(w, "unknown")
  BY <1>1, <1>2, <1>5, MarkKeeps
<1>6. QED
  BY <1>3, <1>4, <1>5 DEF LookUp

LEMMA SubmitKeeps ==
  ASSUME IInv, NEW w \in Workers, Submit(w)
  PROVE  IInv'
<1>1. /\ run[w] # NoRun /\ run[w].at = "submit" /\ run[w].at \in Steps
      /\ run[w] \in Run /\ Of(w) \in Requests
  BY InHandler DEF Submit, At, Steps
<1>2. UNCHANGED <<caseVars, certificates, resumed>>
  BY DEF Submit
<1>3. run[w].artifact \in Renders
  BY <1>1 DEF IInv, RunsKnow, Knows
<1>4. ASSUME NEW x \in {run[w].artifact} \cup OtherArtifacts,
             signed' = [signed EXCEPT ![Of(w)] = x],
             KeepReceipt(w, x) \/ (Mark(Of(w), TRUE) /\ Answer(w, "unknown"))
      PROVE  IInv'
  <2>1. x \in Artifact /\ signed' \in [Requests -> Artifact \cup {None}]
    BY <1>3, <1>4 DEF Artifact, IInv, TypeOK
  <2>2. QED
    BY <1>1, <1>2, <1>4, <2>1, KeepReceiptKeeps, MarkKeeps
<1>5. ASSUME UNCHANGED signed, NEW reached \in BOOLEAN, Mark(Of(w), reached),
             (Answer(w, "unknown") /\ reached) \/ Answer(w, "failed")
      PROVE  IInv'
  <2>1. signed' \in [Requests -> Artifact \cup {None}]
    BY <1>5 DEF IInv, TypeOK
  <2>2. QED
    BY <1>1, <1>2, <1>5, <2>1, MarkKeeps
<1>6. QED
  BY <1>4, <1>5 DEF Submit

LEMMA VerifyKeeps ==
  ASSUME IInv, NEW w \in Workers, Verify(w)
  PROVE  IInv'
<1>1. run[w] # NoRun /\ run[w].at = "verify" /\ run[w].at \in Steps
  BY DEF Verify, At, Steps
<1>2. UNCHANGED <<caseVars, certificates, signed, resumed>>
      /\ signed' \in [Requests -> Artifact \cup {None}]
  BY DEF Verify, IInv, TypeOK
<1>3. run[w].artifact \in Renders /\ request[Of(w)].artifact \in Renders
  BY <1>1 DEF IInv, RunsKnow, Knows
<1>4. CASE Verifies(run[w].artifact, run[w].receipt)
  <2>1. Answer(w, "publish") /\ UNCHANGED request /\ run[w].receipt \in Renders
    BY <1>3, <1>4 DEF Verify, Verifies
  <2>2. request[Of(w)] \in RequestRow /\ request' = [request EXCEPT ![Of(w)] = request[Of(w)]]
    BY <1>1, <2>1, RequestAtHand
  <2>3. Grows(request[Of(w)], request[Of(w)]) /\ "publish" \in Answers
    BY DEF Grows, Answers
  <2>4. QED
    BY <1>1, <1>2, <1>3, <2>1, <2>2, <2>3, AnswerKeeps
<1>5. CASE ~Verifies(run[w].artifact, run[w].receipt)
  BY <1>1, <1>2, <1>5, MarkKeeps DEF Verify
<1>6. QED
  BY <1>4, <1>5

LEMMA GiveUpKeeps ==
  ASSUME IInv, NEW w \in Workers, GiveUp(w)
  PROVE  IInv'
<1>1. /\ run[w] # NoRun /\ run[w].at \in Steps /\ Answer(w, "unavailable")
      /\ UNCHANGED <<request, caseVars, certificates, signed, resumed>>
      /\ signed' \in [Requests -> Artifact \cup {None}]
  BY DEF GiveUp, IInv, TypeOK
<1>2. request[Of(w)] \in RequestRow /\ request' = [request EXCEPT ![Of(w)] = request[Of(w)]]
  BY <1>1, RequestAtHand
<1>3. Grows(request[Of(w)], request[Of(w)]) /\ "unavailable" \in Answers
  BY DEF Grows, Answers
<1>4. QED
  BY <1>1, <1>2, <1>3, AnswerKeeps

-----------------------------------------------------------------------------
(* The rest of the worker pass. *)

\* Histories, as JobQueueProofs writes them.
LEMMA Histories ==
  /\ \A s, o : Table!Positions(s, o) = P!Positions(s, o)
  /\ Table!Outcome = P!Outcome
  /\ "UNKNOWN" \in Table!Outcome
BY DEF Table!Positions, P!Positions, Table!Outcome, P!Outcome

\* The rows of a state, one by one.
LEMMA RowFacts ==
  ASSUME IInv, NEW r \in Requests
  PROVE  /\ job[r] \in Table!Row /\ job[r].token \in Nat
         /\ attempts[r] \in Seq(Table!Outcome \cup {"open"})
         /\ Len(attempts[r]) = job[r].token
BY DEF IInv, TypeOK, Table!TypeOK, Table!Row, ClaimsOpen

LEMMA ClaimKeeps ==
  ASSUME IInv, NEW w \in Workers, NEW S \in SUBSET Requests, ClaimDueJobs(w, S)
  PROVE  IInv'
<1>1. Table!ClaimDueJobs(w, S) /\ UNCHANGED <<request, caseVars, certificates, signed, run, resumed>>
  BY DEF ClaimDueJobs
<1>2. TypeOK'
  <2>1. Table!TypeOK'
    BY <1>1, TableTyped DEF IInv, TypeOK, Table!WorkerStep
  <2>2. QED
    BY <1>1, <2>1 DEF IInv, TypeOK, caseVars
<1>3. \A r \in Requests :
        /\ job'[r] = IF r \in S THEN Table!Claimed(job[r]) ELSE job[r]
        /\ attempts'[r] = IF r \in S THEN Append(attempts[r], "open") ELSE attempts[r]
  BY <1>1 DEF Table!ClaimDueJobs
<1>4. \A r \in S : /\ job[r].state \in {"PENDING", "RETRY_WAIT", "RUNNING"}
                   /\ job'[r].state = "RUNNING" /\ job'[r].token = job[r].token + 1
  BY <1>1, <1>3 DEF Table!ClaimDueJobs, Table!Claimable, Table!Waiting, Table!Claimed
<1>5. \A r \in S : /\ Len(attempts'[r]) = job[r].token + 1
                   /\ attempts'[r][job[r].token + 1] = "open"
                   /\ \A n \in 1..job[r].token : attempts'[r][n] = attempts[r][n]
  <2> SUFFICES ASSUME NEW r \in S
               PROVE  /\ Len(attempts'[r]) = job[r].token + 1
                      /\ attempts'[r][job[r].token + 1] = "open"
                      /\ \A n \in 1..job[r].token : attempts'[r][n] = attempts[r][n]
    OBVIOUS
  <2>1. attempts[r] \in Seq(Table!Outcome \cup {"open"}) /\ Len(attempts[r]) = job[r].token
    BY RowFacts
  <2>2. attempts'[r] = Append(attempts[r], "open")
    BY <1>3
  <2>3. QED
    BY <2>1, <2>2
<1>6. \A v \in Workers :
        batch'[v] = IF v = w THEN {[job |-> r, token |-> job[r].token + 1] : r \in S} ELSE batch[v]
  BY <1>1 DEF Table!ClaimDueJobs, IInv, TypeOK, Table!TypeOK
<1>7. RowsLinked' /\ Certified'
  BY <1>1, <1>3, <1>4 DEF IInv, RowsLinked, Certified, caseVars
<1>8. \A v \in Workers : \A c \in batch[v] :
        c \in Table!Claim /\ c.job \in Requests /\ c.token \in 1..job[c.job].token
  BY DEF IInv, ClaimsOpen, TypeOK, Table!TypeOK, Table!Claim
<1>9. ClaimsOpen'
  <2>1. ASSUME NEW r \in Requests
        PROVE  Len(attempts'[r]) = job'[r].token /\ (job'[r].state = "ABSENT" => job'[r].token = 0)
    <3>1. CASE r \in S
      BY <1>4, <1>5, <3>1
    <3>2. CASE r \notin S
      BY <1>3, <3>2 DEF IInv, ClaimsOpen
    <3>3. QED
      BY <3>1, <3>2
  <2>2. ASSUME NEW v \in Workers, NEW c \in batch'[v]
        PROVE  /\ c.token \in 1..job'[c.job].token
               /\ attempts'[c.job][c.token] = "open"
               /\ c.token = job'[c.job].token => job'[c.job].state \in {"RUNNING", "PENDING"}
    <3>1. CASE v = w
      <4>1. PICK r \in S : c = [job |-> r, token |-> job[r].token + 1]
        BY <1>6, <3>1
      <4>2. job[r].token \in Nat
        BY RowFacts
      <4>3. QED
        BY <1>4, <1>5, <4>1, <4>2
    <3>2. CASE v # w
      <4>1. /\ c \in batch[v] /\ c.job \in Requests
            /\ c.token \in 1..job[c.job].token /\ attempts[c.job][c.token] = "open"
            /\ c.token = job[c.job].token => job[c.job].state \in {"RUNNING", "PENDING"}
        BY <1>6, <1>8, <3>2 DEF IInv, ClaimsOpen
      <4>2. job[c.job].token \in Nat
        BY <4>1, RowFacts
      <4>3. CASE c.job \in S
        BY <1>4, <1>5, <4>1, <4>2, <4>3
      <4>4. CASE c.job \notin S
        BY <1>3, <4>1, <4>4
      <4>5. QED
        BY <4>3, <4>4
    <3>3. QED
      BY <3>1, <3>2
  <2>3. QED
    BY <2>1, <2>2 DEF ClaimsOpen
<1>10. ClaimsExclusive'
  <2>1. ASSUME NEW v \in Workers, NEW c \in batch[v], NEW r \in S
        PROVE  c # [job |-> r, token |-> job[r].token + 1]
    <3>1. job[r].token \in Nat /\ job[c.job].token \in Nat /\ c.token \in 1..job[c.job].token
      BY <1>8, RowFacts
    <3>2. c = [job |-> r, token |-> job[r].token + 1] => c.job = r /\ c.token = job[r].token + 1
      OBVIOUS
    <3>3. QED
      BY <3>1, <3>2
  <2>2. ASSUME NEW u \in Workers, NEW v \in Workers, u # v, NEW c \in batch'[u]
        PROVE  c \notin batch'[v]
    <3>1. batch[u] \cap batch[v] = {}
      BY <2>2 DEF IInv, ClaimsExclusive
    <3>2. CASE u = w
      BY <1>6, <2>1, <2>2, <3>2, ZenonT(30)
    <3>3. CASE v = w
      BY <1>6, <2>1, <2>2, <3>3, ZenonT(30)
    <3>4. CASE u # w /\ v # w
      BY <1>6, <2>2, <3>1, <3>4
    <3>5. QED
      BY <3>2, <3>3, <3>4
  <2>3. QED
    BY <2>2 DEF ClaimsExclusive
<1>11. run[w] = NoRun /\ verdict' = verdict
  BY <1>1, InHandler DEF Table!ClaimDueJobs
<1>12. (\A v \in Workers : RunHeld(v)') /\ RunsKnow'
  BY <1>1, <1>6, <1>11 DEF IInv, RunHeld, RunsKnow, Of
<1>13. AmbiguityRemembered'
  <2>1. ASSUME NEW r \in Requests
        PROVE  Table!Ended(r, "UNKNOWN")' = Table!Ended(r, "UNKNOWN")
    BY <1>3, RowFacts, Histories, P!PositionsAppend, TableAssumed DEF Table!Ended
  <2>2. QED
    BY <1>1, <2>1 DEF IInv, AmbiguityRemembered
<1>14. QED
  BY <1>2, <1>7, <1>9, <1>10, <1>12, <1>13 DEF IInv

\* A handler's memory goes, with its claim or with the whole batch.
LEMMA DropKeeps ==
  ASSUME IInv, NEW w \in Workers, Drop(w)
  PROVE  IInv'
<1>1. Table!LoseLease(w) \/ Table!Crash(w) \/ Table!ApplyRaises(w)
  BY DEF Drop
<1>2. /\ UNCHANGED <<job, attempts, audit>>
      /\ batch'[w] \subseteq batch[w] /\ verdict'[w] = Table!NoVerdict
      /\ \A v \in Workers : v # w => batch'[v] = batch[v] /\ verdict'[v] = verdict[v]
  BY <1>1
  DEF Table!LoseLease, Table!ApplyRaises, Table!Crash, Table!AbandonPass, IInv, TypeOK, Table!TypeOK
<1>3. /\ UNCHANGED <<request, caseVars, certificates, signed, resumed>>
      /\ run'[w] = NoRun /\ \A v \in Workers : v # w => run'[v] = run[v]
      /\ run' \in [Workers -> Run \cup {NoRun}]
  BY DEF Drop, IInv, TypeOK
<1>4. TypeOK'
  <2>1. Table!TypeOK'
    BY <1>1, TableTyped DEF IInv, TypeOK, Table!WorkerStep
  <2>2. QED
    BY <1>3, <2>1 DEF IInv, TypeOK, caseVars
<1>5. RowsLinked' /\ Certified' /\ AmbiguityRemembered'
  BY <1>2, <1>3 DEF IInv, RowsLinked, Certified, AmbiguityRemembered, Table!Ended, caseVars
<1>6. ClaimsOpen' /\ ClaimsExclusive'
  BY <1>2 DEF IInv, ClaimsOpen, ClaimsExclusive
<1>7. (\A v \in Workers : RunHeld(v)') /\ RunsKnow'
  BY <1>2, <1>3 DEF IInv, RunHeld, RunsKnow, Of
<1>8. QED
  BY <1>4, <1>5, <1>6, <1>7 DEF IInv

\* What a completion writes: the answer of the handler, over the newest attempt, which
\* was open, of a job that is not complete.
LEMMA FinishWrites ==
  ASSUME IInv, NEW w \in Workers, Finish(w)
  PROVE  LET c == run[w].claim
             o == OutcomeOf[run[w].at]
         IN /\ run[w] \in Run /\ run[w].at \in Answers /\ c \in batch[w]
            /\ c \in Table!Claim /\ c.job \in Requests
            /\ o \in Table!Outcome
            /\ c.token = job[c.job].token /\ c.token \in 1..Len(attempts[c.job])
            /\ attempts[c.job][c.token] = "open"
            /\ job[c.job].state \in {"RUNNING", "PENDING"}
            /\ job' = [job EXCEPT ![c.job] = Table!Recorded(job[c.job], o)]
            /\ attempts' = [attempts EXCEPT ![c.job] = [attempts[c.job] EXCEPT ![c.token] = o]]
            /\ batch' = [batch EXCEPT ![w] = batch[w] \ {c}]
            /\ verdict' = [verdict EXCEPT ![w] = Table!NoVerdict]
            /\ run' = [run EXCEPT ![w] = NoRun]
<1> DEFINE c == run[w].claim
           o == OutcomeOf[run[w].at]
<1>1. verdict[w] # Table!NoVerdict /\ Table!FenceOpen(w)
  BY DEF Finish, Table!Finish
<1>2. /\ run[w] # NoRun /\ run[w].at \in Answers /\ c \in batch[w]
      /\ verdict[w].claim = c /\ verdict[w].outcome = o
  BY <1>1 DEF IInv, RunHeld
<1>3. c \in Table!Claim /\ c.job \in Requests /\ run[w] \in Run
  BY <1>2 DEF IInv, TypeOK, Table!TypeOK, Table!Claim
<1>4. OutcomeOf \in [Answers -> Table!Outcome]
  BY DEF OutcomeOf, Answers, Table!Outcome
<1>5. o \in Table!Outcome
  BY <1>2, <1>4
<1>6. c.token = job[c.job].token
  BY <1>1, <1>2 DEF Table!FenceOpen
<1>7. /\ c.token \in 1..Len(attempts[c.job]) /\ attempts[c.job][c.token] = "open"
      /\ job[c.job].state \in {"RUNNING", "PENDING"}
  BY <1>2, <1>3, <1>6 DEF IInv, ClaimsOpen
<1>8. /\ job' = [job EXCEPT ![c.job] = Table!Recorded(job[c.job], o)]
      /\ attempts' = [attempts EXCEPT ![c.job] = [attempts[c.job] EXCEPT ![c.token] = o]]
      /\ batch' = [batch EXCEPT ![w] = batch[w] \ {c}]
      /\ verdict' = [verdict EXCEPT ![w] = Table!NoVerdict]
      /\ run' = [run EXCEPT ![w] = NoRun]
  BY <1>2 DEF Finish, Table!Finish
<1>9. QED
  BY <1>2, <1>3, <1>5, <1>6, <1>7, <1>8

\* What the completion transaction does to the request: it publishes exactly when it
\* completes the job.
LEMMA FinishPublishes ==
  ASSUME IInv, NEW w \in Workers, Finish(w)
  PROVE  LET r == Of(w)
             o == OutcomeOf[run[w].at]
         IN /\ request[r].state \notin {"ABSENT", "PUBLISHED"}
            /\ o = "SUCCESS" <=> run[w].at = "publish"
            /\ o = "UNKNOWN" => request[r].submitted
            /\ IF run[w].at = "publish"
               THEN /\ request[r].artifact \in Renders /\ run[w].receipt \in Renders
                    /\ certificates[r] = <<>>
                    /\ certificates' = [certificates EXCEPT ![r] =
                         <<[artifact |-> request[r].artifact, receipt |-> run[w].receipt]>>]
                    /\ case' = [case EXCEPT ![r] = "COMPLETED"]
                    /\ request' = [request EXCEPT ![r] =
                         [state |-> "PUBLISHED", artifact |-> request[r].artifact, submitted |-> TRUE]]
               ELSE UNCHANGED <<request, case, certificates>>
<1> DEFINE r == Of(w)
<1>1. run[w] # NoRun /\ run[w].at \in Answers /\ r \in Requests /\ job[r].state \in {"RUNNING", "PENDING"}
  <2>1. run[w].at \in Answers /\ r \in Requests /\ job[r].state \in {"RUNNING", "PENDING"}
    BY FinishWrites DEF Of
  <2>2. NoRun.at \notin Answers
    BY DEF NoRun, Answers
  <2>3. QED
    BY <2>1, <2>2
<1>2. request[r].state \notin {"ABSENT", "PUBLISHED"} /\ case[r] = "APPROVED_PENDING_ISSUE"
      /\ certificates[r] = <<>>
  BY <1>1 DEF IInv, RowsLinked, Certified, CaseOf
<1>3. Knows(run[w], request[r])
  BY <1>1 DEF IInv, RunsKnow
<1>4. run[w].at # "obsolete"
  BY <1>2, <1>3 DEF Knows
<1>5. OutcomeOf[run[w].at] = "SUCCESS" <=> run[w].at = "publish"
  BY <1>1, <1>4 DEF OutcomeOf, Answers
<1>6. OutcomeOf[run[w].at] = "UNKNOWN" => run[w].at = "unknown"
  BY <1>1 DEF OutcomeOf, Answers
<1>7. CASE run[w].at = "publish"
  <2>1. request[r].artifact \in Renders /\ run[w].receipt \in Renders
    BY <1>3, <1>7 DEF Knows
  <2>2. Publishable(r)
    BY <1>2, <2>1, IssuanceAssumption DEF Publishable, IssuanceAssumption
  <2>3. Publish(r, run[w].receipt)
    BY <1>1, <1>7 DEF Finish, Publishing, At
  <2>4. Append(certificates[r], [artifact |-> request[r].artifact, receipt |-> run[w].receipt])
          = <<[artifact |-> request[r].artifact, receipt |-> run[w].receipt]>>
    BY <1>2
  <2>5. QED
    BY <1>2, <1>5, <1>6, <1>7, <2>1, <2>2, <2>3, <2>4 DEF Publish
<1>8. CASE run[w].at # "publish"
  <2>1. UNCHANGED <<request, case, certificates>>
    BY <1>8 DEF Finish, Publishing, At
  <2>2. QED
    BY <1>2, <1>3, <1>5, <1>6, <1>8, <2>1 DEF Knows
<1>9. QED
  BY <1>7, <1>8

LEMMA FinishKeeps ==
  ASSUME IInv, NEW w \in Workers, Finish(w)
  PROVE  IInv'
<1> DEFINE c == run[w].claim
           r == c.job
           o == OutcomeOf[run[w].at]
<1>1. /\ run[w] \in Run /\ run[w].at \in Answers /\ c \in batch[w]
      /\ c \in Table!Claim /\ r \in Requests /\ o \in Table!Outcome
      /\ c.token = job[r].token /\ c.token \in 1..Len(attempts[r])
      /\ attempts[r][c.token] = "open" /\ job[r].state \in {"RUNNING", "PENDING"}
  BY FinishWrites
<1>2. /\ job' = [job EXCEPT ![r] = Table!Recorded(job[r], o)]
      /\ attempts' = [attempts EXCEPT ![r] = [attempts[r] EXCEPT ![c.token] = o]]
      /\ batch' = [batch EXCEPT ![w] = batch[w] \ {c}]
      /\ verdict' = [verdict EXCEPT ![w] = Table!NoVerdict]
      /\ run' = [run EXCEPT ![w] = NoRun]
      /\ UNCHANGED <<hold, signed, resumed>>
  BY FinishWrites DEF Finish
<1>3. /\ request[r].state \notin {"ABSENT", "PUBLISHED"}
      /\ o = "SUCCESS" <=> run[w].at = "publish"
      /\ o = "UNKNOWN" => request[r].submitted
      /\ IF run[w].at = "publish"
         THEN /\ request[r].artifact \in Renders /\ run[w].receipt \in Renders
              /\ certificates' = [certificates EXCEPT ![r] =
                   <<[artifact |-> request[r].artifact, receipt |-> run[w].receipt]>>]
              /\ case' = [case EXCEPT ![r] = "COMPLETED"]
              /\ request' = [request EXCEPT ![r] =
                   [state |-> "PUBLISHED", artifact |-> request[r].artifact, submitted |-> TRUE]]
         ELSE UNCHANGED <<request, case, certificates>>
  BY FinishPublishes DEF Of
<1> HIDE DEF o
<1>4. /\ \A q \in Requests : q # r => /\ job'[q] = job[q] /\ attempts'[q] = attempts[q]
                                      /\ request'[q] = request[q] /\ case'[q] = case[q]
                                      /\ certificates'[q] = certificates[q]
      /\ job'[r].token = job[r].token
      /\ job'[r].state \notin {"ABSENT", "RUNNING"}
      /\ job'[r].state = "COMPLETE" <=> o = "SUCCESS"
  BY <1>1, <1>2, <1>3
  DEF IInv, TypeOK, Table!TypeOK, Table!Recorded, Table!StateAfter, Table!Outcome
<1>5. /\ Len(attempts'[r]) = Len(attempts[r])
      /\ \A n \in 1..Len(attempts[r]) : attempts'[r][n] = IF n = c.token THEN o ELSE attempts[r][n]
      /\ P!Positions(attempts'[r], "UNKNOWN") =
           IF o = "UNKNOWN" THEN P!Positions(attempts[r], "UNKNOWN") \cup {c.token}
                            ELSE P!Positions(attempts[r], "UNKNOWN")
  <2>1. attempts[r] \in Seq(P!Outcome \cup {"open"}) /\ o \in P!Outcome /\ "UNKNOWN" \in P!Outcome
    BY <1>1, RowFacts, Histories
  <2>2. attempts'[r] = [attempts[r] EXCEPT ![c.token] = o]
    BY <1>1, <1>2 DEF IInv, TypeOK, Table!TypeOK
  <2>3. /\ Len([attempts[r] EXCEPT ![c.token] = o]) = Len(attempts[r])
        /\ \A n \in 1..Len(attempts[r]) :
             [attempts[r] EXCEPT ![c.token] = o][n] = IF n = c.token THEN o ELSE attempts[r][n]
    BY <2>1, TableAssumed, P!WriteSeq
  <2>4. P!Positions([attempts[r] EXCEPT ![c.token] = o], "UNKNOWN") =
          IF o = "UNKNOWN" THEN P!Positions(attempts[r], "UNKNOWN") \cup {c.token}
                           ELSE P!Positions(attempts[r], "UNKNOWN")
    <3>1. PICK h, n : h = attempts[r] /\ n = c.token
      OBVIOUS
    <3>2. h \in Seq(P!Outcome \cup {"open"}) /\ n \in 1..Len(h) /\ h[n] = "open"
      BY <1>1, <2>1, <3>1
    <3>3. /\ P!Positions([h EXCEPT ![n] = o], o) = P!Positions(h, o) \cup {n}
          /\ "UNKNOWN" # o => P!Positions([h EXCEPT ![n] = o], "UNKNOWN")
                                = P!Positions(h, "UNKNOWN")
      BY <2>1, <3>2, TableAssumed, P!PositionsWrite
    <3>4. QED
      BY <3>1, <3>3
  <2>5. QED
    BY <2>2, <2>3, <2>4
<1>6. TypeOK'
  <2>1. Table!TypeOK'
    BY TableTyped DEF Finish, Table!WorkerStep, IInv, TypeOK
  <2>2. request' \in [Requests -> RequestRow]
    <3>1. CASE run[w].at = "publish"
      <4>1. [state |-> "PUBLISHED", artifact |-> request[r].artifact, submitted |-> TRUE] \in RequestRow
        BY <1>3, <3>1 DEF RequestRow, Artifact
      <4>2. QED
        BY <1>1, <1>3, <3>1, <4>1 DEF IInv, TypeOK
    <3>2. CASE run[w].at # "publish"
      BY <1>3, <3>2 DEF IInv, TypeOK
    <3>3. QED
      BY <3>1, <3>2
  <2>3. case' \in [Requests -> {"REVIEW_PENDING", "APPROVED_PENDING_ISSUE", "COMPLETED"}]
    BY <1>1, <1>3 DEF IInv, TypeOK
  <2>4. certificates' \in [Requests -> Seq(Certificate)]
    <3>1. CASE run[w].at = "publish"
      <4>1. [artifact |-> request[r].artifact, receipt |-> run[w].receipt] \in Certificate
        BY <1>3, <3>1 DEF Certificate, Artifact
      <4>2. <<[artifact |-> request[r].artifact, receipt |-> run[w].receipt]>> \in Seq(Certificate)
        BY <4>1
      <4>3. QED
        BY <1>1, <1>3, <3>1, <4>2 DEF IInv, TypeOK
    <3>2. CASE run[w].at # "publish"
      BY <1>3, <3>2 DEF IInv, TypeOK
    <3>3. QED
      BY <3>1, <3>2
  <2>5. run' \in [Workers -> Run \cup {NoRun}]
    BY <1>2 DEF IInv, TypeOK
  <2>6. QED
    BY <1>2, <2>1, <2>2, <2>3, <2>4, <2>5 DEF IInv, TypeOK
<1>7. RowsLinked'
  <2>1. ASSUME NEW q \in Requests, q # r
        PROVE  /\ job'[q].state = "ABSENT" <=> request'[q].state = "ABSENT"
               /\ job'[q].state = "COMPLETE" <=> request'[q].state = "PUBLISHED"
               /\ case'[q] = CaseOf(request'[q].state)
               /\ request'[q].state = "PUBLISHED" => request'[q].submitted
               /\ request'[q].artifact \in Renders \cup {None}
    BY <1>4, <2>1 DEF IInv, RowsLinked
  <2>2. /\ job'[r].state = "ABSENT" <=> request'[r].state = "ABSENT"
        /\ job'[r].state = "COMPLETE" <=> request'[r].state = "PUBLISHED"
        /\ case'[r] = CaseOf(request'[r].state)
        /\ request'[r].state = "PUBLISHED" => request'[r].submitted
        /\ request'[r].artifact \in Renders \cup {None}
    <3>1. CASE run[w].at = "publish"
      <4>1. /\ request'[r].state = "PUBLISHED" /\ request'[r].submitted
            /\ request'[r].artifact = request[r].artifact
            /\ case'[r] = "COMPLETED"
        BY <1>1, <1>3, <3>1 DEF IInv, TypeOK
      <4>2. job'[r].state = "COMPLETE"
        BY <1>3, <1>4, <3>1
      <4>3. CaseOf("PUBLISHED") = "COMPLETED"
        BY DEF CaseOf
      <4>4. QED
        BY <1>3, <3>1, <4>1, <4>2, <4>3
    <3>2. CASE run[w].at # "publish"
      <4>1. request'[r] = request[r] /\ case'[r] = case[r]
        BY <1>3, <3>2
      <4>2. job'[r].state \notin {"ABSENT", "COMPLETE"}
        BY <1>3, <1>4, <3>2
      <4>3. request[r].state \notin {"ABSENT", "PUBLISHED"}
        BY <1>3
      <4>4. case[r] = CaseOf(request[r].state) /\ request[r].artifact \in Renders \cup {None}
        BY <1>1 DEF IInv, RowsLinked
      <4>5. QED
        BY <4>1, <4>2, <4>3, <4>4
    <3>3. QED
      BY <3>1, <3>2
  <2>3. QED
    BY <2>1, <2>2 DEF RowsLinked
<1>8. Certified'
  <2>1. IF request'[r].state = "PUBLISHED"
        THEN \E a, x \in Renders : certificates'[r] = <<[artifact |-> a, receipt |-> x]>>
        ELSE certificates'[r] = <<>>
    <3>1. CASE run[w].at = "publish"
      <4>1. /\ request'[r].state = "PUBLISHED"
            /\ certificates'[r] = <<[artifact |-> request[r].artifact, receipt |-> run[w].receipt]>>
        BY <1>1, <1>3, <3>1 DEF IInv, TypeOK
      <4>2. QED
        BY <1>3, <3>1, <4>1
    <3>2. CASE run[w].at # "publish"
      BY <1>1, <1>3, <3>2 DEF IInv, Certified
    <3>3. QED
      BY <3>1, <3>2
  <2>2. QED
    BY <1>4, <2>1 DEF IInv, Certified
<1>9. \A v \in Workers : batch'[v] = IF v = w THEN batch[w] \ {c} ELSE batch[v]
  BY <1>2 DEF IInv, TypeOK, Table!TypeOK
<1>10. ClaimsExclusive'
  BY <1>9 DEF IInv, ClaimsExclusive
<1>11. ClaimsOpen'
  <2>1. ASSUME NEW q \in Requests
        PROVE  Len(attempts'[q]) = job'[q].token /\ (job'[q].state = "ABSENT" => job'[q].token = 0)
    BY <1>4, <1>5 DEF IInv, ClaimsOpen
  <2>2. ASSUME NEW v \in Workers, NEW d \in batch'[v]
        PROVE  /\ d.token \in 1..job'[d.job].token
               /\ attempts'[d.job][d.token] = "open"
               /\ d.token = job'[d.job].token => job'[d.job].state \in {"RUNNING", "PENDING"}
    <3>1. d \in batch[v] /\ d # c
      BY <1>1, <1>9 DEF IInv, ClaimsExclusive
    <3>2. d \in Table!Claim /\ d.job \in Requests
      BY <3>1 DEF IInv, TypeOK, Table!TypeOK, Table!Claim
    <3>3. /\ d.token \in 1..job[d.job].token /\ attempts[d.job][d.token] = "open"
          /\ d.token = job[d.job].token => job[d.job].state \in {"RUNNING", "PENDING"}
      BY <3>1 DEF IInv, ClaimsOpen
    <3>4. CASE d.job = r
      <4>1. d.token # c.token
        BY <1>1, <3>1, <3>2, <3>4 DEF Table!Claim
      <4>2. Len(attempts[r]) = job[r].token
        BY <1>1, RowFacts
      <4>3. d.token \in 1..Len(attempts[r]) /\ attempts[r][d.token] = "open" /\ d.token # job'[r].token
        BY <1>1, <1>4, <3>3, <3>4, <4>1, <4>2
      <4>4. attempts'[r][d.token] = "open"
        BY <1>5, <4>1, <4>3
      <4>5. QED
        BY <1>4, <3>3, <3>4, <4>3, <4>4
    <3>5. CASE d.job # r
      BY <1>4, <3>2, <3>3, <3>5
    <3>6. QED
      BY <3>4, <3>5
  <2>3. QED
    BY <2>1, <2>2 DEF ClaimsOpen
<1>12. /\ verdict'[w] = Table!NoVerdict /\ run'[w] = NoRun
       /\ \A v \in Workers : v # w => verdict'[v] = verdict[v] /\ run'[v] = run[v]
  BY <1>2 DEF IInv, TypeOK, Table!TypeOK
<1>13. \A v \in Workers : RunHeld(v)'
  BY <1>9, <1>12 DEF IInv, RunHeld
<1>14. RunsKnow'
  <2> SUFFICES ASSUME NEW v \in Workers, v # w, run[v] # NoRun
               PROVE  Knows(run[v], request'[Of(v)])
    BY <1>12 DEF RunsKnow, Of
  <2>1. Of(v) \in Requests /\ Knows(run[v], request[Of(v)])
    BY InHandler DEF IInv, RunsKnow
  <2>2. CASE Of(v) = r
    BY <1>1, <1>3, <2>1, <2>2 DEF Knows, IInv, TypeOK
  <2>3. CASE Of(v) # r
    BY <1>4, <2>1, <2>3
  <2>4. QED
    BY <2>2, <2>3
<1>15. AmbiguityRemembered'
  <2>1. ASSUME NEW q \in Requests, Table!Ended(q, "UNKNOWN")' # {}
        PROVE  request'[q].submitted
    <3>1. CASE q = r
      <4>1. P!Positions(attempts'[r], "UNKNOWN") # {}
        BY <2>1, <3>1, Histories DEF Table!Ended
      <4>2. o = "UNKNOWN" \/ Table!Ended(r, "UNKNOWN") # {}
        BY <1>5, <4>1, Histories DEF Table!Ended
      <4>3. request[r].submitted
        BY <1>1, <1>3, <4>2 DEF IInv, AmbiguityRemembered
      <4>4. QED
        BY <1>1, <1>3, <3>1, <4>3 DEF IInv, TypeOK
    <3>2. CASE q # r
      BY <1>4, <2>1, <3>2 DEF IInv, AmbiguityRemembered, Table!Ended
    <3>3. QED
      BY <3>1, <3>2
  <2>2. QED
    BY <2>1 DEF AmbiguityRemembered
<1>16. QED
  BY <1>6, <1>7, <1>8, <1>10, <1>11, <1>13, <1>14, <1>15 DEF IInv

-----------------------------------------------------------------------------
(* The case, the operators and time. *)

\* A job row changes in place, or waits again after it had run; its request at most
\* goes back to work.
LEMMA RowKeeps ==
  ASSUME IInv, NEW r \in Requests, NEW row \in Table!Row,
         Table!TypeOK', job' = [job EXCEPT ![r] = row],
         row.token = job[r].token,
         \/ row.state = job[r].state
         \/ row.state = "PENDING" /\ job[r].state \notin {"ABSENT", "COMPLETE"},
         UNCHANGED <<attempts, batch, verdict, caseVars, certificates, signed, run>>,
         UNCHANGED request \/ Resume(r),
         resumed' \in [Requests -> 0..MaxResumes]
  PROVE  IInv'
<1>1. job'[r] = row /\ \A q \in Requests : q # r => job'[q] = job[q]
  BY DEF IInv, TypeOK, Table!TypeOK
<1>2. /\ request' \in [Requests -> RequestRow]
      /\ \A q \in Requests :
           /\ request'[q].state = "ABSENT" <=> request[q].state = "ABSENT"
           /\ request'[q].state = "PUBLISHED" <=> request[q].state = "PUBLISHED"
           /\ request'[q].submitted = request[q].submitted
           /\ request'[q].artifact = request[q].artifact
  <2>1. CASE Resume(r)
    <3>1. request[r] \in RequestRow /\ request[r].state \notin {"ABSENT", "PUBLISHED"}
          /\ request' = [request EXCEPT ![r] = [request[r] EXCEPT !.state = "PROCESSING"]]
      BY <2>1 DEF Resume, IInv, TypeOK
    <3>2. PICK new \in RequestRow : new = [request[r] EXCEPT !.state = "PROCESSING"]
      BY <3>1 DEF RequestRow
    <3>3. new.state = "PROCESSING" /\ new.submitted = request[r].submitted
          /\ new.artifact = request[r].artifact
      BY <3>1, <3>2 DEF RequestRow
    <3>4. QED
      BY <3>1, <3>2, <3>3 DEF IInv, TypeOK
  <2>2. CASE UNCHANGED request
    BY <2>2 DEF IInv, TypeOK
  <2>3. QED
    BY <2>1, <2>2
<1>3. TypeOK'
  BY <1>2 DEF IInv, TypeOK, caseVars
<1>4. /\ job'[r].token = job[r].token
      /\ job'[r].state = "ABSENT" <=> job[r].state = "ABSENT"
      /\ job'[r].state = "COMPLETE" <=> job[r].state = "COMPLETE"
      /\ job[r].state \in {"RUNNING", "PENDING"} => job'[r].state \in {"RUNNING", "PENDING"}
  BY <1>1
<1>5. RowsLinked' /\ Certified'
  <2>1. \A q \in Requests : /\ job'[q].state = "ABSENT" <=> job[q].state = "ABSENT"
                            /\ job'[q].state = "COMPLETE" <=> job[q].state = "COMPLETE"
    BY <1>1, <1>4
  <2>2. \A q \in Requests : case'[q] = case[q] /\ certificates'[q] = certificates[q]
    BY DEF caseVars
  <2>3. \A q \in Requests : CaseOf(request'[q].state) = CaseOf(request[q].state)
    BY <1>2 DEF CaseOf
  <2>4. QED
    BY <1>2, <2>1, <2>2, <2>3, ZenonT(30) DEF IInv, RowsLinked, Certified
<1>6. ClaimsExclusive'
  BY DEF IInv, ClaimsExclusive
<1>7. ClaimsOpen'
  <2>1. \A v \in Workers : \A c \in batch[v] : c.job \in Requests
    BY DEF IInv, TypeOK, Table!TypeOK, Table!Claim
  <2>2. QED
    BY <1>1, <1>4, <2>1 DEF IInv, ClaimsOpen
<1>8. (\A v \in Workers : RunHeld(v)') /\ RunsKnow'
  <2>1. \A v \in Workers : run[v] # NoRun => Of(v) \in Requests
    BY InHandler
  <2>2. QED
    BY <1>2, <2>1 DEF IInv, RunHeld, RunsKnow, Knows, Of
<1>9. AmbiguityRemembered'
  BY <1>2 DEF IInv, AmbiguityRemembered, Table!Ended
<1>10. QED
  BY <1>3, <1>5, <1>6, <1>7, <1>8, <1>9 DEF IInv

LEMMA RequeuedRow ==
  ASSUME NEW row \in Table!Row
  PROVE  /\ Table!Requeued(row) \in Table!Row
         /\ Table!Requeued(row).token = row.token /\ Table!Requeued(row).state = "PENDING"
<1>1. Table!Requeued(row).token = row.token /\ Table!Requeued(row).state = "PENDING"
  BY DEF Table!Requeued
<1>2. QED
  BY <1>1, SameTable

LEMMA ReconcileIssuanceKeeps ==
  ASSUME IInv, NEW r \in Requests, ReconcileIssuance(r)
  PROVE  IInv'
<1>1. Table!Requeued(job[r]) \in Table!Row
      /\ Table!Requeued(job[r]).token = job[r].token /\ Table!Requeued(job[r]).state = "PENDING"
  BY RowFacts, RequeuedRow
<1>2. job[r].state \notin {"ABSENT", "COMPLETE"}
  BY DEF ReconcileIssuance, Resume, IInv, RowsLinked
<1>3. job' = [job EXCEPT ![r] = Table!Requeued(job[r])]
      /\ UNCHANGED <<attempts, batch, verdict, audit, faults, caseVars, certificates, signed, run>>
  BY DEF ReconcileIssuance
<1>4. Table!TypeOK'
  BY <1>1, <1>3 DEF IInv, TypeOK, Table!TypeOK
<1>5. resumed' \in [Requests -> 0..MaxResumes]
  <2>1. resumed[r] \in 0..MaxResumes /\ resumed[r] < MaxResumes /\ MaxResumes \in Nat
    BY IssuanceAssumption DEF ReconcileIssuance, IInv, TypeOK, IssuanceAssumption
  <2>2. resumed[r] + 1 \in 0..MaxResumes
    BY <2>1
  <2>3. QED
    BY <2>2 DEF ReconcileIssuance, IInv, TypeOK
<1>6. QED
  BY <1>1, <1>2, <1>3, <1>4, <1>5, RowKeeps DEF ReconcileIssuance

LEMMA TableJobStepKeeps ==
  ASSUME IInv, NEW r \in Requests, ReconcileJob(r) \/ RetryJob(r) \/ TimePasses(r)
  PROVE  IInv'
<1>1. Table!JobStep(r)
  BY DEF ReconcileJob, RetryJob, TimePasses, Table!JobStep
<1>2. Table!TypeOK'
  BY <1>1, TableTyped DEF IInv, TypeOK
<1>3. /\ UNCHANGED <<attempts, batch, verdict, caseVars, certificates, signed, run>>
      /\ UNCHANGED request \/ Resume(r)
      /\ resumed' \in [Requests -> 0..MaxResumes]
  BY DEF ReconcileJob, RetryJob, TimePasses, Table!ReconcileJob, Table!RetryJob,
    Table!BecomesDue, Table!LeaseExpires, Table!workerVars, IInv, TypeOK
<1>4. job[r] \in Table!Row
  BY RowFacts
<1>5. CASE ReconcileJob(r) \/ RetryJob(r)
  <2>1. /\ job' = [job EXCEPT ![r] = Table!Requeued(job[r])]
        /\ job[r].state \notin {"ABSENT", "COMPLETE"}
    BY <1>5 DEF ReconcileJob, RetryJob, Table!ReconcileJob, Table!RetryJob, Table!RetryableFrom
  <2>2. QED
    BY <1>2, <1>3, <1>4, <2>1, RequeuedRow, RowKeeps
<1>6. CASE TimePasses(r)
  <2>1. PICK row \in Table!Row : /\ job' = [job EXCEPT ![r] = row]
                                 /\ row.token = job[r].token /\ row.state = job[r].state
    <3>1. /\ [job[r] EXCEPT !.due = "now"] \in Table!Row
          /\ [job[r] EXCEPT !.lease = "expired"] \in Table!Row
      BY <1>4 DEF Table!Row
    <3>2. \/ job' = [job EXCEPT ![r] = [job[r] EXCEPT !.due = "now"]]
          \/ job' = [job EXCEPT ![r] = [job[r] EXCEPT !.lease = "expired"]]
      BY <1>6 DEF TimePasses, Table!BecomesDue, Table!LeaseExpires
    <3>3. QED
      BY <1>4, <3>1, <3>2 DEF Table!Row
  <2>2. QED
    BY <1>2, <1>3, <2>1, RowKeeps
<1>7. QED
  BY <1>5, <1>6

\* Nobody has claimed a job before the approval that creates it.
LEMMA ApproveKeeps ==
  ASSUME IInv, NEW r \in Requests, Approve(r)
  PROVE  IInv'
<1>1. /\ case[r] = "REVIEW_PENDING" /\ job[r].state = "ABSENT"
      /\ Table!Enqueue(r, "now")
      /\ case' = [case EXCEPT ![r] = "APPROVED_PENDING_ISSUE"]
      /\ request' = [request EXCEPT ![r].state = "READY"]
      /\ UNCHANGED <<attempts, batch, verdict, hold, certificates, signed, run, resumed>>
  BY DEF Approve, Table!Enqueue, Table!workerVars
<1>2. Table!TypeOK'
  BY <1>1, TableTyped DEF IInv, TypeOK, Table!JobStep
<1>3. request[r] \in RequestRow /\ request[r].state = "ABSENT"
  BY <1>1 DEF IInv, RowsLinked, TypeOK
<1>4. PICK new \in RequestRow : new = [request[r] EXCEPT !.state = "READY"]
  BY <1>3 DEF RequestRow
<1>5. /\ request' = [request EXCEPT ![r] = new] /\ new.state = "READY"
      /\ new.submitted = request[r].submitted /\ new.artifact = request[r].artifact
  BY <1>1, <1>3, <1>4 DEF RequestRow
<1>6. /\ job'[r].state = "PENDING" /\ job'[r].token = job[r].token
      /\ \A q \in Requests : q # r => job'[q] = job[q] /\ request'[q] = request[q] /\ case'[q] = case[q]
      /\ request'[r] = new /\ case'[r] = "APPROVED_PENDING_ISSUE"
  <2>1. job[r] \in Table!Row /\ job' = [job EXCEPT ![r].state = "PENDING", ![r].due = "now"]
    BY <1>1, RowFacts DEF Table!Enqueue
  <2>2. QED
    BY <1>1, <1>5, <2>1 DEF IInv, TypeOK, Table!TypeOK, Table!Row
<1>7. TypeOK'
  BY <1>1, <1>2, <1>5 DEF IInv, TypeOK
<1>8. RowsLinked'
  BY <1>5, <1>6 DEF IInv, RowsLinked, CaseOf
<1>9. Certified'
  BY <1>1, <1>3, <1>5, <1>6, ZenonT(30) DEF IInv, Certified
<1>10. \A v \in Workers : \A c \in batch[v] : c.job \in Requests /\ c.job # r
  <2>1. ASSUME NEW v \in Workers, NEW c \in batch[v]
        PROVE  c.job \in Requests /\ c.job # r
    <3>1. c.job \in Requests /\ c.token \in 1..job[c.job].token
      BY DEF IInv, ClaimsOpen, TypeOK, Table!TypeOK, Table!Claim
    <3>2. job[r].token = 0
      BY <1>1 DEF IInv, ClaimsOpen
    <3>3. QED
      BY <3>1, <3>2
  <2>2. QED
    BY <2>1
<1>11. ClaimsOpen' /\ ClaimsExclusive'
  BY <1>1, <1>6, <1>10 DEF IInv, ClaimsOpen, ClaimsExclusive
<1>12. \A v \in Workers : RunHeld(v)'
  BY <1>1 DEF IInv, RunHeld
<1>13. RunsKnow'
  <2>1. \A v \in Workers : run[v] # NoRun => Of(v) \in Requests /\ Of(v) # r
    BY <1>10, InHandler DEF Of
  <2>2. QED
    BY <1>1, <1>6, <2>1 DEF IInv, RunsKnow, Of
<1>14. AmbiguityRemembered'
  BY <1>1, <1>5, <1>6 DEF IInv, AmbiguityRemembered, Table!Ended
<1>15. QED
  BY <1>7, <1>8, <1>9, <1>11, <1>12, <1>13, <1>14 DEF IInv

LEMMA HoldKeeps ==
  ASSUME IInv, hold' \in [Requests -> BOOLEAN],
         UNCHANGED <<tableVars, request, case, certificates, signed, run, resumed>>
  PROVE  IInv'
BY DEF IInv, TypeOK, Table!TypeOK, tableVars, RowsLinked, Certified, ClaimsOpen,
  ClaimsExclusive, RunHeld, RunsKnow, Of, AmbiguityRemembered, Table!Ended

-----------------------------------------------------------------------------
(* Every step keeps the invariant. *)

LEMMA StepKeeps == IInv /\ [Next]_vars => IInv'
<1> SUFFICES ASSUME IInv, [Next]_vars PROVE IInv'
  OBVIOUS
<1>1. ASSUME NEW w \in Workers, HandlerStep(w) PROVE IInv'
  BY <1>1, StartHandlerKeeps, EnsureSnapshotKeeps, ReadBackKeeps, RenderAndStoreKeeps,
    LookUpKeeps, SubmitKeeps, VerifyKeeps, GiveUpKeeps DEF HandlerStep
<1>2. ASSUME NEW w \in Workers, WorkerStep(w) PROVE IInv'
  BY <1>1, <1>2, ClaimKeeps, FinishKeeps, DropKeeps DEF WorkerStep
<1>3. ASSUME NEW r \in Requests, CreateHold(r) \/ ReleaseHold(r) PROVE IInv'
  <2>1. hold' \in [Requests -> BOOLEAN]
    BY <1>3 DEF CreateHold, ReleaseHold, IInv, TypeOK
  <2>2. QED
    BY <1>3, <2>1, HoldKeeps DEF CreateHold, ReleaseHold
<1>4. ASSUME NEW r \in Requests, RequestStep(r) PROVE IInv'
  BY <1>3, <1>4, ApproveKeeps, ReconcileIssuanceKeeps, TableJobStepKeeps DEF RequestStep
<1>5. CASE UNCHANGED vars
  <2>1. UNCHANGED <<tableVars, request, case, certificates, signed, run, resumed>>
        /\ hold' \in [Requests -> BOOLEAN]
    BY <1>5 DEF vars, caseVars, IInv, TypeOK
  <2>2. QED
    BY <2>1, HoldKeeps
<1>6. QED
  BY <1>2, <1>4, <1>5 DEF Next

\* Request, case, job and certificate move together, and what a worker learnt inside its
\* handler stays true: the invariant the theorems below rest on.
THEOREM Invariance == Spec => []IInv
<1>1. Init => IInv
  BY InitInv
<1>2. IInv /\ [Next]_vars => IInv'
  BY StepKeeps
<1>3. QED
  BY <1>1, <1>2, PTL DEF Spec

-----------------------------------------------------------------------------
(* What the invariant gives. *)

\* Rows, the memory of workers and certificates hold values of their columns and fields.
THEOREM TypeCorrect == Spec => []TypeOK
<1>1. IInv => TypeOK
  BY DEF IInv
<1>2. QED
  BY <1>1, Invariance, PTL

\* An approved request is never left without its certificate and without a job that can
\* still run or be resumed.
THEOREM ApprovalsGoOn == Spec => []NoApprovalStranded
<1>1. IInv => NoApprovalStranded
  BY DEF IInv, RowsLinked, NoApprovalStranded
<1>2. QED
  BY <1>1, Invariance, PTL

\* An attempt that ended without knowing what the signer did is remembered by the request.
THEOREM AmbiguityIsKept == Spec => []AmbiguityRemembered
<1>1. IInv => AmbiguityRemembered
  BY DEF IInv
<1>2. QED
  BY <1>1, Invariance, PTL

-----------------------------------------------------------------------------
(* Issuance implements the registry, when the renderer is deterministic: a  *)
(* superseded worker may replace the artifact after another has verified    *)
(* its receipt and before it publishes, by the same artifact.               *)

Deterministic == \A a, b \in Renders : a = b

JobStage(r) ==
  CASE job[r].state = "ABSENT" -> "undecided"
    [] job[r].state = "COMPLETE" -> "published"
    [] OTHER -> "approved"

\* What the registry shows follows from the job and the certificate.
ShowsJob ==
  \A r \in Requests :
    /\ Stage(r) = JobStage(r)
    /\ IF JobStage(r) = "published" THEN Document(r) \in Artifact ELSE Document(r) = None

LEMMA Shown == Deterministic /\ IInv => ShowsJob
<1> SUFFICES ASSUME Deterministic, IInv, NEW r \in Requests
             PROVE  /\ Stage(r) = JobStage(r)
                    /\ IF JobStage(r) = "published" THEN Document(r) \in Artifact
                                                    ELSE Document(r) = None
  BY DEF ShowsJob
<1>1. /\ job[r].state = "ABSENT" <=> request[r].state = "ABSENT"
      /\ job[r].state = "COMPLETE" <=> request[r].state = "PUBLISHED"
      /\ case[r] = CaseOf(request[r].state)
  BY DEF IInv, RowsLinked
<1>2. Stage(r) = JobStage(r)
  <2>1. CASE job[r].state = "ABSENT"
    BY <1>1, <2>1 DEF Stage, CaseOf, JobStage
  <2>2. CASE job[r].state = "COMPLETE"
    BY <1>1, <2>2 DEF Stage, CaseOf, JobStage
  <2>3. CASE job[r].state \notin {"ABSENT", "COMPLETE"}
    BY <1>1, <2>3 DEF Stage, CaseOf, JobStage
  <2>4. QED
    BY <2>1, <2>2, <2>3
<1>3. CASE job[r].state = "COMPLETE"
  <2>1. PICK a \in Renders, x \in Renders : certificates[r] = <<[artifact |-> a, receipt |-> x]>>
    BY <1>1, <1>3 DEF IInv, Certified
  <2>2. a = x
    BY DEF Deterministic
  <2>3. /\ certificates[r] # <<>> /\ Len(certificates[r]) = 1
        /\ certificates[r][1].artifact = a /\ certificates[r][1].receipt = a
    BY <2>1, <2>2
  <2>4. Document(r) = a
    BY <2>3 DEF Document
  <2>5. QED
    BY <1>2, <1>3, <2>4 DEF JobStage, Artifact
<1>4. CASE job[r].state # "COMPLETE"
  <2>1. certificates[r] = <<>>
    BY <1>1, <1>4 DEF IInv, Certified
  <2>2. Document(r) = None
    BY <2>1 DEF Document
  <2>3. QED
    BY <1>2, <1>4, <2>2 DEF JobStage
<1>5. QED
  BY <1>3, <1>4

\* A step after which every request shows the same is invisible.
LEMMA MappedStutter ==
  ASSUME \A r \in Requests : Stage(r)' = Stage(r) /\ Document(r)' = Document(r)
  PROVE  [Registry!Next]_(Registry!vars)
<1>1. /\ [r \in Requests |-> Stage(r)]' = [r \in Requests |-> Stage(r)]
      /\ [r \in Requests |-> Document(r)]' = [r \in Requests |-> Document(r)]
  OBVIOUS
<1>2. QED
  BY <1>1 DEF Registry!vars

\* One request moves on: it is approved, or published with a document.
LEMMA MappedMove ==
  ASSUME NEW r \in Requests,
         \A q \in Requests : q # r => Stage(q)' = Stage(q) /\ Document(q)' = Document(q),
         \/ /\ Stage(r) = "undecided" /\ Stage(r)' = "approved"
            /\ Document(r)' = Document(r)
         \/ /\ Stage(r) = "approved" /\ Stage(r)' = "published"
            /\ Document(r)' \in Artifact
  PROVE  Registry!Next
<1> DEFINE st == [q \in Requests |-> Stage(q)]
           doc == [q \in Requests |-> Document(q)]
<1>1. st' = [st EXCEPT ![r] = Stage(r)'] /\ doc' = [doc EXCEPT ![r] = Document(r)']
  OBVIOUS
<1>2. st[r] = Stage(r) /\ doc[r] = Document(r)
  OBVIOUS
<1>3. CASE Stage(r) = "undecided" /\ Stage(r)' = "approved" /\ Document(r)' = Document(r)
  <2>1. doc' = doc
    BY <1>1, <1>3
  <2>2. Registry!Approve(r)
    BY <1>1, <1>2, <1>3, <2>1 DEF Registry!Approve
  <2>3. QED
    BY <2>2 DEF Registry!Next
<1>4. CASE Stage(r) = "approved" /\ Stage(r)' = "published" /\ Document(r)' \in Artifact
  <2>1. Registry!Publish(r, Document(r)')
    BY <1>1, <1>2, <1>4 DEF Registry!Publish
  <2>2. QED
    BY <1>4, <2>1 DEF Registry!Next
<1>5. QED
  BY <1>3, <1>4

\* Steps that neither create nor complete a job, and register nothing.
LEMMA Quiet ==
  ASSUME Deterministic, IInv, IInv', UNCHANGED certificates,
         \A r \in Requests : /\ job'[r].state = "ABSENT" <=> job[r].state = "ABSENT"
                             /\ job'[r].state = "COMPLETE" <=> job[r].state = "COMPLETE"
  PROVE  [Registry!Next]_(Registry!vars)
<1>1. ShowsJob /\ ShowsJob'
  BY Shown, PTL
<1>2. ASSUME NEW r \in Requests
      PROVE  Stage(r)' = Stage(r) /\ Document(r)' = Document(r)
  <2>1. Document(r)' = Document(r)
    BY DEF Document
  <2>2. JobStage(r)' = JobStage(r)
    BY DEF JobStage
  <2>3. QED
    BY <1>1, <2>1, <2>2 DEF ShowsJob
<1>3. QED
  BY <1>2, MappedStutter

\* The decision that creates the job approves the request.
LEMMA ApproveMaps ==
  ASSUME Deterministic, IInv, IInv', NEW r \in Requests, Approve(r)
  PROVE  Registry!Next
<1>1. ShowsJob /\ ShowsJob'
  BY Shown, PTL
<1>2. /\ job[r].state = "ABSENT" /\ job'[r].state = "PENDING" /\ UNCHANGED certificates
      /\ \A q \in Requests : q # r => job'[q] = job[q]
  BY RowFacts DEF Approve, Table!Enqueue, Table!Row, IInv, TypeOK, Table!TypeOK
<1>3. \A q \in Requests : Document(q)' = Document(q)
  BY <1>2 DEF Document
<1>4. JobStage(r) = "undecided" /\ JobStage(r)' = "approved"
      /\ \A q \in Requests : q # r => JobStage(q)' = JobStage(q)
  BY <1>2 DEF JobStage
<1>5. QED
  BY <1>1, <1>3, <1>4, MappedMove DEF ShowsJob

\* The completion that publishes publishes; any other shows nothing.
LEMMA FinishMaps ==
  ASSUME Deterministic, IInv, IInv', NEW w \in Workers, Finish(w)
  PROVE  [Registry!Next]_(Registry!vars)
<1>0. PICK r \in Requests, o \in Table!Outcome : r = Of(w) /\ o = OutcomeOf[run[w].at]
  BY FinishWrites DEF Of
<1>1. ShowsJob /\ ShowsJob'
  BY Shown, PTL
<1>2. /\ job[r].state \in {"RUNNING", "PENDING"}
      /\ job' = [job EXCEPT ![r] = Table!Recorded(job[r], o)]
  BY <1>0, FinishWrites DEF Of
<1>3. /\ o = "SUCCESS" <=> run[w].at = "publish"
      /\ IF run[w].at = "publish"
         THEN certificates' = [certificates EXCEPT ![r] =
                <<[artifact |-> request[r].artifact, receipt |-> run[w].receipt]>>]
         ELSE UNCHANGED certificates
  BY <1>0, FinishPublishes
<1>4. \A q \in Requests : q # r => job'[q] = job[q] /\ certificates'[q] = certificates[q]
  BY <1>2, <1>3 DEF IInv, TypeOK, Table!TypeOK
<1>5. job'[r].state # "ABSENT" /\ (job'[r].state = "COMPLETE" <=> o = "SUCCESS")
  BY <1>2 DEF IInv, TypeOK, Table!TypeOK, Table!Recorded, Table!StateAfter, Table!Outcome
<1>6. CASE run[w].at = "publish"
  <2>1. JobStage(r) = "approved" /\ JobStage(r)' = "published"
    BY <1>2, <1>3, <1>5, <1>6 DEF JobStage
  <2>2. \A q \in Requests : q # r => JobStage(q)' = JobStage(q) /\ Document(q)' = Document(q)
    BY <1>4 DEF JobStage, Document
  <2>3. QED
    BY <1>1, <1>2, <2>1, <2>2, MappedMove DEF ShowsJob
<1>7. CASE run[w].at # "publish"
  BY <1>2, <1>3, <1>4, <1>5, <1>7, Quiet
<1>8. QED
  BY <1>6, <1>7

\* A certificate is registered once per approved request, stays, and shows the document
\* its receipt signs, when the renderer is deterministic on a frozen snapshot.
THEOREM IssuanceImplementsRegistry ==
  ASSUME Deterministic
  PROVE  Spec => ImplementsRegistry
<1>1. Init => Registry!Init
  <2> SUFFICES ASSUME Init PROVE Registry!Init
    OBVIOUS
  <2>1. ShowsJob
    BY InitInv, Shown
  <2>2. \A r \in Requests : JobStage(r) = "undecided"
    BY DEF Init, Table!Init, JobStage
  <2>3. QED
    BY <2>1, <2>2 DEF ShowsJob, Registry!Init
<1>2. ASSUME IInv, IInv', [Next]_vars
      PROVE  [Registry!Next]_(Registry!vars)
  <2>1. ASSUME UNCHANGED <<job, certificates>>
        PROVE  [Registry!Next]_(Registry!vars)
    BY <1>2, <2>1, Quiet
  <2>2. ASSUME NEW w \in Workers, HandlerStep(w)
        PROVE  UNCHANGED <<job, certificates>>
    BY <2>2
    DEF HandlerStep, StartHandler, EnsureSnapshot, ReadBack, RenderAndStore, LookUp, Submit,
      Verify, GiveUp, Answer, Proceed, KeepReceipt, Table!HandlerReturns, tableVars
  <2>3. ASSUME NEW w \in Workers, NEW S \in SUBSET Requests, ClaimDueJobs(w, S)
        PROVE  [Registry!Next]_(Registry!vars)
    <3>1. \A r \in Requests : job'[r] = IF r \in S THEN Table!Claimed(job[r]) ELSE job[r]
      BY <2>3 DEF ClaimDueJobs, Table!ClaimDueJobs
    <3>2. \A r \in S : job[r].state \in {"PENDING", "RETRY_WAIT", "RUNNING"} /\ job'[r].state = "RUNNING"
      BY <2>3, <3>1 DEF ClaimDueJobs, Table!ClaimDueJobs, Table!Claimable, Table!Waiting, Table!Claimed
    <3>3. UNCHANGED certificates
      BY <2>3 DEF ClaimDueJobs
    <3>4. QED
      BY <1>2, <3>1, <3>2, <3>3, Quiet
  <2>4. ASSUME NEW w \in Workers, Drop(w)
        PROVE  UNCHANGED <<job, certificates>>
    BY <2>4 DEF Drop, Table!LoseLease, Table!Crash, Table!ApplyRaises, Table!AbandonPass
  <2>5. ASSUME NEW w \in Workers, WorkerStep(w)
        PROVE  [Registry!Next]_(Registry!vars)
    BY <1>2, <2>1, <2>2, <2>3, <2>4, <2>5, FinishMaps DEF WorkerStep
  <2>6. ASSUME NEW r \in Requests, ReconcileIssuance(r) \/ ReconcileJob(r) \/ RetryJob(r)
        PROVE  [Registry!Next]_(Registry!vars)
    <3>1. /\ job' = [job EXCEPT ![r] = Table!Requeued(job[r])] /\ UNCHANGED certificates
          /\ job[r].state \notin {"ABSENT", "COMPLETE"}
      BY <1>2, <2>6 DEF ReconcileIssuance, Resume, ReconcileJob, RetryJob, Table!ReconcileJob,
        Table!RetryJob, Table!RetryableFrom, IInv, RowsLinked
    <3>2. Table!Requeued(job[r]).state = "PENDING"
      BY DEF Table!Requeued
    <3>3. QED
      BY <1>2, <3>1, <3>2, Quiet DEF IInv, TypeOK, Table!TypeOK
  <2>7. ASSUME NEW r \in Requests, TimePasses(r)
        PROVE  [Registry!Next]_(Registry!vars)
    <3>1. /\ \/ job' = [job EXCEPT ![r].due = "now"]
             \/ job' = [job EXCEPT ![r].lease = "expired"]
          /\ UNCHANGED certificates
      BY <2>7 DEF TimePasses, Table!BecomesDue, Table!LeaseExpires
    <3>2. \A q \in Requests : job'[q].state = job[q].state
      <4>1. job \in [Requests -> Table!Row]
        BY <1>2 DEF IInv, TypeOK, Table!TypeOK
      <4>2. /\ \A q \in Requests : q # r => job'[q] = job[q]
            /\ job'[r] = [job[r] EXCEPT !.due = "now"] \/ job'[r] = [job[r] EXCEPT !.lease = "expired"]
        BY <3>1, <4>1
      <4>3. job[r] \in Table!Row
        BY <4>1
      <4>4. job'[r].state = job[r].state
        BY <4>2, <4>3 DEF Table!Row
      <4>5. QED
        BY <4>2, <4>4
    <3>3. QED
      BY <1>2, <3>1, <3>2, Quiet
  <2>8. ASSUME NEW r \in Requests, RequestStep(r)
        PROVE  [Registry!Next]_(Registry!vars)
    BY <1>2, <2>1, <2>6, <2>7, <2>8, ApproveMaps
    DEF RequestStep, CreateHold, ReleaseHold, tableVars
  <2>9. QED
    BY <1>2, <2>1, <2>5, <2>8 DEF Next, vars, tableVars
<1>3. QED
  BY <1>1, <1>2, Invariance, PTL DEF Spec, ImplementsRegistry, Registry!Spec
=============================================================================
