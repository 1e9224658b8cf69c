------------------------------- MODULE Outbox -------------------------------
(***************************************************************************)
(* From a committed intent to a delivered message: the outbox dispatcher   *)
(* (agni.platform.dispatch), the fan-out job that writes the in-app        *)
(* notifications and schedules channel deliveries, and the delivery job    *)
(* that calls the provider (agni.notifications.application.fanout).        *)
(*                                                                         *)
(* Both jobs live in the durable job table: <<m, "fanout">> is the fan-out *)
(* of intent m, <<m, p>> the delivery of its notification to person p.     *)
(***************************************************************************)
EXTENDS Naturals, Sequences, FiniteSets

CONSTANTS
  Messages,   \* intents
  People,     \* active recipients of every intent's template
  Reachable,  \* the recipients that have a channel besides the application
  Workers, MaxAttempts, ClaimLimit, MaxFaults, MaxRequeues

ASSUME OutboxAssumption == Reachable \subseteq People /\ "fanout" \notin People

VARIABLES
  job, attempts, batch, verdict, audit, faults,  \* the job table and its workers
  outbox,         \* the state of the outbox rows
  stale,          \* whether a row was last dispatched before the republish window
  notifications,  \* the notification rows, unique per recipient and intent
  contact,        \* whether a recipient's contact is verified now
  delivery,       \* the state of the delivery_attempt rows
  sent,           \* how often the provider took a message
  run             \* where a worker stands inside the delivery handler

Fan(m) == <<m, "fanout">>
Deliveries == Messages \X Reachable
AllJobs == {Fan(m) : m \in Messages} \cup Deliveries

Table == INSTANCE JobQueue WITH Jobs <- AllJobs, Reconcilable <- {}
ASSUME TableAssumption == Table!JobQueueAssumption

tableVars == <<job, attempts, batch, verdict, audit, faults>>
outboxVars == <<outbox, stale>>
vars == <<tableVars, outboxVars, notifications, contact, delivery, sent, run>>

OutboxState == {"ABSENT", "PENDING", "DISPATCHED", "COMPLETE"}
DeliveryState == {"ABSENT", "READY", "SENDING", "ACCEPTED_BY_PROVIDER", "FAILED"}
NoRun == [at |-> "none"]

Init ==
  /\ Table!Init
  /\ outbox = [m \in Messages |-> "ABSENT"]
  /\ stale = [m \in Messages |-> FALSE]
  /\ notifications = {}
  /\ contact = [p \in Reachable |-> FALSE]
  /\ delivery = [d \in Deliveries |-> "ABSENT"]
  /\ sent = [d \in Deliveries |-> 0]
  /\ run = [w \in Workers |-> NoRun]

-----------------------------------------------------------------------------
(* Intents and their dispatch. *)

\* A command commits with its intent.
EnqueueIntent(m) ==
  /\ outbox[m] = "ABSENT"
  /\ outbox' = [outbox EXCEPT ![m] = "PENDING"]
  /\ UNCHANGED <<tableVars, stale, notifications, contact, delivery, sent, run>>

\* Five minutes pass without the fan-out completing the row.
BecomesStale(m) ==
  /\ outbox[m] = "DISPATCHED" /\ ~stale[m]
  /\ stale' = [stale EXCEPT ![m] = TRUE]
  /\ UNCHANGED <<tableVars, outbox, notifications, contact, delivery, sent, run>>

MutDispatchable(m) == outbox[m] = "PENDING" \/ stale[m]
Dispatchable(m) == outbox[m] = "PENDING" \/ (outbox[m] = "DISPATCHED" /\ stale[m])

\* The fan-out job is made once, whether the broker takes the wake-up or not.
DispatchPending(m) ==
  /\ Dispatchable(m)
  /\ IF job[Fan(m)].state = "ABSENT" THEN Table!Enqueue(Fan(m), "now")
                                     ELSE UNCHANGED tableVars
  /\ outbox' \in {outbox, [outbox EXCEPT ![m] = "DISPATCHED"]}
  /\ stale' = [stale EXCEPT ![m] = FALSE]
  /\ UNCHANGED <<notifications, contact, delivery, sent, run>>

\* The applicant proves a contact; nothing takes it away again.
RecordVerifiedContact(p) ==
  /\ ~contact[p]
  /\ contact' = [contact EXCEPT ![p] = TRUE]
  /\ UNCHANGED <<tableVars, outboxVars, notifications, delivery, sent, run>>

-----------------------------------------------------------------------------
(* The handlers. *)

\* run_fanout leaves all its work to the completion transaction; it can only
\* fail by an exception.
FanOut(w, c) ==
  /\ (\E m \in Messages : c.job = Fan(m)) /\ run[w] = NoRun
  /\ \E o \in {"SUCCESS", "RETRYABLE"} : Table!HandlerReturns(w, c, o)
  /\ UNCHANGED <<outboxVars, notifications, contact, delivery, sent, run>>

MutSkipsSending(d) == delivery[d] \in {"ACCEPTED_BY_PROVIDER", "SENDING"}
AlreadySent(d) == delivery[d] = "ACCEPTED_BY_PROVIDER"

\* run_delivery reads the row and the contact before it writes anything.
StartDelivery(w, c) ==
  LET d == c.job IN
  /\ d \in Deliveries /\ c \in batch[w]
  /\ run[w] = NoRun /\ verdict[w] = Table!NoVerdict
  /\ IF AlreadySent(d)
     THEN Table!HandlerReturns(w, c, "SUCCESS") /\ UNCHANGED <<delivery, run>>
     ELSE IF ~contact[d[2]]
     THEN /\ delivery' = [delivery EXCEPT ![d] = "FAILED"]
          /\ Table!HandlerReturns(w, c, "PERMANENT")
          /\ UNCHANGED run
     ELSE /\ run' = [run EXCEPT ![w] = [claim |-> c, at |-> "read"]]
          /\ UNCHANGED <<tableVars, delivery>>
  /\ UNCHANGED <<outboxVars, notifications, contact, sent>>

At(w, step) == run[w] # NoRun /\ run[w].at = step

MarkSending(w) ==
  /\ At(w, "read")
  /\ delivery' = [delivery EXCEPT ![run[w].claim.job] = "SENDING"]
  /\ run' = [run EXCEPT ![w].at = "send"]
  /\ UNCHANGED <<tableVars, outboxVars, notifications, contact, sent>>

Return(w, o) ==
  /\ Table!HandlerReturns(w, run[w].claim, o)
  /\ run' = [run EXCEPT ![w].at = IF o = "SUCCESS" THEN "accepted" ELSE "done"]

\* The provider takes the message, is unavailable or rejects it; or the call
\* fails some other way and nobody knows whether the message went out.
Send(w) ==
  LET d == run[w].claim.job IN
  /\ At(w, "send")
  /\ \/ /\ sent' = [sent EXCEPT ![d] = @ + 1]
        /\ \E o \in {"SUCCESS", "RETRYABLE"} : Return(w, o)
        /\ UNCHANGED delivery
     \/ /\ delivery' = [delivery EXCEPT ![d] = "FAILED"]
        /\ \E o \in {"RETRYABLE", "PERMANENT"} : Return(w, o)
        /\ UNCHANGED sent
     \/ Return(w, "RETRYABLE") /\ UNCHANGED <<delivery, sent>>
  /\ UNCHANGED <<outboxVars, notifications, contact>>

-----------------------------------------------------------------------------
(* The rest of the worker pass. *)

ClaimDueJobs(w, S) ==
  /\ Table!ClaimDueJobs(w, S)
  /\ UNCHANGED <<outboxVars, notifications, contact, delivery, sent, run>>

\* The deliveries a fan-out schedules: one for each new notification whose
\* recipient has a verified contact.
Scheduled(c) ==
  {d \in Deliveries : c.job = Fan(d[1]) /\ d \notin notifications /\ contact[d[2]]}

\* The completion transaction with the effect of each job kind.  The jobs the
\* effect enqueues are inserted with it.
Finish(w) ==
  LET c == verdict[w].claim
      o == verdict[w].outcome
      new == IF o = "SUCCESS" THEN Scheduled(c) ELSE {}
      isFanOut == o = "SUCCESS" /\ \E m \in Messages : c.job = Fan(m)
  IN
  /\ verdict[w] # Table!NoVerdict
  /\ Table!FenceOpen(w)
  /\ job' = [j \in AllJobs |->
       IF j = c.job THEN Table!Recorded(job[j], o)
       ELSE IF j \in new THEN [job[j] EXCEPT !.state = "PENDING", !.due = "now"]
       ELSE job[j]]
  /\ attempts' = [attempts EXCEPT ![c.job][c.token] = o]
  /\ batch' = [batch EXCEPT ![w] = @ \ {c}]
  /\ verdict' = [verdict EXCEPT ![w] = Table!NoVerdict]
  /\ run' = [run EXCEPT ![w] = NoRun]
  /\ IF isFanOut
     THEN /\ outbox' = [outbox EXCEPT ![c.job[1]] = "COMPLETE"]
          /\ notifications' = notifications \cup {<<c.job[1], p>> : p \in People}
          /\ delivery' = [d \in Deliveries |-> IF d \in new THEN "READY" ELSE delivery[d]]
     ELSE /\ delivery' = IF At(w, "accepted")
                         THEN [delivery EXCEPT ![c.job] = "ACCEPTED_BY_PROVIDER"]
                         ELSE delivery
          /\ UNCHANGED <<outbox, notifications>>
  /\ UNCHANGED <<audit, faults, stale, contact, sent>>

Drop(w) ==
  /\ Table!LoseLease(w) \/ Table!Crash(w) \/ Table!ApplyRaises(w)
  /\ run' = [run EXCEPT ![w] = NoRun]
  /\ UNCHANGED <<outboxVars, notifications, contact, delivery, sent>>

RetryJob(j) ==
  /\ Table!RetryJob(j)
  /\ UNCHANGED <<outboxVars, notifications, contact, delivery, sent, run>>

TimePasses(j) ==
  /\ Table!BecomesDue(j) \/ Table!LeaseExpires(j)
  /\ UNCHANGED <<outboxVars, notifications, contact, delivery, sent, run>>

-----------------------------------------------------------------------------
(* The specification. *)

HandlerStep(w) ==
  \/ \E c \in batch[w] : FanOut(w, c) \/ StartDelivery(w, c)
  \/ MarkSending(w)
  \/ Send(w)

WorkerStep(w) ==
  \/ \E S \in SUBSET AllJobs : ClaimDueJobs(w, S)
  \/ HandlerStep(w)
  \/ Finish(w)
  \/ Drop(w)

MessageStep(m) == EnqueueIntent(m) \/ BecomesStale(m) \/ DispatchPending(m)

Next ==
  \/ \E w \in Workers : WorkerStep(w)
  \/ \E m \in Messages : MessageStep(m)
  \/ \E p \in Reachable : RecordVerifiedContact(p)
  \/ \E j \in AllJobs : RetryJob(j) \/ TimePasses(j)

\* The scheduler scans the outbox and the workers the job table for ever;
\* handlers return, and clocks advance.
Fairness ==
  /\ \A m \in Messages : WF_vars(DispatchPending(m))
  /\ \A w \in Workers :
       /\ WF_vars(HandlerStep(w))
       /\ WF_vars(Finish(w))
       /\ WF_vars(UNCHANGED faults /\ Drop(w))
  /\ \A j \in AllJobs :
       /\ WF_vars(UNCHANGED faults /\ TimePasses(j))
       /\ SF_vars(\E w \in Workers, S \in SUBSET AllJobs : j \in S /\ ClaimDueJobs(w, S))

Spec == Init /\ [][Next]_vars
FairSpec == Spec /\ Fairness

-----------------------------------------------------------------------------
(* Properties. *)

\* Every row and every worker's memory holds values of its column or field.
TypeOK ==
  /\ Table!TypeOK
  /\ outbox \in [Messages -> OutboxState]
  /\ stale \in [Messages -> BOOLEAN]
  /\ notifications \subseteq Messages \X People
  /\ contact \in [Reachable -> BOOLEAN]
  /\ delivery \in [Deliveries -> DeliveryState]
  /\ sent \in [Deliveries -> Nat]
  /\ run \in [Workers -> {NoRun} \cup
       [claim: Table!Claim, at: {"read", "send", "accepted", "done"}]]

\* An intent is COMPLETE exactly when its fan-out job is, and then every
\* recipient has been notified and nobody before: republishing, a broker
\* outage and repeated attempts neither lose nor anticipate a notification.
FanOutComplete ==
  \A m \in Messages :
    /\ outbox[m] = "COMPLETE" <=> job[Fan(m)].state = "COMPLETE"
    /\ {p \in People : <<m, p>> \in notifications} =
         IF outbox[m] = "COMPLETE" THEN People ELSE {}

\* A delivery whose job is COMPLETE went out: crashes in the middle of a send,
\* retries and the ALREADY_SENT short cut never take a message for sent that
\* no provider accepted.
CompleteMeansSent ==
  \A d \in Deliveries : job[d].state = "COMPLETE" => sent[d] > 0

\* A worker "may only record a result with the current fencing token": what
\* the provider accepted is not turned back by a worker that lost its lease.
AcceptanceStands ==
  [][\A d \in Deliveries :
       delivery[d] = "ACCEPTED_BY_PROVIDER" =>
         delivery'[d] = "ACCEPTED_BY_PROVIDER"]_delivery

\* No intent is lost: once committed it reaches all its recipients, or its
\* fan-out is parked where an operator can resume it; a broker that never
\* answers, a crash or a lost lease does not keep it from either.
IntentsComplete ==
  \A m \in Messages :
    outbox[m] = "PENDING" ~>
      outbox[m] = "COMPLETE" \/ job[Fan(m)].state \in Table!Parked

\* Every delivery comes to rest, sent or parked for an operator, whatever the
\* provider answers and whichever worker dies.
DeliveriesSettle ==
  \A d \in Deliveries :
    delivery[d] = "READY" ~> job[d].state \in Table!Parked \cup {"COMPLETE"}
=============================================================================
