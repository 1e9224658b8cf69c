-------------------------------- MODULE Thresholds --------------------------------
(***************************************************************************)
(* agni.obligations: the clock of one obligation, the holds that pause it, *)
(* the schedulers that look for thresholds it has crossed, the jobs that   *)
(* act on them, and escalations.                                           *)
(*                                                                         *)
(* A scheduler pass reads with no lock and inserts later, so two passes    *)
(* and everything else may come in between. The job locks the row of its   *)
(* action, which a recomputation has to wait for: it is one step. The      *)
(* stage an obligation belongs to is never changed.                        *)
(***************************************************************************)
EXTENDS WorkingClock

CONSTANTS
  StartedAt, Budget,
  ReminderBudget,   \* the part of the budget after which a reminder is due
  EscalationDelay,  \* after the due instant
  Schedulers,
  MaxManual, MaxHolds \* bounds: manual escalations, holds

ThresholdsAssumption ==
  /\ {StartedAt, Budget, ReminderBudget} \subseteq Nat \ {0}
  /\ {EscalationDelay, MaxManual, MaxHolds} \subseteq Nat

Keys == {"REMINDER", "ESCALATION"} \* DUE is the reminder of the whole budget
OpenStates == {"ACTIVE", "PAUSED"}

VARIABLES
  clockNow,
  obligation,   \* state and due_at
  clockPauses,  \* ObligationPause rows
  clockHold,    \* whether the hold is ACTIVE, and how many there were
  actions,      \* ThresholdAction rows
  passes,       \* what a scheduler pass found crossed and missing
  escalations   \* Escalation rows: how many of each origin and state

thresholdVars == <<clockNow, obligation, clockPauses, clockHold, actions, passes, escalations>>

Init ==
  /\ clockNow = StartedAt
  /\ obligation = [state |-> "ACTIVE", due |-> DueInstant(StartedAt, Budget, {})]
  /\ clockPauses = {}
  /\ clockHold = [active |-> FALSE, made |-> 0]
  /\ actions = {}
  /\ passes = [s \in Schedulers |-> {}]
  /\ escalations = [k \in {"ESCALATION", "manual"} |-> [open |-> 0, acknowledged |-> 0]]

PassTime ==
  /\ clockNow < Forever - 1
  /\ clockNow' = clockNow + 1
  /\ UNCHANGED <<obligation, clockPauses, clockHold, actions, passes, escalations>>

-----------------------------------------------------------------------------
(* Pauses. *)

\* recompute_obligation: the due instant follows from the facts, and actions
\* that were not executed are superseded.
Recompute(pauses) ==
  LET open == \E p \in pauses : p.until = Forever IN
  /\ clockPauses' = pauses
  /\ obligation' = [due |-> DueInstant(StartedAt, Budget, pauses),
                    state |-> IF obligation.state \notin OpenStates THEN obligation.state
                              ELSE IF open THEN "PAUSED" ELSE "ACTIVE"]
  /\ actions' = {IF a.disposition = "" THEN [a EXCEPT !.superseded = TRUE] ELSE a : a \in actions}

\* A hold may start a while ago and may have a planned end.
CreateHold(from, until) ==
  /\ ~clockHold.active /\ clockHold.made < MaxHolds
  /\ obligation.state = "ACTIVE"
  /\ from <= clockNow /\ from < until
  /\ clockHold' = [active |-> TRUE, made |-> clockHold.made + 1]
  /\ Recompute(clockPauses \cup {[from |-> from, until |-> until]})
  /\ UNCHANGED <<clockNow, passes, escalations>>

\* Only pauses without an end are ended.
ReleaseHold ==
  LET open == {p \in clockPauses : p.until = Forever} IN
  /\ clockHold.active
  /\ \A p \in open : p.from < clockNow
  /\ clockHold' = [clockHold EXCEPT !.active = FALSE]
  /\ IF open = {} THEN UNCHANGED <<obligation, clockPauses, actions>>
     ELSE Recompute((clockPauses \ open) \cup {[p EXCEPT !.until = clockNow] : p \in open})
  /\ UNCHANGED <<clockNow, passes, escalations>>

\* SATISFIED when the duty is done, CANCELLED with the case.
CloseObligation ==
  /\ obligation.state \in OpenStates
  /\ obligation' = [obligation EXCEPT !.state = "CLOSED"]
  /\ UNCHANGED <<clockNow, clockPauses, clockHold, actions, passes, escalations>>

-----------------------------------------------------------------------------
(* Thresholds. *)

\* threshold_plan: when each is crossed, Forever if that cannot be said.
ScheduledFor(key) ==
  CASE key = "REMINDER" -> DueInstant(StartedAt, ReminderBudget, clockPauses)
    [] key = "ESCALATION" -> IF obligation.due = Forever THEN Forever ELSE obligation.due + EscalationDelay

Missing(key) == \A a \in actions : a.key # key

ScanDueObligations(s) ==
  /\ obligation.state = "ACTIVE" /\ obligation.due # Forever
  /\ passes[s] = {}
  /\ passes' = [passes EXCEPT ![s] =
       {k \in Keys : Missing(k) /\ ScheduledFor(k) <= clockNow}]
  /\ UNCHANGED <<clockNow, obligation, clockPauses, clockHold, actions, escalations>>

\* The unique constraint on the key lets one of two schedulers win; the job is
\* enqueued in the same transaction.
CreateAction(s, k) ==
  /\ passes' = [passes EXCEPT ![s] = @ \ {k}]
  /\ actions' = IF Missing(k) THEN actions \cup {[key |-> k, superseded |-> FALSE, disposition |-> ""]}
                              ELSE actions
  /\ UNCHANGED <<clockNow, obligation, clockPauses, clockHold, escalations>>

StopScheduler(s) ==
  /\ passes[s] # {}
  /\ passes' = [passes EXCEPT ![s] = {}]
  /\ UNCHANGED <<clockNow, obligation, clockPauses, clockHold, actions, escalations>>

\* run_threshold; a job that runs again finds the action executed.
RunThreshold(a) ==
  LET acts == obligation.state = "ACTIVE" /\ ~a.superseded IN
  /\ a.disposition = ""
  /\ actions' = (actions \ {a}) \cup
       {[a EXCEPT !.disposition = IF acts THEN "EXECUTED" ELSE "CANCELLED_AS_OBSOLETE"]}
  /\ escalations' = IF acts /\ a.key = "ESCALATION"
                    THEN [escalations EXCEPT !["ESCALATION"].open = @ + 1] ELSE escalations
  /\ UNCHANGED <<clockNow, obligation, clockPauses, clockHold, passes>>

-----------------------------------------------------------------------------
(* Supervisors. *)

CreateEscalation ==
  /\ obligation.state \in OpenStates
  /\ escalations["manual"].open + escalations["manual"].acknowledged < MaxManual
  /\ escalations' = [escalations EXCEPT !["manual"].open = @ + 1]
  /\ UNCHANGED <<clockNow, obligation, clockPauses, clockHold, actions, passes>>

AcknowledgeEscalation(origin) ==
  /\ escalations[origin].open > 0
  /\ escalations' = [escalations EXCEPT ![origin] = [open |-> @.open - 1, acknowledged |-> @.acknowledged + 1]]
  /\ UNCHANGED <<clockNow, obligation, clockPauses, clockHold, actions, passes>>

-----------------------------------------------------------------------------
(* The specification. *)

Next ==
  \/ PassTime \/ ReleaseHold \/ CloseObligation \/ CreateEscalation
  \/ \E from \in {clockNow - 1, clockNow} \ {0}, until \in {clockNow + 1, Forever} : CreateHold(from, until)
  \/ \E s \in Schedulers : ScanDueObligations(s) \/ StopScheduler(s)
                           \/ \E k \in passes[s] : CreateAction(s, k)
  \/ \E a \in actions : RunThreshold(a)
  \/ \E origin \in DOMAIN escalations : AcknowledgeEscalation(origin)

Spec == Init /\ [][Next]_thresholdVars
-----------------------------------------------------------------------------
(* Properties. *)

TypeOK ==
  /\ obligation.state \in OpenStates \cup {"CLOSED"}
  /\ obligation.state = "PAUSED" => \E p \in clockPauses : p.until = Forever
  /\ \A a \in actions : a.disposition \in {"", "EXECUTED", "CANCELLED_AS_OBSOLETE"}

\* The due instant is the earliest at which active time reaches the budget,
\* however pauses overlap, touch, start late, end early or lie outside hours.
DueIsEarliest == obligation.due = EarliestDue(StartedAt, Budget, clockPauses)

\* Two schedulers, retried jobs and recomputations make one action of a
\* threshold, and one escalation of an action that was executed.
ThresholdOnce ==
  /\ \A k \in Keys : Cardinality({a \in actions : a.key = k}) <= 1
  /\ escalations["ESCALATION"].open + escalations["ESCALATION"].acknowledged =
       Cardinality({a \in actions : a.key = "ESCALATION" /\ a.disposition = "EXECUTED"})
=============================================================================
