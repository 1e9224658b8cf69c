------------------------------- MODULE Policies -------------------------------
(***************************************************************************)
(* agni.policies: the versions of one service's policy, from draft through *)
(* review and simulation to approval and activation, and the submissions   *)
(* that pin the version in force.                                          *)
(*                                                                         *)
(* Commands on a version lock its row. Activation and submission lock the  *)
(* service too; approval does not, so its overlap check and its commit are *)
(* two steps. Intervals are half-open; until = Open means no end.          *)
(***************************************************************************)
EXTENDS Naturals, FiniteSets

CONSTANTS Versions, Editors, Payloads, MaxTime

PoliciesAssumption == MaxTime \in Nat \ {0} /\ "none" \notin Editors

Open == MaxTime + 2
Instants == 1..(MaxTime + 1)
Effective == {"APPROVED", "SCHEDULED", "ACTIVE"}

VARIABLES
  policyTime,
  policy,        \* PolicyVersion rows
  contributors,  \* PolicyContributor rows: the principals who edited a version
  passed,        \* simulations passed: version and candidate
  approvals,     \* approvals that were checked and did not commit yet
  pinned         \* versions submissions pinned, with the instant

policyVars == <<policyTime, policy, contributors, passed, approvals, pinned>>

Init ==
  /\ policyTime = 1
  /\ policy = [v \in Versions |-> [state |-> "none", payload |-> "none", candidate |-> "none",
                                   approver |-> "none", from |-> 0, until |-> 0]]
  /\ contributors = [v \in Versions |-> {}]
  /\ passed = {}
  /\ approvals = {}
  /\ pinned = {}

Unlocked(v) == \A a \in approvals : v # a.version /\ v \notin a.closes
Editable(v) == policy[v].state \in {"DRAFT", "RETURNED"}

-----------------------------------------------------------------------------
(* Preparation and review. *)

PreparePolicyDraft(actor, v, payload) ==
  /\ policy[v].state = "none"
  /\ policy' = [policy EXCEPT ![v].state = "DRAFT", ![v].payload = payload]
  /\ contributors' = [contributors EXCEPT ![v] = {actor}]
  /\ UNCHANGED <<policyTime, passed, approvals, pinned>>

PatchPolicyDraft(actor, v, payload) ==
  /\ Editable(v)
  /\ policy' = [policy EXCEPT ![v].state = "DRAFT", ![v].payload = payload, ![v].candidate = "none"]
  /\ contributors' = [contributors EXCEPT ![v] = @ \cup {actor}]
  /\ UNCHANGED <<policyTime, passed, approvals, pinned>>

SubmitPolicyForReview(v) ==
  /\ Editable(v)
  /\ policy' = [policy EXCEPT ![v].state = "IN_REVIEW", ![v].candidate = policy[v].payload]
  /\ UNCHANGED <<policyTime, contributors, passed, approvals, pinned>>

\* A failed suite is recorded too, and nothing reads it.
RunPolicySimulation(v) ==
  /\ Unlocked(v) /\ policy[v].state # "none"
  /\ passed' = passed \cup {<<v, policy[v].payload>>}
  /\ UNCHANGED <<policyTime, policy, contributors, approvals, pinned>>

ReturnPolicy(v) ==
  /\ Unlocked(v) /\ policy[v].state = "IN_REVIEW"
  /\ policy' = [policy EXCEPT ![v].state = "RETURNED"]
  /\ UNCHANGED <<policyTime, contributors, passed, approvals, pinned>>

-----------------------------------------------------------------------------
(* Approval. *)

Meets(from, until, other) == other.from < until /\ from < other.until

MutNoOverlap(v, from, until, rows) ==
  \A o \in Versions \ {v} : rows[o].state \in {"SCHEDULED"} => ~Meets(from, until, rows[o])
NoOverlap(v, from, until, rows) ==
  \A o \in Versions \ {v} : rows[o].state \in Effective => ~Meets(from, until, rows[o])

Predecessors(v, from) ==
  {o \in Versions \ {v} : policy[o].state \in Effective /\ policy[o].until = Open /\ policy[o].from < from}

Closed(rows, closes, from) ==
  [o \in Versions |-> IF o \in closes THEN [rows[o] EXCEPT !.until = from] ELSE rows[o]]

Reviewed(actor, v) ==
  /\ policy[v].state = "IN_REVIEW"
  /\ actor \notin contributors[v]
  /\ policy[v].candidate = policy[v].payload
  /\ <<v, policy[v].candidate>> \in passed

\* The checks of ApprovePolicy; it may close the one open-ended predecessor.
CheckApproval(actor, v, from, until, closing) ==
  LET found == IF closing THEN Predecessors(v, from) ELSE {}
      closes == IF Cardinality(found) = 1 THEN found ELSE {}
  IN
  /\ Unlocked(v) /\ \A o \in found : Unlocked(o)
  /\ Reviewed(actor, v)
  /\ from < until
  /\ NoOverlap(v, from, until, Closed(policy, closes, from))
  /\ approvals' = approvals \cup
       {[version |-> v, approver |-> actor, from |-> from, until |-> until, closes |-> closes]}
  /\ UNCHANGED <<policyTime, policy, contributors, passed, pinned>>

ApprovePolicy(a) ==
  /\ policy' = [Closed(policy, a.closes, a.from) EXCEPT
                  ![a.version] = [@ EXCEPT !.state = "APPROVED", !.approver = a.approver,
                                           !.from = a.from, !.until = a.until]]
  /\ approvals' = approvals \ {a}
  /\ UNCHANGED <<policyTime, contributors, passed, pinned>>

-----------------------------------------------------------------------------
(* Activation, and submission, under the fence of the service. *)

ActivatePolicy(v) ==
  LET r == policy[v]
      over == {o \in Versions \ {v} : policy[o].state = "ACTIVE" /\ policy[o].until <= policyTime}
  IN
  /\ Unlocked(v) /\ r.state \in {"APPROVED", "SCHEDULED"}
  /\ NoOverlap(v, r.from, r.until, policy)
  /\ policy' = [o \in Versions |->
       IF o = v THEN [r EXCEPT !.state = IF r.from > policyTime THEN "SCHEDULED" ELSE "ACTIVE"]
       ELSE IF o \in over /\ r.from <= policyTime THEN [policy[o] EXCEPT !.state = "RETIRED"]
       ELSE policy[o]]
  /\ UNCHANGED <<policyTime, contributors, passed, approvals, pinned>>

EffectiveVersions(at) ==
  {v \in Versions : policy[v].state \in {"ACTIVE", "SCHEDULED"} /\ policy[v].from <= at /\ at < policy[v].until}

\* select_policy refuses to guess between two.
Submit ==
  /\ Cardinality(EffectiveVersions(policyTime)) = 1
  /\ pinned' = pinned \cup {<<v, policyTime>> : v \in EffectiveVersions(policyTime)}
  /\ UNCHANGED <<policyTime, policy, contributors, passed, approvals>>

PassTime ==
  /\ policyTime < MaxTime
  /\ policyTime' = policyTime + 1
  /\ UNCHANGED <<policy, contributors, passed, approvals, pinned>>

-----------------------------------------------------------------------------
(* The specification. *)

Next ==
  \/ \E actor \in Editors, v \in Versions, p \in Payloads :
       PreparePolicyDraft(actor, v, p) \/ PatchPolicyDraft(actor, v, p)
  \/ \E v \in Versions :
       SubmitPolicyForReview(v) \/ RunPolicySimulation(v) \/ ReturnPolicy(v) \/ ActivatePolicy(v)
  \/ \E actor \in Editors, v \in Versions, from \in Instants, until \in Instants \cup {Open} :
       \E closing \in BOOLEAN : CheckApproval(actor, v, from, until, closing)
  \/ \E a \in approvals : ApprovePolicy(a)
  \/ Submit \/ PassTime

Spec == Init /\ [][Next]_policyVars
-----------------------------------------------------------------------------
(* Properties. *)

\* Rows hold values of their columns and satisfy their check constraints.
TypeOK ==
  /\ \A v \in Versions :
       /\ policy[v].state \in {"none", "DRAFT", "IN_REVIEW", "RETURNED", "RETIRED"} \cup Effective
       /\ policy[v].state \in Effective => policy[v].from < policy[v].until /\ policy[v].approver # "none"
       /\ (policy[v].state = "none") = (contributors[v] = {})
  /\ \A x \in pinned : policy[x[1]].state \in {"ACTIVE", "SCHEDULED", "RETIRED"}

\* At no instant are two versions in force, although two approvals may check
\* their intervals against each other's old state and both commit.
OnePolicyAtATime ==
  \A v, o \in Versions :
    v # o /\ {policy[v].state, policy[o].state} \subseteq {"ACTIVE", "SCHEDULED"} =>
      ~Meets(policy[v].from, policy[v].until, policy[o])

\* A version in force was approved by somebody who never edited it, as the
\* very candidate that passed the simulation, over all rounds of return and edit.
ApprovedAsReviewed ==
  \A v \in Versions : policy[v].state \in Effective \cup {"RETIRED"} =>
    /\ policy[v].approver \notin contributors[v]
    /\ policy[v].payload = policy[v].candidate
    /\ <<v, policy[v].payload>> \in passed
=============================================================================
