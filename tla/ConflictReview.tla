----------------------------- MODULE ConflictReview -----------------------------
(***************************************************************************)
(* Proposals of what a device holds and the server refused, for one visit, *)
(* and their review by a supervisor.                                       *)
(*                                                                         *)
(* ProposeConflict locks nothing but the fence of its actor: it reads the  *)
(* visit, then the synchronisation of the operation, and keeps both as the *)
(* server's side of the conflict. Assignments and ends of visits are those *)
(* of Bookings and OfflineSync; an operation accepted by synchronisation   *)
(* ends the visit under the same fence, kept until its record is committed.*)
(***************************************************************************)
EXTENDS Naturals

CONSTANTS
  Proposers, Reviewers,  \* officers and supervisors
  Operations             \* operation ids their devices made up

Nobody == "nobody"

ReviewAssumption == Nobody \notin Proposers

VARIABLES
  assignee,    \* the officer of the active assignment
  former,      \* everyone who was ever assigned
  ended,       \* who ended the visit, and the operation of the device that did
  proposing,   \* open ProposeConflict transactions: what they read of the visit
  proposals    \* report conflicts by proposer and operation

reviewVars == <<assignee, former, ended, proposing, proposals>>

Outcomes == {"PROPOSE_NEW_REPORT", "REINSPECTION_REQUIRED", "DECLINE"}
NotEnded == [officer |-> Nobody, operation |-> "none"]
NotProposing == [operation |-> "none", mine |-> FALSE, ended |-> FALSE]
NoProposal == [state |-> "none", mine |-> FALSE, ended |-> FALSE, synced |-> FALSE, outcome |-> "none", by |-> Nobody]

Init ==
  /\ assignee = Nobody /\ former = {} /\ ended = NotEnded
  /\ proposing = [o \in Proposers |-> NotProposing]
  /\ proposals = [o \in Proposers |-> [x \in Operations |-> NoProposal]]

FenceFree(o) == proposing[o] = NotProposing

\* The visit is assigned, to anyone, until it has ended.
Assign(o) ==
  /\ ended = NotEnded /\ o # assignee
  /\ assignee' = o /\ former' = former \cup {o}
  /\ UNCHANGED <<ended, proposing, proposals>>

\* SubmitReport or FailVisit of the assignee, online ("none") or a synchronised operation.
EndVisit(o, x) ==
  /\ assignee = o /\ FenceFree(o)
  /\ ended' = [officer |-> o, operation |-> x] /\ assignee' = Nobody
  /\ UNCHANGED <<former, proposing, proposals>>

\* Whoever was never assigned learns nothing, and an operation is proposed once.
MayPropose(o, x) == o \in former /\ proposals[o][x] = NoProposal

BeginProposal(o, x) ==
  /\ FenceFree(o) /\ MayPropose(o, x)
  /\ proposing' = [proposing EXCEPT ![o] = [operation |-> x, mine |-> assignee = o, ended |-> ended # NotEnded]]
  /\ UNCHANGED <<assignee, former, ended, proposals>>

\* uniq_conflict_proposal stands behind the check of BeginProposal.
ProposeConflict(o) ==
  LET p == proposing[o] IN
  /\ ~FenceFree(o) /\ proposals[o][p.operation] = NoProposal
  /\ proposals' = [proposals EXCEPT ![o][p.operation] =
       [NoProposal EXCEPT !.state = "OPEN", !.mine = p.mine, !.ended = p.ended,
                          !.synced = ended = [officer |-> o, operation |-> p.operation]]]
  /\ proposing' = [proposing EXCEPT ![o] = NotProposing]
  /\ UNCHANGED <<assignee, former, ended>>

RollBack(o) ==
  /\ ~FenceFree(o) /\ proposing' = [proposing EXCEPT ![o] = NotProposing]
  /\ UNCHANGED <<assignee, former, ended, proposals>>

\* Decided under the lock of the proposal; the evidence selected is CLEAN, which is final (Documents).
ResolveConflict(s, o, x, outcome) ==
  /\ proposals[o][x].state = "OPEN"
  /\ proposals' = [proposals EXCEPT ![o][x].state = "RESOLVED", ![o][x].outcome = outcome, ![o][x].by = s]
  /\ UNCHANGED <<assignee, former, ended, proposing>>

Next ==
  \/ \E o \in Proposers : Assign(o) \/ ProposeConflict(o) \/ RollBack(o)
  \/ \E o \in Proposers, x \in Operations : BeginProposal(o, x)
  \/ \E o \in Proposers, x \in Operations \cup {"none"} : EndVisit(o, x)
  \/ \E s \in Reviewers, o \in Proposers, x \in Operations, outcome \in Outcomes : ResolveConflict(s, o, x, outcome)

Spec == Init /\ [][Next]_reviewVars

-----------------------------------------------------------------------------
TypeOK ==
  /\ former \subseteq Proposers /\ assignee \in former \cup {Nobody}
  /\ \A o \in Proposers, x \in Operations :
       LET p == proposals[o][x] IN
       /\ p.state \in {"none", "OPEN", "RESOLVED"} /\ (p.state = "RESOLVED" <=> p.outcome \in Outcomes)
       /\ p.by \in Reviewers \cup {Nobody}

\* The server's side of a proposal is of one moment: an operation it calls
\* accepted is one that had ended the visit, and its officer's assignment.
SnapshotAgrees ==
  \A o \in Proposers, x \in Operations :
    proposals[o][x].synced => proposals[o][x].ended /\ ~proposals[o][x].mine

\* A review is given once: what was decided is decided, and by whom.
DecidedOnce ==
  \A o \in Proposers, x \in Operations :
    proposals[o][x].state = "RESOLVED" => proposals'[o][x] = proposals[o][x]
=================================================================================
