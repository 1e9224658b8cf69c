------------------------------ MODULE PartnerInbox ------------------------------
(***************************************************************************)
(* agni.integrations for one record of a partner: events are received in   *)
(* any order and more than once, a job applies each against the sequence   *)
(* already reflected, and what does not fit becomes a conflict that the    *)
(* predecessor or an operator resolves.                                    *)
(*                                                                         *)
(* An apply job holds the row of the record, so it is one step, and may    *)
(* run again after a crash: it asks for RECEIVED. An operator locks the    *)
(* conflict and works on an unlocked read of the event, in two steps.      *)
(***************************************************************************)
EXTENDS Naturals, FiniteSets

CONSTANTS
  Events,      \* source events
  SequenceOf,  \* their position in the partner's sequence; another event may repeat one
  VersionOf,   \* and the source version they carry
  MaxOperators, \* bound: resolutions under way at once
  MaxConflicts  \* bound: with so many conflicts open, no event is received with another body

InboxAssumption ==
  /\ SequenceOf \in [Events -> Nat \ {0}]
  /\ {MaxOperators, MaxConflicts} \subseteq Nat

VARIABLES
  integration,  \* Integration.state
  inbox,        \* IntegrationInbox.state
  reflected,    \* PartnerEntityState: applied sequence and version
  conflicts,    \* open IntegrationConflict rows
  resolutions   \* ResolveConflict transactions under way

inboxVars == <<integration, inbox, reflected, conflicts, resolutions>>

Init ==
  /\ integration = "ENABLED"
  /\ inbox = [e \in Events |-> "none"]
  /\ reflected = [sequence |-> 0, version |-> 0]
  /\ conflicts = {}
  /\ resolutions = {}

-----------------------------------------------------------------------------
(* The health of the integration. *)

\* A disabled integration refuses events and probes, and nothing changes.
RunIntegrationTest ==
  /\ integration' = IF integration = "ENABLED" THEN "DEGRADED" ELSE "ENABLED"
  /\ UNCHANGED <<inbox, reflected, conflicts, resolutions>>

-----------------------------------------------------------------------------
(* Receipt. *)

\* The row of an event and its apply job are committed together; an event that
\* is received again is answered with its receipt.
ReceiveEvent(e) ==
  /\ inbox[e] = "none"
  /\ inbox' = [inbox EXCEPT ![e] = "RECEIVED"]
  /\ UNCHANGED <<integration, reflected, conflicts, resolutions>>

Conflict(e, reason) == [event |-> e, reason |-> reason]
Locked(c) == \E r \in resolutions : r.conflict = c

\* Again, with another body.
ReceiveMismatch(e) ==
  /\ inbox[e] # "none" /\ Cardinality(conflicts) < MaxConflicts
  /\ conflicts' = conflicts \cup {Conflict(e, "PAYLOAD_MISMATCH")}
  /\ UNCHANGED <<integration, inbox, reflected, resolutions>>

-----------------------------------------------------------------------------
(* Application. *)

Classify(e) ==
  LET n == SequenceOf[e] IN
  CASE [sequence |-> n, version |-> VersionOf[e]] = reflected -> "DUPLICATE"
    [] n <= reflected.sequence /\ [sequence |-> n, version |-> VersionOf[e]] # reflected -> "OLDER_THAN_APPLIED"
    [] n = reflected.sequence + 1 -> "APPLY"
    [] n > reflected.sequence + 1 -> "SEQUENCE_GAP"

MutWaiting == {"RECEIVED"}
Waiting == {"CONFLICT", "RECEIVED"}

\* release_successors, after the transaction wrote `rows` and resolved `own`:
\* the gap conflicts of the events that come next are resolved; an operator who
\* holds one of them is waited for.
ReleaseSuccessors(n, rows, own) ==
  LET next == {e \in Events : SequenceOf[e] = n + 1 /\ rows[e] \in Waiting}
      gaps == (conflicts \ own) \cap {Conflict(e, "SEQUENCE_GAP") : e \in next}
  IN
  /\ \A c \in gaps : ~Locked(c)
  /\ inbox' = [e \in Events |-> IF e \in next THEN "RECEIVED" ELSE rows[e]]
  /\ conflicts' = conflicts \ (gaps \cup own)

Processed(e) == [inbox EXCEPT ![e] = "PROCESSED"]

ApplyEvent(e) ==
  /\ inbox[e] = "RECEIVED" /\ Classify(e) = "APPLY"
  /\ reflected' = [sequence |-> SequenceOf[e], version |-> VersionOf[e]]
  /\ ReleaseSuccessors(SequenceOf[e], Processed(e), {})
  /\ UNCHANGED <<integration, resolutions>>

IgnoreDuplicate(e) ==
  /\ inbox[e] = "RECEIVED" /\ Classify(e) = "DUPLICATE"
  /\ inbox' = Processed(e)
  /\ UNCHANGED <<integration, reflected, conflicts, resolutions>>

OpenConflict(e) ==
  /\ inbox[e] = "RECEIVED" /\ Classify(e) \in {"SEQUENCE_GAP", "OLDER_THAN_APPLIED"}
  /\ inbox' = [inbox EXCEPT ![e] = "CONFLICT"]
  /\ conflicts' = conflicts \cup {Conflict(e, Classify(e))}
  /\ UNCHANGED <<integration, reflected, resolutions>>

-----------------------------------------------------------------------------
(* Operators. *)

\* The event is read with the conflict; the partner's source may answer with
\* its record at any position.
BeginResolution(c, answer) ==
  /\ Cardinality(resolutions) < MaxOperators
  /\ ~Locked(c)
  /\ resolutions' = resolutions \cup {[conflict |-> c, seen |-> inbox[c.event], lookup |-> answer]}
  /\ UNCHANGED <<integration, inbox, reflected, conflicts>>

ApplyVerifiedSource(r) ==
  /\ r.lookup >= reflected.sequence
  /\ reflected' = [sequence |-> r.lookup, version |-> r.lookup]
  /\ ReleaseSuccessors(r.lookup,
       IF r.seen \in {"CONFLICT", "QUARANTINED"} THEN Processed(r.conflict.event) ELSE inbox,
       {r.conflict})
  /\ resolutions' = resolutions \ {r}
  /\ UNCHANGED integration

\* IGNORE_DUPLICATE, REQUEST_RESEND or KEEP_QUARANTINED, whatever became of the
\* event after it was read.
SetAside(r) ==
  /\ inbox' \in {Processed(r.conflict.event),
                 [inbox EXCEPT ![r.conflict.event] = "QUARANTINED"]}
  /\ conflicts' = conflicts \ {r.conflict}
  /\ resolutions' = resolutions \ {r}
  /\ UNCHANGED <<integration, reflected>>

AbandonResolution(r) ==
  /\ resolutions' = resolutions \ {r}
  /\ UNCHANGED <<integration, inbox, reflected, conflicts>>

-----------------------------------------------------------------------------
(* The specification. *)

Next ==
  \/ RunIntegrationTest
  \/ \E e \in Events : ReceiveEvent(e) \/ ReceiveMismatch(e)
                       \/ ApplyEvent(e) \/ IgnoreDuplicate(e) \/ OpenConflict(e)
  \/ \E c \in conflicts, answer \in {SequenceOf[e] : e \in Events} : BeginResolution(c, answer)
  \/ \E r \in resolutions : ApplyVerifiedSource(r) \/ SetAside(r) \/ AbandonResolution(r)

Spec == Init /\ [][Next]_inboxVars
-----------------------------------------------------------------------------
(* Properties. *)

\* Rows hold values of their columns, and what is reflected came from the source.
TypeOK ==
  /\ \A e \in Events : inbox[e] \in {"none", "RECEIVED", "PROCESSED", "CONFLICT", "QUARANTINED"}
  /\ reflected.sequence \in {0} \cup {SequenceOf[e] : e \in Events}
  /\ \A r \in resolutions : r.conflict \in conflicts

\* "An older event never overwrites a newer reflection; a gap waits for its
\* predecessor": the reflection never goes back, and no event that comes right
\* after it is left waiting, in whatever order events, jobs and operators come.
GapsClose == \A e \in Events : inbox[e] = "CONFLICT" => SequenceOf[e] # reflected.sequence + 1
NeverBack == reflected'.sequence >= reflected.sequence
=============================================================================
