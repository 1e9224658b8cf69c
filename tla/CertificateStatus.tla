--------------------------- MODULE CertificateStatus ---------------------------
(***************************************************************************)
(* agni.certificates after publication: supervisors suspend, reinstate,    *)
(* revoke and supersede the certificates of one premises, and the holder   *)
(* starts renewals.                                                        *)
(*                                                                         *)
(* A status action locks its certificate first and, to supersede it, the   *)
(* successor afterwards: two steps, and two of them may wait for each      *)
(* other until the database aborts one. A renewal locks nothing.           *)
(***************************************************************************)
EXTENDS Naturals, FiniteSets

CONSTANTS
  Certificates,
  Renewals,      \* applications that may renew one
  Perpetual      \* the certificates without valid_until

NoOne == "no one"

StatusAssumption == Perpetual \subseteq Certificates /\ NoOne \notin Certificates

Final == {"REVOKED", "SUPERSEDED"}

VARIABLES
  recorded,      \* Certificate.recorded_status
  expired,       \* the certificates whose valid_until has passed
  predecessor,   \* Certificate.predecessor
  superseding,   \* transactions that hold their certificate and want its successor
  renewals       \* what an application renews, and its state

statusVars == <<recorded, expired, predecessor, superseding, renewals>>

Init ==
  /\ recorded = [c \in Certificates |-> "none"]
  /\ expired = {}
  /\ predecessor = [c \in Certificates |-> NoOne]
  /\ superseding = {}
  /\ renewals = [r \in Renewals |-> [state |-> "none", prior |-> NoOne]]

EffectiveStatus(c) ==
  IF recorded[c] \in Final \/ c \notin expired THEN recorded[c] ELSE "EXPIRED"

\* The pure rule: what may be recorded, given the recorded and effective status.
Admissible(c) ==
  CASE recorded[c] \in Final \cup {"none"} -> {}
    [] EffectiveStatus(c) = "EXPIRED" -> {"REVOKED", "SUPERSEDED"}
    [] EffectiveStatus(c) = "ACTIVE" -> {"SUSPENDED", "REVOKED", "SUPERSEDED"}
    [] EffectiveStatus(c) = "SUSPENDED" -> {"ACTIVE", "REVOKED", "SUPERSEDED"}

Unlocked(c) == \A s \in superseding : s.target # c

-----------------------------------------------------------------------------
(* Publication, by the issuance worker, and the end of validity. *)

Publish(c) ==
  /\ recorded[c] = "none"
  /\ recorded' = [recorded EXCEPT ![c] = "ACTIVE"]
  /\ UNCHANGED <<expired, predecessor, superseding, renewals>>

PassValidUntil(c) ==
  /\ recorded[c] # "none" /\ c \notin expired \cup Perpetual
  /\ expired' = expired \cup {c}
  /\ UNCHANGED <<recorded, predecessor, superseding, renewals>>

-----------------------------------------------------------------------------
(* Status actions of a supervisor. *)

\* SUSPEND, REINSTATE and REVOKE, each with an instrument; whether the evidence
\* cited is a clean file of the case is a refusal that changes nothing.
RecordStatusAction(c, after) ==
  /\ Unlocked(c)
  /\ after # "SUPERSEDED" /\ after \in Admissible(c)
  /\ recorded' = [recorded EXCEPT ![c] = after]
  /\ UNCHANGED <<expired, predecessor, superseding, renewals>>

\* SUPERSEDE: lock the certificate, then the successor.
LockCertificate(c, successor) ==
  /\ Unlocked(c)
  /\ c # successor
  /\ superseding' = superseding \cup {[target |-> c, successor |-> successor]}
  /\ UNCHANGED <<recorded, expired, predecessor, renewals>>

FitSuccessor(c) == EffectiveStatus(c) = "ACTIVE" /\ predecessor[c] = NoOne

Supersede(s) ==
  /\ Unlocked(s.successor)
  /\ FitSuccessor(s.successor)
  /\ "SUPERSEDED" \in Admissible(s.target)
  /\ recorded' = [recorded EXCEPT ![s.target] = "SUPERSEDED"]
  /\ predecessor' = [predecessor EXCEPT ![s.successor] = s.target]
  /\ superseding' = superseding \ {s}
  /\ UNCHANGED <<expired, renewals>>

\* A refusal, or the database aborts one of two that wait for each other.
AbortSupersession(s) ==
  /\ superseding' = superseding \ {s}
  /\ UNCHANGED <<recorded, expired, predecessor, renewals>>

-----------------------------------------------------------------------------
(* Renewals of the holder. *)

CheckRenewal(r, c) ==
  /\ renewals[r].state = "none"
  /\ recorded[c] \notin Final \cup {"none"}
  /\ \A other \in Renewals : ~(renewals[other].state = "open" /\ renewals[other].prior = c)
  /\ renewals' = [renewals EXCEPT ![r] = [state |-> "checked", prior |-> c]]
  /\ UNCHANGED <<recorded, expired, predecessor, superseding>>

CreateRenewalDraft(r) ==
  /\ renewals[r].state = "checked"
  /\ renewals' = [renewals EXCEPT ![r].state = "open"]
  /\ UNCHANGED <<recorded, expired, predecessor, superseding>>

\* The renewal application reaches COMPLETED, REJECTED or WITHDRAWN.
CloseRenewal(r) ==
  /\ renewals[r].state = "open"
  /\ renewals' = [renewals EXCEPT ![r].state = "closed"]
  /\ UNCHANGED <<recorded, expired, predecessor, superseding>>

-----------------------------------------------------------------------------
(* The specification. *)

Next ==
  \/ \E c \in Certificates : Publish(c) \/ PassValidUntil(c)
  \/ \E c \in Certificates, after \in {"SUSPENDED", "ACTIVE", "REVOKED"} : RecordStatusAction(c, after)
  \/ \E c, successor \in Certificates : LockCertificate(c, successor)
  \/ \E s \in superseding : Supersede(s) \/ AbortSupersession(s)
  \/ \E r \in Renewals, c \in Certificates : CheckRenewal(r, c)
  \/ \E r \in Renewals : CreateRenewalDraft(r) \/ CloseRenewal(r)

Spec == Init /\ [][Next]_statusVars
-----------------------------------------------------------------------------
(* Properties. *)

\* Rows hold values of their columns.
TypeOK ==
  /\ recorded \in [Certificates -> {"none", "ACTIVE", "SUSPENDED"} \cup Final]
  /\ expired \subseteq Certificates \ Perpetual
  /\ predecessor \in [Certificates -> Certificates \cup {NoOne}]

\* Every superseded certificate has exactly one successor and only superseded
\* ones have: no successor is claimed by two, and no chain closes.
SuccessionStands ==
  \A c \in Certificates :
    Cardinality({s \in Certificates : predecessor[s] = c}) = IF recorded[c] = "SUPERSEDED" THEN 1 ELSE 0

\* "Nothing here resurrects a record": a revoked or superseded certificate
\* keeps its status, and an expired one never comes back into force.
NeverResurrected ==
  \A c \in Certificates :
    /\ recorded[c] \in Final => recorded'[c] = recorded[c]
    /\ c \in expired => EffectiveStatus(c)' \in Final \cup {"EXPIRED"}
=============================================================================
