------------------------- MODULE CertificateRegistry -------------------------
(***************************************************************************)
(* What issuance promises the public registry: an approved request gains   *)
(* at most one certificate, the document it shows is the one that was      *)
(* signed, and a published certificate never changes or disappears.        *)
(***************************************************************************)
CONSTANTS Requests, Artifacts, None   \* None is no artifact

VARIABLES
  stage,    \* "undecided", "approved" or "published"
  document  \* the signed artifact of the published certificate

vars == <<stage, document>>

Init ==
  /\ stage = [r \in Requests |-> "undecided"]
  /\ document = [r \in Requests |-> None]

Approve(r) ==
  /\ stage[r] = "undecided"
  /\ stage' = [stage EXCEPT ![r] = "approved"]
  /\ UNCHANGED document

Publish(r, a) ==
  /\ stage[r] = "approved"
  /\ stage' = [stage EXCEPT ![r] = "published"]
  /\ document' = [document EXCEPT ![r] = a]

Next == \E r \in Requests : Approve(r) \/ \E a \in Artifacts : Publish(r, a)

Spec == Init /\ [][Next]_vars
=============================================================================
