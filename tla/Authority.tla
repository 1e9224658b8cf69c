------------------------------- MODULE Authority -------------------------------
(***************************************************************************)
(* agni.identity: staff accounts, their role bindings and authority grants,*)
(* the access requests accounts come from, and the sessions that remember  *)
(* the epoch of their account.                                             *)
(*                                                                         *)
(* Commands lock the fence of their actor and of their subject, and an     *)
(* approval or revocation its grant; only the proposal of a grant decides  *)
(* on rows it does not lock, and is split for that. Who filed and approved *)
(* an access request is data: no code of the repository approves one.      *)
(***************************************************************************)
EXTENDS Naturals, FiniteSets

CONSTANTS
  Staff, GrantIds, AccessRequests,
  InitialGrants,   \* the grants in force at the beginning: a function from some of GrantIds
  Founders,        \* the administrators there are at the beginning
  Beneficiary, Involved, \* of an access request: whom it is for, who requested and approved it
  MaxEpoch

Capabilities == {"grant.approve", "staff.provision"}
NoGrant == [state |-> "none"]
NoSession == [epoch |-> 0, powers |-> {}]

\* The grants there are at the beginning were approved by people who need not be staff any more.
AuthorityAssumption ==
  /\ MaxEpoch \in Nat \ {0} /\ "none" \notin Staff
  /\ Founders \subseteq Staff
  /\ DOMAIN InitialGrants \subseteq GrantIds
  /\ \A g \in DOMAIN InitialGrants :
       LET r == InitialGrants[g] IN
       /\ r = [state |-> "APPROVED", subject |-> r.subject, capability |-> r.capability,
               preparer |-> r.preparer, approver |-> r.approver]
       /\ r.subject \in Staff /\ r.capability \in Capabilities /\ r.approver # "none"
  /\ Beneficiary \in [AccessRequests -> Staff]

VARIABLES
  account,   \* "absent", "active" or "disabled"
  epoch,     \* authz_epoch
  admin,     \* the accounts with an ADMIN binding that is not revoked
  grants,    \* AuthorityGrant rows
  consumed,  \* access requests that were used
  sessions   \* the session of an account: its epoch, and the powers the account had

authorityVars == <<account, epoch, admin, grants, consumed, sessions>>

InForce(p) == {g \in GrantIds : grants[g].state = "APPROVED" /\ grants[g].subject = p}

\* load_snapshot and the checks on it.
RequireRole(p) == account[p] = "active" /\ p \in admin
RequireCapability(p, capability) ==
  account[p] = "active" /\ \E g \in InForce(p) : grants[g].capability = capability
Powers(p) == {"ADMIN" : x \in admin \cap {p}} \cup InForce(p)

Init ==
  /\ account = [p \in Staff |-> IF p \in Founders THEN "active" ELSE "absent"]
  /\ epoch = [p \in Staff |-> 1]
  /\ admin = Founders
  /\ grants = [g \in GrantIds |-> IF g \in DOMAIN InitialGrants THEN InitialGrants[g] ELSE NoGrant]
  /\ consumed = {}
  /\ sessions = [p \in Staff |-> NoSession]

-----------------------------------------------------------------------------
(* Accounts. *)

Bump(p) == epoch' = [epoch EXCEPT ![p] = @ + 1]

Usable(r, p, actor) ==
  /\ r \notin consumed
  /\ Beneficiary[r] = p
  /\ actor \notin Involved[r]

ProvisionStaff(actor, r) ==
  LET p == Beneficiary[r] IN
  /\ RequireRole(actor) /\ RequireCapability(actor, "staff.provision")
  /\ Usable(r, p, actor)
  /\ account[p] = "absent"
  /\ account' = [account EXCEPT ![p] = "active"]
  /\ admin' = admin \cup {p}
  /\ consumed' = consumed \cup {r}
  /\ UNCHANGED <<epoch, grants, sessions>>

ReactivatePrincipal(actor, r) ==
  LET p == Beneficiary[r] IN
  /\ RequireRole(actor) /\ RequireCapability(actor, "staff.provision")
  /\ actor # p
  /\ Usable(r, p, actor)
  /\ account[p] = "disabled" /\ epoch[p] < MaxEpoch
  /\ account' = [account EXCEPT ![p] = "active"]
  /\ Bump(p)
  /\ admin' = admin \cup {p}
  /\ consumed' = consumed \cup {r}
  /\ UNCHANGED <<grants, sessions>>

\* The rows an update would touch are those committed by then.
PowersOf(p) ==
  {g \in GrantIds : grants[g].state \in {"PROPOSED", "APPROVED"} /\ grants[g].subject = p}

DisablePrincipal(actor, p) ==
  /\ RequireRole(actor) /\ actor # p
  /\ account[p] = "active" /\ epoch[p] < MaxEpoch
  /\ account' = [account EXCEPT ![p] = "disabled"]
  /\ Bump(p)
  /\ admin' = admin \ {p}
  /\ grants' = [g \in GrantIds |-> IF g \in PowersOf(p) THEN [grants[g] EXCEPT !.state = "REVOKED"]
                                                         ELSE grants[g]]
  /\ UNCHANGED <<consumed, sessions>>

-----------------------------------------------------------------------------
(* Grants. *)

Equivalent(g, p, capability) ==
  /\ grants[g].state \in {"PROPOSED", "APPROVED"}
  /\ grants[g].subject = p /\ grants[g].capability = capability

\* The subject and its grants are read without the subject's fence.
CheckProposal(actor, g, p, capability) ==
  /\ RequireRole(actor)
  /\ grants[g] = NoGrant
  /\ account[p] = "active"
  /\ \A other \in GrantIds : ~Equivalent(other, p, capability)
  /\ grants' = [grants EXCEPT ![g] = [state |-> "checked", subject |-> p, capability |-> capability,
                                      preparer |-> actor, approver |-> "none"]]
  /\ UNCHANGED <<account, epoch, admin, consumed, sessions>>

ProposeAuthorityGrant(g) ==
  /\ grants[g].state = "checked"
  /\ grants' = [grants EXCEPT ![g].state = "PROPOSED"]
  /\ UNCHANGED <<account, epoch, admin, consumed, sessions>>

MutIndependent(actor, g) == actor # grants[g].subject
Independent(actor, g) == actor \notin {grants[g].preparer, grants[g].subject}

ApproveAuthorityGrant(actor, g) ==
  /\ RequireCapability(actor, "grant.approve")
  /\ grants[g].state = "PROPOSED"
  /\ Independent(actor, g)
  /\ epoch[grants[g].subject] < MaxEpoch
  /\ grants' = [grants EXCEPT ![g].state = "APPROVED", ![g].approver = actor]
  /\ Bump(grants[g].subject)
  /\ UNCHANGED <<account, admin, consumed, sessions>>

MutRevokeAuthorityGrant(actor, g) ==
  /\ RequireCapability(actor, "grant.approve")
  /\ grants[g].state \in {"PROPOSED", "APPROVED"}
  /\ grants' = [grants EXCEPT ![g].state = "REVOKED"]
  /\ UNCHANGED <<account, epoch, admin, consumed, sessions>>
RevokeAuthorityGrant(actor, g) ==
  /\ RequireCapability(actor, "grant.approve")
  /\ grants[g].state \in {"PROPOSED", "APPROVED"}
  /\ epoch[grants[g].subject] < MaxEpoch
  /\ grants' = [grants EXCEPT ![g].state = "REVOKED"]
  /\ Bump(grants[g].subject)
  /\ UNCHANGED <<account, admin, consumed, sessions>>

-----------------------------------------------------------------------------
(* Sessions. *)

EstablishSession(p) ==
  /\ account[p] = "active"
  /\ sessions' = [sessions EXCEPT ![p] = [epoch |-> epoch[p], powers |-> Powers(p)]]
  /\ UNCHANGED <<account, epoch, admin, grants, consumed>>

\* Idle or absolute lifetime, or logout.
EndSession(p) ==
  /\ sessions[p] # NoSession
  /\ sessions' = [sessions EXCEPT ![p] = NoSession]
  /\ UNCHANGED <<account, epoch, admin, grants, consumed>>

ValidSession(p) ==
  /\ account[p] = "active"
  /\ sessions[p].epoch = epoch[p]

-----------------------------------------------------------------------------
(* The specification. *)

Next ==
  \/ \E actor \in Staff, r \in AccessRequests : ProvisionStaff(actor, r) \/ ReactivatePrincipal(actor, r)
  \/ \E actor, p \in Staff : DisablePrincipal(actor, p)
  \/ \E actor, p \in Staff, g \in GrantIds, c \in Capabilities : CheckProposal(actor, g, p, c)
  \/ \E g \in GrantIds : ProposeAuthorityGrant(g)
  \/ \E actor \in Staff, g \in GrantIds : ApproveAuthorityGrant(actor, g) \/ RevokeAuthorityGrant(actor, g)
  \/ \E p \in Staff : EstablishSession(p) \/ EndSession(p)

Spec == Init /\ [][Next]_authorityVars
-----------------------------------------------------------------------------
(* Properties. *)

\* Rows hold values of their columns, and every grant in force has an approver.
TypeOK ==
  /\ account \in [Staff -> {"absent", "active", "disabled"}]
  /\ epoch \in [Staff -> 1..MaxEpoch]
  /\ \A g \in GrantIds :
       /\ grants[g].state \in {"none", "checked", "PROPOSED", "APPROVED", "REVOKED"}
       /\ grants[g].state = "APPROVED" => grants[g].approver # "none"
  /\ \A p \in admin : account[p] = "active"

\* A session that is still accepted was opened with the powers its account has
\* now: whatever was granted, revoked, disabled or brought back in between
\* ended every session that knew other powers.
SessionsKnowPowers == \A p \in Staff : ValidSession(p) => sessions[p].powers = Powers(p)

\* Two other people stand behind every power: nobody approves a grant they
\* prepared or benefit from, or opens an account they asked for.
TwoPeople ==
  \A g \in GrantIds : grants[g].state = "APPROVED" /\ g \notin DOMAIN InitialGrants =>
    Cardinality({grants[g].preparer, grants[g].approver} \cup {grants[g].subject}) >= 2
      /\ grants[g].approver \notin {grants[g].preparer, grants[g].subject}

\* What disabling ended never returns: a grant that was revoked stays revoked,
\* and an account that comes back has none of those it had.
RevokedStaysRevoked ==
  /\ \A g \in GrantIds : grants[g].state = "REVOKED" => grants'[g] = grants[g]
  /\ \A p \in Staff : account[p] = "active" /\ account'[p] = "disabled" =>
       \A g \in GrantIds : grants'[g].state \in {"PROPOSED", "APPROVED"} => grants'[g].subject # p
=============================================================================
