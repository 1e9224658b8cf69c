----------------------------- MODULE CommandKernel -----------------------------
(***************************************************************************)
(* agni.platform.commands: every guarded command is one transaction that   *)
(* locks its actor's fence, checks authority, answers from the receipt of  *)
(* an earlier execution or else locks the target, compares versions,       *)
(* applies the change, appends the audit row and writes the receipt.       *)
(*                                                                         *)
(* Clients may send any envelope, again and at any time: `requests` keeps  *)
(* what was sent, so a request may be executed late, twice, or never.      *)
(* Authority is withdrawn and restored by commands of others on the actor, *)
(* which lock the actor's fence too (locks.py).                            *)
(***************************************************************************)
EXTENDS Naturals, Sequences, FiniteSets

CONSTANTS
  Principals,
  Aggregates,      \* targets that exist, with a version
  Collections,     \* targets of commands that create a row and lock none
  Entity,          \* the audited entity of an aggregate: a hold is audited on its case
  Keys, Bodies,    \* idempotency keys, and request digests
  MaxRequests, MaxVersion, MaxSearches,
  MaxReplies       \* bounds the results a principal is answered by a replay

KernelAssumption ==
  /\ Aggregates \cap Collections = {}
  /\ Entity \in [Aggregates -> Aggregates]
  /\ {MaxRequests, MaxVersion, MaxSearches, MaxReplies} \subseteq Nat
ASSUME KernelAssumption

Targets == Aggregates \cup Collections

VARIABLES
  authority,   \* the principals whose commands the handler authorises
  requests,    \* envelopes sent so far
  running,     \* the open transactions, each with the fence of its actor
  log,         \* log[t]: the commands applied to a target, in order of commit
  receipts,
  answers,     \* accepted results returned, whether or not they arrived
  replies,     \* how many results each principal was answered, repeated ones included
  rows, holder,   \* of AuditChain
  searches     \* audit searches under way: their reader, and the head they read

Audit == INSTANCE AuditChain WITH Chains <- Aggregates \cup Principals

\* Nobody is the absence of a lock holder.
HolderAssumption == Audit!Nobody \notin Principals
ASSUME HolderAssumption

vars == <<authority, requests, running, log, receipts, answers, replies, rows, holder, searches>>

Version(t) == Len(log[t]) + 1

Envelope ==
  [actor : Principals, target : Targets, key : Keys, body : Bodies, expected : 1..MaxVersion]

Init ==
  /\ authority = Principals
  /\ requests = {}
  /\ running = {}
  /\ log = [t \in Targets |-> <<>>]
  /\ receipts = {}
  /\ answers = {}
  /\ replies = [p \in Principals |-> 0]
  /\ Audit!Init
  /\ searches = {}

-----------------------------------------------------------------------------
(* Clients, and commands on the actor. *)

Send(e) ==
  /\ Cardinality(requests) < MaxRequests
  /\ requests' = requests \cup {e}
  /\ UNCHANGED <<authority, running, log, receipts, answers, replies, rows, holder, searches>>

MutFenceFree(p) == TRUE
FenceFree(p) == \A x \in running : x.command.actor # p

\* Disabling an account, approving or revoking a grant.
ChangeAuthority(p) ==
  /\ FenceFree(p)
  /\ authority' = IF p \in authority THEN authority \ {p} ELSE authority \cup {p}
  /\ UNCHANGED <<requests, running, log, receipts, answers, replies, rows, holder, searches>>

-----------------------------------------------------------------------------
(* One command. *)

\* The scope of a key: everything that identifies a receipt except the request.
MutSameScope(r, e) == <<r.actor, r.target, r.key, r.body>> = <<e.actor, e.target, e.key, e.body>>
SameScope(r, e) == <<r.actor, r.target, r.key>> = <<e.actor, e.target, e.key>>

Receipt(e) == {r \in receipts : SameScope(r, e)}

MutAnswer(e, version) ==
  /\ answers' = answers \cup
       {[actor |-> e.actor, target |-> e.target, key |-> e.key, body |-> e.body, version |-> version + 1]}
  /\ replies' = [replies EXCEPT ![e.actor] = @ + 1]
Answer(e, version) ==
  /\ answers' = answers \cup
       {[actor |-> e.actor, target |-> e.target, key |-> e.key, body |-> e.body, version |-> version]}
  /\ replies' = [replies EXCEPT ![e.actor] = @ + 1]

\* Looking for the receipt before the handler has authorised the actor.
MutReplay(e) ==
  /\ FenceFree(e.actor)
  /\ replies[e.actor] < MaxReplies
  /\ \E r \in Receipt(e) : r.body = e.body /\ Answer(e, r.version)
  /\ UNCHANGED <<authority, requests, running, log, receipts, rows, holder, searches>>

\* A receipt of the same request is answered again; one of another request is
\* an IDEMPOTENCY_CONFLICT, which like every refusal here changes nothing.
Replay(e) ==
  /\ FenceFree(e.actor)
  /\ e.actor \in authority
  /\ replies[e.actor] < MaxReplies
  /\ \E r \in Receipt(e) : r.body = e.body /\ Answer(e, r.version)
  /\ UNCHANGED <<authority, requests, running, log, receipts, rows, holder, searches>>

Admit(e) ==
  /\ FenceFree(e.actor)
  /\ e.actor \in authority
  /\ Receipt(e) = {}
  /\ running' = running \cup {[stage |-> "admitted", command |-> e]}
  /\ UNCHANGED <<authority, requests, log, receipts, answers, replies, rows, holder, searches>>

MutTargetFree(t) == TRUE
TargetFree(t) ==
  t \in Aggregates => \A x \in running : x.stage # "admitted" => x.command.target # t

\* lock_target waits for the row, the version is compared, and the handler writes.
Apply(x) ==
  LET e == x.command IN
  /\ x.stage = "admitted"
  /\ TargetFree(e.target)
  /\ Version(e.target) <= MaxVersion
  /\ e.target \in Aggregates => e.expected = Version(e.target)
  /\ running' = (running \ {x}) \cup {[stage |-> "applied", command |-> e]}
  /\ UNCHANGED <<authority, requests, log, receipts, answers, replies, rows, holder, searches>>

\* The audit row is prepared under the lock of its chain, which other targets
\* of the same entity append to.
PrepareAudit(x) ==
  LET entity == Entity[x.command.target] IN
  /\ x.stage = "applied" /\ x.command.target \in Aggregates
  /\ Audit!Take(entity, x.command.actor)
  /\ running' = (running \ {x}) \cup
       {[stage |-> "audited", command |-> x.command, prior |-> Audit!ChainHead(entity)]}
  /\ UNCHANGED <<authority, requests, log, receipts, answers, replies, rows, searches>>

\* VersionConflict, a guard of the handler, a deadlock or a crash: rolled back.
Abort(x) ==
  /\ running' = running \ {x}
  /\ IF x.stage = "audited" THEN Audit!Release(Entity[x.command.target]) ELSE UNCHANGED holder
  /\ UNCHANGED <<authority, requests, log, receipts, answers, replies, rows, searches>>

\* The receipt's unique constraint: CommandInProgress, and nothing is written.
Collides(x) == Receipt(x.command) # {}

Ready(x) == x.stage = IF x.command.target \in Aggregates THEN "audited" ELSE "applied"

\* A created row starts its own audit chain, which nobody else can know yet.
Commit(x) ==
  LET e == x.command
      version == IF e.target \in Aggregates THEN Version(e.target) + 1 ELSE 1
  IN
  /\ Ready(x) /\ ~Collides(x)
  /\ log' = [log EXCEPT ![e.target] = Append(@, e)]
  /\ receipts' = receipts \cup
       {[actor |-> e.actor, target |-> e.target, key |-> e.key, body |-> e.body, version |-> version]}
  /\ Answer(e, version)
  /\ IF e.target \in Aggregates
       THEN Audit!RecordAudit(Entity[e.target], x.prior) /\ Audit!Release(Entity[e.target])
       ELSE UNCHANGED <<rows, holder>>
  /\ running' = running \ {x}
  /\ UNCHANGED <<authority, requests, searches>>

-----------------------------------------------------------------------------
(* Audit searches: plain requests that append to their reader's chain. *)

BeginSearch(p) ==
  /\ Cardinality(searches) + Cardinality(rows[p]) < MaxSearches
  /\ Audit!Take(p, p)
  /\ searches' = searches \cup {[reader |-> p, prior |-> Audit!ChainHead(p),
                                 number |-> Cardinality(searches)]}
  /\ UNCHANGED <<authority, requests, running, log, receipts, answers, replies, rows>>

EndSearch(s) ==
  /\ Audit!RecordAudit(s.reader, s.prior)
  /\ Audit!Release(s.reader)
  /\ searches' = searches \ {s}
  /\ UNCHANGED <<authority, requests, running, log, receipts, answers, replies>>

-----------------------------------------------------------------------------
(* The specification. *)

Next ==
  \/ \E e \in Envelope : Send(e)
  \/ \E p \in Principals : ChangeAuthority(p)
  \/ \E e \in requests : Replay(e) \/ Admit(e)
  \/ \E x \in running : Apply(x) \/ PrepareAudit(x) \/ Commit(x) \/ Abort(x)
  \/ \E p \in Principals : BeginSearch(p)
  \/ \E s \in searches : EndSearch(s)

Spec == Init /\ [][Next]_vars
-----------------------------------------------------------------------------
(* Properties. *)

\* Every row and every transaction holds values of its columns, and what a
\* receipt keeps is what was answered.
TypeOK ==
  /\ authority \subseteq Principals
  /\ requests \subseteq Envelope
  /\ \A x \in running :
       x.stage \in {"admitted", "applied", "audited"} /\ x.command \in requests
  /\ log \in [Targets -> Seq(requests)]
  /\ receipts \subseteq answers
  /\ replies \in [Principals -> Nat]
  /\ Audit!TypeOK

Applied(r) == {i \in DOMAIN log[r.target] : log[r.target][i].actor = r.actor /\ log[r.target][i].key = r.key}

\* However often a request is sent, late, twice, with another body or after
\* others changed the target, a key of a principal takes effect at most once,
\* and every answer given for the key is the result of that one effect.
AppliedOnce ==
  /\ \A e \in requests : Cardinality(Applied(e)) <= 1
  /\ \A a \in answers : \E i \in Applied(a) :
       /\ log[a.target][i].body = a.body
       /\ a.version = IF a.target \in Aggregates THEN i + 1 ELSE 1

\* Each change of an aggregate was made by a client that had read the version
\* right before it: no update is lost between two principals.
NoLostUpdate ==
  \A t \in Aggregates : \A i \in DOMAIN log[t] : log[t][i].expected = i

\* "Only reachable if a concurrent writer bypassed the principal fence": a
\* command that is about to commit never meets the receipt of its own key.
FenceSuffices == \A x \in running : ~Collides(x)

\* A command commits only while its actor has the authority, however long the
\* transaction waited for the target in between; and nobody is answered a result
\* without it, not even one of his own that he was entitled to when it was first
\* given: the duplicate of a revoked actor is refused in front of its receipt.
ActsWithAuthority ==
  [][/\ \A t \in Targets : log'[t] # log[t] => log'[t][Len(log'[t])].actor \in authority
     /\ \A p \in Principals : replies'[p] # replies[p] => p \in authority]_vars

\* Commands on different rows of one entity, and searches that overlap, never
\* fork an audit chain: it stays a single path that verify_chain accepts.
ChainVerifies == \A c \in Aggregates \cup Principals : Audit!VerifyChain(c)
=============================================================================
