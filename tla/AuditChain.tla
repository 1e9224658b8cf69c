------------------------------ MODULE AuditChain ------------------------------
(***************************************************************************)
(* The audit rows of agni.platform.audit: one hash chain per entity, whose *)
(* links and not whose times define it.  An appender takes the chain's     *)
(* advisory lock, reads the head, and holds the lock until its transaction *)
(* ends; the row becomes visible when it commits.  Commands append to the  *)
(* chain of their target, and an audit search appends to its reader's own  *)
(* chain without holding any other lock.                                   *)
(***************************************************************************)
EXTENDS Naturals, FiniteSets

CONSTANT Chains

VARIABLES
  rows,     \* rows[c]: the committed rows of a chain, [hash, prior]
  holder    \* holder[c]: who holds the advisory lock of the chain

Root == 0        \* the prior_hash of the first row
Nobody == "nobody"

Init ==
  /\ rows = [c \in Chains |-> {}]
  /\ holder = [c \in Chains |-> Nobody]

Heads(c) == {r.hash : r \in rows[c]} \ {r.prior : r \in rows[c]}

\* The newest row nothing chains to; hashes count the rows in order of insertion.
ChainHead(c) ==
  IF rows[c] = {} THEN Root
  ELSE LET candidates == IF Heads(c) = {} THEN {r.hash : r \in rows[c]} ELSE Heads(c)
       IN CHOOSE h \in candidates : \A g \in candidates : g <= h

MutLockFree(c) == TRUE
LockFree(c) == holder[c] = Nobody

\* pg_advisory_xact_lock: until the transaction of `who` ends.
Take(c, who) == LockFree(c) /\ holder' = [holder EXCEPT ![c] = who]
Release(c) == holder' = [holder EXCEPT ![c] = Nobody]

RecordAudit(c, prior) ==
  rows' = [rows EXCEPT ![c] = @ \cup {[hash |-> Cardinality(@) + 1, prior |-> prior]}]

-----------------------------------------------------------------------------

TypeOK ==
  /\ DOMAIN rows = Chains
  /\ \A c \in Chains : rows[c] \subseteq [hash : 1..Cardinality(rows[c]), prior : Nat]
  /\ DOMAIN holder = Chains

\* verify_chain: the walk from the root along the links meets one successor at
\* a time and visits every row.
VerifyChain(c) ==
  \A n \in 0..(Cardinality(rows[c]) - 1) :
    \E r \in rows[c] : r.prior = n /\ r.hash = n + 1
=============================================================================
