-------------------------- MODULE CommandKernelProofs --------------------------
(***************************************************************************)
(* Theorems about the command kernel and the audit chains, for any number  *)
(* of principals, targets, keys and requests.                              *)
(*                                                                         *)
(* Everything rests on three locks held to the end of a transaction.  The  *)
(* fence of the actor makes its open transaction the only one, so that the *)
(* receipt it did not find is still missing when it commits; the lock of   *)
(* the row keeps the version it compared; the lock of the chain keeps the  *)
(* head it read.                                                           *)
(***************************************************************************)
EXTENDS CommandKernel, FiniteSetTheorems, FunctionTheorems, SequenceTheorems, TLAPS

-----------------------------------------------------------------------------
(* The inductive invariant. *)

\* An actor has one open transaction, and authority as long as it is open.
FenceHeld ==
  /\ \A x, y \in running : x.command.actor = y.command.actor => x = y
  /\ \A x \in running : x.command.actor \in authority

\* A transaction past lock_target is alone on its row, whose version is the
\* one it compared.
RowHeld ==
  \A x \in running : x.stage # "admitted" /\ x.command.target \in Aggregates =>
    /\ x.command.expected = Version(x.command.target)
    /\ \A y \in running :
         y.stage # "admitted" /\ y.command.target = x.command.target => x = y

\* An effect has its receipt, and no other effect has the same key.
EffectHasReceipt ==
  \A t \in Targets : \A i \in DOMAIN log[t] :
    /\ log[t][i].target = t
    /\ \E r \in receipts : SameScope(r, log[t][i])
    /\ \A j \in DOMAIN log[t] :
         log[t][j].actor = log[t][i].actor /\ log[t][j].key = log[t][i].key => j = i

\* Every answer is the result of an effect that is in the log.
AnswersTrue ==
  \A a \in answers :
    /\ a.target \in Targets
    /\ \E i \in Applied(a) :
         /\ log[a.target][i].body = a.body
         /\ a.version = IF a.target \in Aggregates THEN i + 1 ELSE 1

\* The chain of n rows.
Path(n) == {[hash |-> m, prior |-> m - 1] : m \in 1..n}

ChainsArePaths ==
  /\ DOMAIN rows = Aggregates \cup Principals
  /\ DOMAIN holder = Aggregates \cup Principals
  /\ \A c \in Aggregates \cup Principals : \E n \in Nat : rows[c] = Path(n)

\* Who read the head of a chain holds its lock, alone, and the head is the same.
ChainHeld ==
  /\ \A x \in running : x.stage = "audited" =>
       /\ x.command.target \in Aggregates
       /\ holder[Entity[x.command.target]] = x.command.actor
       /\ x.prior \in Nat
       /\ rows[Entity[x.command.target]] = Path(x.prior)
       /\ \A s \in searches : s.reader # Entity[x.command.target]
  /\ \A s \in searches :
       /\ s.reader \in Principals
       /\ holder[s.reader] = s.reader
       /\ s.prior \in Nat
       /\ rows[s.reader] = Path(s.prior)
       /\ \A z \in searches : z.reader = s.reader => z = s

Typed ==
  /\ authority \subseteq Principals
  /\ requests \subseteq Envelope
  /\ \A x \in running :
       x.stage \in {"admitted", "applied", "audited"} /\ x.command \in requests
  /\ log \in [Targets -> Seq(requests)]
  /\ receipts \subseteq answers
  /\ replies \in [Principals -> Nat]

IInv ==
  /\ Typed
  /\ FenceHeld
  /\ FenceSuffices
  /\ RowHeld
  /\ NoLostUpdate
  /\ EffectHasReceipt
  /\ AnswersTrue
  /\ ChainsArePaths
  /\ ChainHeld

-----------------------------------------------------------------------------
(* Chains. *)

\* A path of n rows has n rows, and its rows count up to their number.
LEMMA PathCardinality ==
  ASSUME NEW n \in Nat
  PROVE  IsFiniteSet(Path(n)) /\ Cardinality(Path(n)) = n
<1> DEFINE f == [m \in 1..n |-> [hash |-> m, prior |-> m - 1]]
<1>1. f \in Bijection(1..n, Path(n))
  <2>1. f \in [1..n -> Path(n)]
    BY DEF Path
  <2>2. \A a, b \in 1..n : f[a] = f[b] => a = b
    OBVIOUS
  <2>3. \A r \in Path(n) : \E m \in 1..n : f[m] = r
    BY DEF Path
  <2> HIDE DEF f
  <2>4. QED
    BY <2>1, <2>2, <2>3, Fun_IsBij
<1>2. IsFiniteSet(1..n) /\ Cardinality(1..n) = n
  BY FS_Interval
<1>3. ExistsBijection(1..n, Path(n))
  BY <1>1 DEF ExistsBijection
<1>4. QED
  BY <1>2, <1>3, FS_Bijection

\* The head of a path is its last row, and a row that names it extends the path.
LEMMA PathHead ==
  ASSUME NEW c \in Aggregates \cup Principals, NEW n \in Nat, rows[c] = Path(n)
  PROVE  Audit!ChainHead(c) = n
<1>1. CASE n = 0
  <2>1. Path(0) = {}
    BY DEF Path
  <2>2. QED
    BY <1>1, <2>1 DEF Audit!ChainHead, Audit!Root
<1>2. CASE n # 0
  <2>1. \A r \in rows[c] : r.hash \in 1..n /\ r.prior = r.hash - 1
    BY DEF Path
  <2>2. \A k \in 1..n : [hash |-> k, prior |-> k - 1] \in rows[c]
    BY DEF Path
  <2>3. Audit!Heads(c) = {n}
    <3>1. ASSUME NEW h \in {r.hash : r \in rows[c]}, h # n
          PROVE  h \in {r.prior : r \in rows[c]}
      <4>1. h \in 1..n /\ h + 1 \in 1..n
        BY <2>1, <3>1
      <4>2. [hash |-> h + 1, prior |-> h + 1 - 1] \in rows[c]
        BY <2>2, <4>1
      <4>3. QED
        BY <4>1, <4>2
    <3>2. n \in {r.hash : r \in rows[c]}
      <4>1. [hash |-> n, prior |-> n - 1] \in rows[c]
        BY <1>2, <2>2
      <4>2. QED
        BY <4>1
    <3>3. n \notin {r.prior : r \in rows[c]}
      BY <2>1
    <3>4. QED
      BY <3>1, <3>2, <3>3 DEF Audit!Heads
  <2>4. rows[c] # {}
    <3>1. n \in 1..n
      BY <1>2
    <3>2. QED
      BY <2>2, <3>1
  <2>5. QED
    BY <2>3, <2>4 DEF Audit!ChainHead
<1>3. QED
  BY <1>1, <1>2

LEMMA PathExtends ==
  ASSUME NEW n \in Nat
  PROVE  Path(n) \cup {[hash |-> Cardinality(Path(n)) + 1, prior |-> n]} = Path(n + 1)
<1>1. 1..(n + 1) = 1..n \cup {n + 1}
  OBVIOUS
<1>2. Path(n + 1) = Path(n) \cup {[hash |-> n + 1, prior |-> n + 1 - 1]}
  BY <1>1 DEF Path
<1>3. QED
  BY <1>2, PathCardinality

-----------------------------------------------------------------------------
(* The invariant holds initially and every step keeps it. *)

LEMMA InitInv == Init => IInv
<1> SUFFICES ASSUME Init PROVE IInv
  OBVIOUS
<1>1. Path(0) = {}
  BY DEF Path
<1>2. ChainsArePaths /\ ChainHeld
  BY <1>1 DEF Init, ChainsArePaths, ChainHeld, Audit!Init
<1>3. /\ \A t \in Targets : log[t] = <<>> /\ DOMAIN log[t] = {}
      /\ log \in [Targets -> Seq(requests)]
  BY DEF Init
<1>4. NoLostUpdate /\ EffectHasReceipt
  BY <1>3 DEF NoLostUpdate, EffectHasReceipt, Targets
<1>5. QED
  BY <1>2, <1>3, <1>4
  DEF Init, IInv, Typed, FenceHeld, FenceSuffices, RowHeld, AnswersTrue

\* What a client sends reads nothing.
LEMMA SendKeeps ==
  ASSUME IInv, NEW e \in Envelope, Send(e)
  PROVE  IInv'
<1>1. Typed'
  <2>1. log' \in [Targets -> Seq(requests')]
    BY DEF Send, IInv, Typed
  <2>2. QED
    BY <2>1 DEF Send, IInv, Typed
<1>2. QED
  BY <1>1 DEF Send, IInv, FenceHeld, FenceSuffices, Collides, Receipt, RowHeld, Version,
    NoLostUpdate, EffectHasReceipt, AnswersTrue, Applied, ChainsArePaths, ChainHeld

\* A command on an actor waits for the fence: nobody open loses its authority.
LEMMA ChangeAuthorityKeeps ==
  ASSUME IInv, NEW p \in Principals, ChangeAuthority(p)
  PROVE  IInv'
<1>1. FenceHeld'
  BY DEF ChangeAuthority, IInv, FenceHeld, FenceFree
<1>2. QED
  BY <1>1 DEF ChangeAuthority, IInv, Typed, FenceSuffices, Collides, Receipt, RowHeld,
    Version, NoLostUpdate, EffectHasReceipt, AnswersTrue, Applied, ChainsArePaths, ChainHeld

\* The answer of a receipt is the answer given before.
LEMMA ReplayKeeps ==
  ASSUME IInv, NEW e \in requests, Replay(e)
  PROVE  IInv'
<1>1. PICK r \in Receipt(e) : r.body = e.body /\ Answer(e, r.version)
  BY DEF Replay
<1>2. r \in receipts /\ r \in answers /\ SameScope(r, e)
  BY <1>1 DEF Receipt, IInv, Typed
<1> DEFINE a == [actor |-> e.actor, target |-> e.target, key |-> e.key, body |-> e.body,
                 version |-> r.version]
<1>3. answers' = answers \cup {a} /\ replies' = [replies EXCEPT ![e.actor] = @ + 1]
  BY <1>1 DEF Answer
<1>4. /\ a.target = r.target /\ Applied(a) = Applied(r)
      /\ a.body = r.body /\ a.version = r.version
  BY <1>1, <1>2 DEF Applied, SameScope
<1> HIDE DEF a
<1>5. AnswersTrue'
  BY <1>2, <1>3, <1>4 DEF IInv, AnswersTrue, Applied, Replay
<1>6. QED
  BY <1>3, <1>5 DEF Replay, IInv, Typed, FenceHeld, FenceSuffices, Collides, Receipt, RowHeld,
    Version, NoLostUpdate, EffectHasReceipt, ChainsArePaths, ChainHeld

\* The receipt is looked up under the fence, so the command starts alone and
\* without a receipt.
LEMMA AdmitKeeps ==
  ASSUME IInv, NEW e \in requests, Admit(e)
  PROVE  IInv'
<1> DEFINE x == [stage |-> "admitted", command |-> e]
<1>1. running' = running \cup {x} /\ x.stage = "admitted" /\ x.command = e
  BY DEF Admit
<1> HIDE DEF x
<1>2. FenceHeld'
  BY <1>1 DEF Admit, IInv, FenceHeld, FenceFree
<1>3. FenceSuffices'
  BY <1>1 DEF Admit, IInv, FenceSuffices, Collides, Receipt
<1>4. Typed' /\ RowHeld' /\ ChainHeld'
  BY <1>1 DEF Admit, IInv, Typed, RowHeld, ChainHeld, Version
<1>5. QED
  BY <1>2, <1>3, <1>4
  DEF Admit, IInv, NoLostUpdate, EffectHasReceipt, AnswersTrue, Applied, ChainsArePaths

\* The version is compared when the row is held, and by this command alone.
LEMMA ApplyKeeps ==
  ASSUME IInv, NEW x \in running, Apply(x)
  PROVE  IInv'
<1> DEFINE y == [stage |-> "applied", command |-> x.command]
<1>1. /\ running' = (running \ {x}) \cup {y} /\ x \in running /\ x.stage = "admitted"
      /\ y.stage = "applied" /\ y.command = x.command
  BY DEF Apply
<1> HIDE DEF y
<1>2. RowHeld'
  BY <1>1 DEF Apply, TargetFree, IInv, RowHeld, Version
<1>3. FenceHeld'
  BY <1>1 DEF Apply, IInv, FenceHeld
<1>4. Typed' /\ FenceSuffices' /\ ChainHeld'
  BY <1>1 DEF Apply, IInv, Typed, FenceSuffices, Collides, Receipt, ChainHeld
<1>5. QED
  BY <1>2, <1>3, <1>4
  DEF Apply, IInv, NoLostUpdate, EffectHasReceipt, AnswersTrue, Applied, ChainsArePaths

\* The head is read under the lock of the chain.
LEMMA PrepareAuditKeeps ==
  ASSUME IInv, KernelAssumption, HolderAssumption, NEW x \in running, PrepareAudit(x)
  PROVE  IInv'
<1> DEFINE c == Entity[x.command.target]
           y == [stage |-> "audited", command |-> x.command, prior |-> Audit!ChainHead(c)]
<1>1. /\ running' = (running \ {x}) \cup {y} /\ x \in running /\ x.stage = "applied"
      /\ y.stage = "audited" /\ y.command = x.command /\ y.prior = Audit!ChainHead(c)
      /\ x.command.target \in Aggregates
      /\ holder[c] = Audit!Nobody /\ holder' = [holder EXCEPT ![c] = x.command.actor]
      /\ UNCHANGED <<authority, requests, log, receipts, answers, replies, rows, searches>>
  BY DEF PrepareAudit, Audit!Take, Audit!LockFree
<1>2. c \in Aggregates /\ x.command.actor \in Principals
  BY <1>1 DEF KernelAssumption, IInv, Typed, Envelope
<1>3. y.prior \in Nat /\ rows[c] = Path(y.prior)
  BY <1>1, <1>2, PathHead DEF IInv, ChainsArePaths
<1>4. \A z \in running : z.stage = "audited" => Entity[z.command.target] # c
  BY <1>1 DEF IInv, ChainHeld, HolderAssumption, Typed, Envelope
<1>5. \A s \in searches : s.reader # c
  BY <1>1 DEF IInv, ChainHeld, HolderAssumption
<1> HIDE DEF y, c
<1>6. ChainHeld'
  <2>1. /\ holder'[c] = x.command.actor
        /\ \A d \in Aggregates \cup Principals : d # c => holder'[d] = holder[d]
    BY <1>1, <1>2 DEF IInv, ChainsArePaths
  <2>2. \A z \in running : z.stage = "audited" => Entity[z.command.target] \in Aggregates
    BY DEF KernelAssumption, IInv, ChainHeld
  <2>3. c = Entity[y.command.target]
    BY <1>1 DEF c
  <2>4. QED
    BY <1>1, <1>3, <1>4, <1>5, <2>1, <2>2, <2>3 DEF IInv, ChainHeld
<1>7. ChainsArePaths'
  BY <1>1, <1>2 DEF IInv, ChainsArePaths
<1>8. FenceHeld' /\ RowHeld'
  BY <1>1 DEF IInv, FenceHeld, RowHeld, Version
<1>9. Typed' /\ FenceSuffices'
  BY <1>1 DEF IInv, Typed, FenceSuffices, Collides, Receipt
<1>10. QED
  BY <1>1, <1>6, <1>7, <1>8, <1>9
  DEF IInv, NoLostUpdate, EffectHasReceipt, AnswersTrue, Applied

\* A transaction that rolls back gives up its locks and leaves no trace.
LEMMA AbortKeeps ==
  ASSUME IInv, KernelAssumption, NEW x \in running, Abort(x)
  PROVE  IInv'
<1>1. /\ running' = running \ {x}
      /\ UNCHANGED <<authority, requests, log, receipts, answers, replies, rows, searches>>
      /\ IF x.stage = "audited"
           THEN holder' = [holder EXCEPT ![Entity[x.command.target]] = Audit!Nobody]
           ELSE holder' = holder
  BY DEF Abort, Audit!Release
<1>2. ASSUME NEW c \in Aggregates \cup Principals,
             x.stage = "audited" => c # Entity[x.command.target]
      PROVE  holder'[c] = holder[c]
  BY <1>1, <1>2 DEF IInv, ChainsArePaths
<1>3. ChainHeld'
  <2>1. ASSUME NEW y \in running', y.stage = "audited"
        PROVE  holder'[Entity[y.command.target]] = y.command.actor
    BY <1>1, <1>2, <2>1 DEF IInv, ChainHeld, FenceHeld, KernelAssumption
  <2>2. ASSUME NEW s \in searches'
        PROVE  holder'[s.reader] = s.reader
    BY <1>1, <1>2, <2>2 DEF IInv, ChainHeld
  <2>3. QED
    BY <1>1, <2>1, <2>2 DEF IInv, ChainHeld
<1>4. ChainsArePaths'
  BY <1>1 DEF IInv, ChainsArePaths
<1>5. FenceHeld' /\ RowHeld' /\ Typed' /\ FenceSuffices'
  BY <1>1 DEF IInv, FenceHeld, RowHeld, Version, Typed, FenceSuffices, Collides, Receipt
<1>6. QED
  BY <1>1, <1>3, <1>4, <1>5 DEF IInv, NoLostUpdate, EffectHasReceipt, AnswersTrue, Applied

\* The chain module's own copy of the library operator.
LEMMA AuditCardinality ==
  ASSUME NEW S
  PROVE  Audit!Cardinality(S) = Cardinality(S)
BY DEF Audit!Cardinality, Cardinality, Audit!IsFiniteSet, IsFiniteSet

\* A new row of a chain is linked to the head its writer read under the lock.
LEMMA RecordAuditExtends ==
  ASSUME ChainsArePaths, NEW c \in Aggregates \cup Principals, NEW n \in Nat,
         rows[c] = Path(n), Audit!RecordAudit(c, n), Audit!Release(c)
  PROVE  /\ ChainsArePaths'
         /\ \A d \in Aggregates \cup Principals :
              d # c => rows'[d] = rows[d] /\ holder'[d] = holder[d]
<1>1. /\ rows' = [rows EXCEPT ![c] =
                     rows[c] \cup {[hash |-> Cardinality(rows[c]) + 1, prior |-> n]}]
      /\ holder' = [holder EXCEPT ![c] = Audit!Nobody]
  BY AuditCardinality DEF Audit!RecordAudit, Audit!Release
<1>2. rows'[c] = Path(n + 1)
  BY <1>1, PathExtends DEF ChainsArePaths
<1>3. \A d \in Aggregates \cup Principals :
        d # c => rows'[d] = rows[d] /\ holder'[d] = holder[d]
  BY <1>1 DEF ChainsArePaths
<1>4. DOMAIN rows' = DOMAIN rows /\ DOMAIN holder' = DOMAIN holder
  BY <1>1
<1>5. n + 1 \in Nat
  OBVIOUS
<1>6. QED
  BY <1>2, <1>3, <1>4, <1>5 DEF ChainsArePaths

\* The commit, while its three locks are still held.
LEMMA CommitKeeps ==
  ASSUME IInv, KernelAssumption, HolderAssumption, NEW x \in running, Commit(x)
  PROVE  IInv'
<1> DEFINE e == x.command
           t == e.target
           n == Len(log[t])
           result == [actor |-> e.actor, target |-> t, key |-> e.key, body |-> e.body,
                      version |-> IF t \in Aggregates THEN Version(t) + 1 ELSE 1]
<1>0. /\ log' = [log EXCEPT ![t] = Append(@, e)]
      /\ receipts' = receipts \cup {result} /\ answers' = answers \cup {result}
      /\ replies' = [replies EXCEPT ![e.actor] = @ + 1]
      /\ running' = running \ {x}
      /\ UNCHANGED <<authority, requests, searches>>
      /\ x.stage = IF t \in Aggregates THEN "audited" ELSE "applied"
      /\ \A q \in receipts : ~SameScope(q, e)
  BY DEF Commit, Answer, Ready, Collides, Receipt
<1>1. PICK r :
        /\ log' = [log EXCEPT ![t] = Append(@, e)]
        /\ receipts' = receipts \cup {r} /\ answers' = answers \cup {r}
        /\ replies' = [replies EXCEPT ![e.actor] = @ + 1]
        /\ running' = running \ {x}
        /\ UNCHANGED <<authority, requests, searches>>
        /\ x.stage = IF t \in Aggregates THEN "audited" ELSE "applied"
        /\ \A q \in receipts : ~SameScope(q, e)
        /\ r.actor = e.actor /\ r.target = t /\ r.key = e.key /\ r.body = e.body
        /\ r.version = IF t \in Aggregates THEN n + 1 + 1 ELSE 1
  <2>1. /\ result.actor = e.actor /\ result.target = t
        /\ result.key = e.key /\ result.body = e.body
        /\ result.version = IF t \in Aggregates THEN n + 1 + 1 ELSE 1
    BY DEF Version
  <2> HIDE DEF result
  <2>2. QED
    BY <1>0, <2>1
<1>2. /\ e \in requests /\ t \in Targets /\ log[t] \in Seq(requests) /\ n \in Nat
      /\ DOMAIN log[t] = 1..n
  BY DEF IInv, Typed, Envelope
<1>3. /\ log'[t] = Append(log[t], e) /\ log'[t] \in Seq(requests)
      /\ Len(log'[t]) = n + 1 /\ DOMAIN log'[t] = 1..(n + 1)
      /\ log'[t][n + 1] = e /\ \A i \in 1..n : log'[t][i] = log[t][i]
      /\ \A u \in Targets : u # t => log'[u] = log[u]
  BY <1>1, <1>2 DEF IInv, Typed
<1>4. t \in Aggregates => e.expected = n + 1
  BY <1>1, <1>2 DEF IInv, RowHeld, Version
<1> HIDE DEF e, n, result
<1>5. Typed'
  <2>1. log' \in [Targets -> Seq(requests')]
    BY <1>1, <1>3 DEF IInv, Typed
  <2>2. e.actor \in Principals
    BY <1>2 DEF IInv, Typed, Envelope
  <2>3. replies' \in [Principals -> Nat]
    BY <1>1, <2>2 DEF IInv, Typed
  <2>4. QED
    BY <1>1, <2>1, <2>3 DEF IInv, Typed
<1>6. FenceHeld'
  BY <1>1 DEF IInv, FenceHeld
<1>7. FenceSuffices'
  BY <1>1 DEF IInv, FenceSuffices, FenceHeld, Collides, Receipt, SameScope, e
<1>8. RowHeld'
  <2>1. ASSUME NEW y \in running', y.stage # "admitted", y.command.target \in Aggregates
        PROVE  y.command.target # t
    BY <1>1, <2>1 DEF IInv, RowHeld, e
  <2>2. QED
    BY <1>1, <1>3, <2>1 DEF IInv, RowHeld, Version, Targets
<1>9. NoLostUpdate'
  BY <1>1, <1>2, <1>3, <1>4 DEF IInv, NoLostUpdate, Targets
<1>10. EffectHasReceipt'
  <2>1. SameScope(r, e)
    BY <1>1 DEF SameScope
  <2>2. \A i \in 1..n : ~(log[t][i].actor = e.actor /\ log[t][i].key = e.key)
    BY <1>1, <1>2 DEF IInv, EffectHasReceipt, SameScope
  <2>3. \A i \in DOMAIN log'[t] :
          /\ log'[t][i].target = t
          /\ \E q \in receipts' : SameScope(q, log'[t][i])
    BY <1>1, <1>2, <1>3, <2>1 DEF IInv, EffectHasReceipt
  <2>4. \A i, j \in DOMAIN log'[t] :
          log'[t][j].actor = log'[t][i].actor /\ log'[t][j].key = log'[t][i].key => j = i
    BY <1>2, <1>3, <2>2, SMTT(30) DEF IInv, EffectHasReceipt
  <2>5. QED
    BY <1>1, <1>3, <2>3, <2>4 DEF IInv, EffectHasReceipt
<1>11. AnswersTrue'
  <2>1. n + 1 \in Applied(r)'
    BY <1>1, <1>2, <1>3 DEF Applied
  <2>2. ASSUME NEW a \in answers, NEW i \in Applied(a)
        PROVE  i \in DOMAIN log'[a.target] /\ log'[a.target][i] = log[a.target][i]
    <3>1. a.target \in Targets /\ i \in DOMAIN log[a.target]
      BY <2>2 DEF IInv, AnswersTrue, Applied
    <3>2. CASE a.target = t
      BY <1>2, <1>3, <3>1, <3>2
    <3>3. QED
      BY <1>3, <3>1, <3>2
  <2>3. \A a \in answers : Applied(a) \subseteq Applied(a)'
    BY <2>2 DEF Applied
  <2>4. r.target \in Targets /\ log'[r.target][n + 1].body = r.body
        /\ r.version = IF r.target \in Aggregates THEN n + 1 + 1 ELSE 1
    BY <1>1, <1>2, <1>3
  <2>5. ASSUME NEW a \in answers
        PROVE  /\ a.target \in Targets
               /\ \E i \in Applied(a)' :
                    /\ log'[a.target][i].body = a.body
                    /\ a.version = IF a.target \in Aggregates THEN i + 1 ELSE 1
    BY <2>2, <2>3 DEF IInv, AnswersTrue
  <2>6. QED
    BY <1>1, <2>1, <2>4, <2>5 DEF AnswersTrue
<1>12. ChainsArePaths' /\ ChainHeld'
  <2>1. CASE t \in Aggregates
    <3> DEFINE c == Entity[t]
    <3>1. /\ c \in Aggregates /\ x.prior \in Nat /\ rows[c] = Path(x.prior)
          /\ holder[c] = e.actor /\ \A s \in searches : s.reader # c
      BY <1>1, <2>1 DEF IInv, ChainHeld, KernelAssumption, e
    <3>2. Audit!RecordAudit(c, x.prior) /\ Audit!Release(c)
      BY <2>1 DEF Commit, e
    <3> HIDE DEF c
    <3>3. /\ ChainsArePaths'
          /\ \A d \in Aggregates \cup Principals :
               d # c => rows'[d] = rows[d] /\ holder'[d] = holder[d]
      BY <3>1, <3>2, RecordAuditExtends DEF IInv
    <3>4. ASSUME NEW y \in running', y.stage = "audited"
          PROVE  Entity[y.command.target] \in Aggregates \ {c}
      BY <1>1, <3>1, <3>4 DEF IInv, ChainHeld, FenceHeld, KernelAssumption, e
    <3>5. QED
      BY <1>1, <3>1, <3>3, <3>4 DEF IInv, ChainHeld
  <2>2. CASE t \notin Aggregates
    <3>1. UNCHANGED <<rows, holder>>
      BY <2>2 DEF Commit, e
    <3>2. QED
      BY <1>1, <3>1 DEF IInv, ChainsArePaths, ChainHeld
  <2>3. QED
    BY <2>1, <2>2
<1>13. QED
  BY <1>5, <1>6, <1>7, <1>8, <1>9, <1>10, <1>11, <1>12 DEF IInv

\* A search locks the chain of its reader only.
LEMMA BeginSearchKeeps ==
  ASSUME IInv, HolderAssumption, NEW p \in Principals, BeginSearch(p)
  PROVE  IInv'
<1> DEFINE s == [reader |-> p, prior |-> Audit!ChainHead(p), number |-> Cardinality(searches)]
<1>1. /\ searches' = searches \cup {s}
      /\ s.reader = p /\ s.prior = Audit!ChainHead(p)
      /\ holder[p] = Audit!Nobody /\ holder' = [holder EXCEPT ![p] = p]
      /\ UNCHANGED <<authority, requests, running, log, receipts, answers, replies, rows>>
  BY DEF BeginSearch, Audit!Take, Audit!LockFree
<1>2. s.prior \in Nat /\ rows[p] = Path(s.prior)
  BY <1>1, PathHead DEF IInv, ChainsArePaths
<1>3. /\ \A z \in searches : z.reader # p
      /\ \A x \in running : x.stage = "audited" => Entity[x.command.target] # p
  BY <1>1 DEF IInv, ChainHeld, HolderAssumption, Typed, Envelope
<1> HIDE DEF s
<1>4. ChainsArePaths' /\ ChainHeld'
  <2>1. holder'[p] = p /\ \A d \in Aggregates \cup Principals : d # p => holder'[d] = holder[d]
    BY <1>1 DEF IInv, ChainsArePaths
  <2>2. ChainsArePaths'
    BY <1>1 DEF IInv, ChainsArePaths
  <2>3. ASSUME NEW x \in running', x.stage = "audited"
        PROVE  holder'[Entity[x.command.target]] = x.command.actor
    <3>1. /\ holder[Entity[x.command.target]] = x.command.actor
          /\ Entity[x.command.target] # p
      BY <1>1, <1>3, <2>3 DEF IInv, ChainHeld
    <3>2. QED
      BY <1>1, <3>1
  <2>4. QED
    BY <1>1, <1>2, <1>3, <2>1, <2>2, <2>3 DEF IInv, ChainHeld
<1>5. QED
  BY <1>1, <1>4 DEF IInv, Typed, FenceHeld, FenceSuffices, Collides, Receipt, RowHeld, Version,
    NoLostUpdate, EffectHasReceipt, AnswersTrue, Applied

LEMMA EndSearchKeeps ==
  ASSUME IInv, KernelAssumption, NEW s \in searches, EndSearch(s)
  PROVE  IInv'
<1>1. /\ searches' = searches \ {s}
      /\ UNCHANGED <<authority, requests, running, log, receipts, answers, replies>>
      /\ Audit!RecordAudit(s.reader, s.prior) /\ Audit!Release(s.reader)
  BY DEF EndSearch
<1>2. s.reader \in Principals /\ s.prior \in Nat /\ rows[s.reader] = Path(s.prior)
  BY DEF IInv, ChainHeld
<1>3. /\ ChainsArePaths'
      /\ \A d \in Aggregates \cup Principals :
           d # s.reader => rows'[d] = rows[d] /\ holder'[d] = holder[d]
  BY <1>1, <1>2, RecordAuditExtends DEF IInv
<1>4. ChainHeld'
  <2>1. ASSUME NEW x \in running', x.stage = "audited"
        PROVE  Entity[x.command.target] \in Aggregates \ {s.reader}
    BY <1>1, <2>1 DEF IInv, ChainHeld, KernelAssumption
  <2>2. QED
    BY <1>1, <1>3, <2>1 DEF IInv, ChainHeld
<1>5. QED
  BY <1>1, <1>3, <1>4 DEF IInv, Typed, FenceHeld, FenceSuffices, Collides, Receipt, RowHeld,
    Version, NoLostUpdate, EffectHasReceipt, AnswersTrue, Applied

LEMMA StepKeeps ==
  ASSUME IInv, [Next]_vars
  PROVE  IInv'
<1> USE KernelAssumption, HolderAssumption
<1>1. ASSUME NEW e \in Envelope, Send(e) PROVE IInv'
  BY <1>1, SendKeeps
<1>2. ASSUME NEW p \in Principals, ChangeAuthority(p) PROVE IInv'
  BY <1>2, ChangeAuthorityKeeps
<1>3. ASSUME NEW e \in requests, Replay(e) \/ Admit(e) PROVE IInv'
  BY <1>3, ReplayKeeps, AdmitKeeps
<1>4. ASSUME NEW x \in running, Apply(x) \/ PrepareAudit(x) \/ Commit(x) \/ Abort(x)
      PROVE  IInv'
  BY <1>4, ApplyKeeps, PrepareAuditKeeps, CommitKeeps, AbortKeeps
<1>5. ASSUME NEW p \in Principals, BeginSearch(p) PROVE IInv'
  BY <1>5, BeginSearchKeeps
<1>6. ASSUME NEW s \in searches, EndSearch(s) PROVE IInv'
  BY <1>6, EndSearchKeeps
<1>7. CASE UNCHANGED vars
  BY <1>7 DEF vars, IInv, Typed, FenceHeld, FenceSuffices, Collides, Receipt, RowHeld, Version,
    NoLostUpdate, EffectHasReceipt, AnswersTrue, Applied, ChainsArePaths, ChainHeld
<1>8. QED
  BY <1>1, <1>2, <1>3, <1>4, <1>5, <1>6, <1>7 DEF Next

\* The locks, the receipts and the chains agree in every reachable state.
THEOREM Invariance == Spec => []IInv
<1>1. Init => IInv
  BY InitInv
<1>2. IInv /\ [Next]_vars => IInv'
  BY StepKeeps
<1>3. QED
  BY <1>1, <1>2, PTL DEF Spec

-----------------------------------------------------------------------------
(* What the invariant gives. *)

\* Rows, transactions and receipts hold values of their columns.
THEOREM TypeCorrect == Spec => []TypeOK
<1>1. IInv => TypeOK
  <2> SUFFICES ASSUME IInv PROVE TypeOK
    OBVIOUS
  <2>1. ASSUME NEW c \in Aggregates \cup Principals
        PROVE  rows[c] \subseteq [hash : 1..Cardinality(rows[c]), prior : Nat]
    <3>1. PICK n \in Nat : rows[c] = Path(n)
      BY DEF IInv, ChainsArePaths
    <3>2. Cardinality(rows[c]) = n
      BY <3>1, PathCardinality
    <3>3. QED
      BY <3>1, <3>2 DEF Path
  <2>2. Audit!TypeOK
    BY <2>1, AuditCardinality DEF IInv, ChainsArePaths, Audit!TypeOK
  <2>3. QED
    BY <2>2 DEF IInv, Typed, TypeOK
<1>2. QED
  BY <1>1, Invariance, PTL

\* However often a request is sent, its key takes effect once, and every answer
\* given for the key is the result of that effect.
THEOREM EffectOnce == Spec => []AppliedOnce
<1>1. IInv => AppliedOnce
  <2> SUFFICES ASSUME IInv PROVE AppliedOnce
    OBVIOUS
  <2>1. ASSUME NEW e \in requests
        PROVE  Cardinality(Applied(e)) <= 1
    <3>1. e.target \in Targets
      BY DEF IInv, Typed, Envelope
    <3>2. \A i, j \in Applied(e) : i = j
      BY <3>1 DEF IInv, EffectHasReceipt, Applied
    <3>3. CASE Applied(e) = {}
      BY <3>3, FS_EmptySet
    <3>4. CASE Applied(e) # {}
      <4>1. PICK i \in Applied(e) : Applied(e) = {i}
        BY <3>2, <3>4
      <4>2. Cardinality({i}) = 1
        BY FS_Singleton
      <4>3. QED
        BY <4>1, <4>2
    <3>5. QED
      BY <3>3, <3>4
  <2>2. QED
    BY <2>1 DEF IInv, AnswersTrue, AppliedOnce
<1>2. QED
  BY <1>1, Invariance, PTL

\* Each change of an aggregate was made by a client that had read the version
\* right before it.
THEOREM UpdatesAreSerial == Spec => []NoLostUpdate
<1>1. IInv => NoLostUpdate
  BY DEF IInv
<1>2. QED
  BY <1>1, Invariance, PTL

\* The branch of commands.py that is "only reachable if a concurrent writer
\* bypassed the principal fence" is not reachable.
THEOREM FenceIsEnough == Spec => []FenceSuffices
<1>1. IInv => FenceSuffices
  BY DEF IInv
<1>2. QED
  BY <1>1, Invariance, PTL

\* verify_chain accepts the chain of every entity and of every reader.
THEOREM ChainsNeverFork == Spec => []ChainVerifies
<1>1. IInv => ChainVerifies
  <2> SUFFICES ASSUME IInv, NEW c \in Aggregates \cup Principals
               PROVE  Audit!VerifyChain(c)
    BY DEF ChainVerifies
  <2>1. PICK n \in Nat : rows[c] = Path(n)
    BY DEF IInv, ChainsArePaths
  <2>2. Audit!Cardinality(rows[c]) = n
    BY <2>1, PathCardinality, AuditCardinality
  <2>3. \A m \in 0..(n - 1) : [hash |-> m + 1, prior |-> m] \in rows[c]
    BY <2>1 DEF Path
  <2>4. QED
    BY <2>2, <2>3 DEF Audit!VerifyChain
<1>2. QED
  BY <1>1, Invariance, PTL

\* A command commits, and a result is answered or answered again, only while the
\* actor has the authority, however long he waited for the target in between.
THEOREM AuthorityAtCommit == Spec => ActsWithAuthority
<1> DEFINE Applies == \A t \in Targets : log'[t] # log[t] => log'[t][Len(log'[t])].actor \in authority
           Replies == \A p \in Principals : replies'[p] # replies[p] => p \in authority
<1>1. ASSUME IInv, NEW x \in running, Commit(x)
      PROVE  Applies /\ Replies
  <2>1. /\ x.command.actor \in authority /\ x.command \in requests
        /\ log' = [log EXCEPT ![x.command.target] = Append(@, x.command)]
        /\ replies' = [replies EXCEPT ![x.command.actor] = @ + 1]
        /\ log \in [Targets -> Seq(requests)] /\ replies \in [Principals -> Nat]
    BY <1>1 DEF Commit, Answer, IInv, Typed, FenceHeld
  <2>2. ASSUME NEW t \in Targets, log'[t] # log[t]
        PROVE  log'[t][Len(log'[t])].actor \in authority
    <3>1. log[t] \in Seq(requests) /\ log'[t] = Append(log[t], x.command)
      BY <2>1, <2>2
    <3>2. log'[t][Len(log'[t])] = x.command
      BY <2>1, <3>1
    <3>3. QED
      BY <2>1, <3>2
  <2>3. ASSUME NEW p \in Principals, replies'[p] # replies[p]
        PROVE  p \in authority
    BY <2>1, <2>3
  <2>4. QED
    BY <2>2, <2>3
<1>2. ASSUME IInv, NEW e \in requests, Replay(e)
      PROVE  Applies /\ Replies
  <2>1. /\ e.actor \in authority /\ log' = log
        /\ replies' = [replies EXCEPT ![e.actor] = @ + 1]
        /\ replies \in [Principals -> Nat]
    BY <1>2 DEF Replay, Answer, IInv, Typed
  <2>2. QED
    BY <2>1
<1>3. ASSUME IInv, [Next]_vars
      PROVE  Applies /\ Replies
  <2>1. CASE \E x \in running : Commit(x)
    BY <1>1, <1>3, <2>1
  <2>2. CASE \E e \in requests : Replay(e)
    BY <1>2, <1>3, <2>2
  <2>3. CASE log' = log /\ replies' = replies
    BY <2>3
  <2>4. QED
    BY <1>3, <2>1, <2>2, <2>3 DEF Next, vars, Send, ChangeAuthority, Admit, Apply, PrepareAudit,
      Abort, BeginSearch, EndSearch
<1>4. IInv /\ [Next]_vars =>
        [/\ \A t \in Targets : log'[t] # log[t] => log'[t][Len(log'[t])].actor \in authority
         /\ \A p \in Principals : replies'[p] # replies[p] => p \in authority]_vars
  BY <1>3
<1>5. QED
  BY <1>4, Invariance, PTL DEF Spec, ActsWithAuthority
=============================================================================
