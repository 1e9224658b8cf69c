--------------------------- MODULE OfflineSyncProofs ---------------------------
(***************************************************************************)
(* Theorems about offline synchronisation, for any number of operations,   *)
(* contents, files and posts under way.                                    *)
(*                                                                         *)
(* The argument: a manifest is frozen once and every post, row and receipt *)
(* of its operation carries it; the session works on the operation as it   *)
(* is stored; and an answer is only ever read by the session that posted   *)
(* the request.                                                            *)
(***************************************************************************)
EXTENDS OfflineSync, FiniteSetTheorems, TLAPS

-----------------------------------------------------------------------------
(* The inductive invariant. *)

AtMostOne(S) == \A x, y \in S : x = y

Steps == {"check", "upload", "uploaded", "freeze", "lookup", "post", "await", "mark"}
Session == [at : Steps, id : Ops, op : Operation, doc : 0..MaxDocs]
Stages == {"sent", "new", "refused"} \cup Answers
Request ==
  [op : Ops, manifest : Manifest, header : 1..MaxVersion, stage : Stages, awaited : BOOLEAN]

Typed ==
  /\ package \subseteq 1..MaxVersion /\ AtMostOne(package)
  /\ expired \in BOOLEAN /\ draft \subseteq Contents /\ AtMostOne(draft)
  /\ queue \in [Ops -> Operation \cup {Absent, Purged}]
  /\ \A o \in Ops : queue[o] \in Operation => AtMostOne(queue[o].manifest)
  /\ uploads \in [Ops -> 0..MaxDocs]
  /\ receipts \subseteq Ops
  /\ session \in Session \cup {Idle}
  /\ attempt \in [status : Open \cup {"COMPLETED", "FAILED"}, version : 1..MaxVersion,
                  mine : BOOLEAN, held : BOOLEAN]
  /\ attempt.status \in Open => attempt.version < MaxVersion
  /\ docs \in [1..MaxDocs -> {"absent", "QUARANTINED", "CLEAN", "REJECTED"}]
  /\ outcomes \in [Ops -> [state : Terminal, manifest : Manifest] \cup {Absent}]
  /\ accepted \subseteq [op : Ops, manifest : Manifest]
  /\ requests \subseteq Request

\* The session works on the operation as it is stored.
CopyIsStored == session # Idle => queue[Op] = Copy

\* Whoever posted or recorded an operation found its manifest frozen.
Frozen(o, m) == queue[o] # Absent /\ (queue[o] # Purged => queue[o].manifest = {m})

FrozenOnce ==
  /\ \A r \in requests : Frozen(r.op, r.manifest)
  /\ \A o \in Ops : outcomes[o] # Absent => Frozen(o, outcomes[o].manifest)

\* Posts and rows of one operation carry one manifest, also when the device
\* has been purged of it.
SameContent ==
  \A r \in requests :
    /\ \A q \in requests : q.op = r.op => q.manifest = r.manifest
    /\ outcomes[r.op] # Absent => outcomes[r.op].manifest = r.manifest

\* The attempt is closed by the one accepted operation, and its row says which.
AcceptedClosed ==
  /\ AtMostOne(accepted)
  /\ \A a \in accepted : outcomes[a.op].state = "ACCEPTED" /\ outcomes[a.op].manifest = a.manifest
  /\ \A o \in Ops : outcomes[o].state = "ACCEPTED" => \E a \in accepted : a.op = o
  /\ accepted # {} <=> attempt.status \notin Open

\* An answer is on its way only to the session that waits for it, and an
\* "accepted" is true.
AnswersAwaited ==
  \A r \in requests :
    /\ r.awaited => /\ session # Idle /\ At("await") /\ r.op = Op
                    /\ \A q \in requests : q.awaited => q = r
    /\ r.stage \in Answers => r.awaited
    /\ r.stage = "accepted" => \E a \in accepted : a.op = r.op /\ a.manifest = r.manifest

\* A receipt is stored before its operation is marked.
ReceiptFirst == session # Idle /\ At("mark") => Op \in receipts

IInv ==
  /\ Typed
  /\ CopyIsStored
  /\ FrozenOnce
  /\ SameContent
  /\ AcceptedClosed
  /\ AnswersAwaited
  /\ ReceiptFirst
  /\ ReceivedIsTrue

-----------------------------------------------------------------------------
(* Initially, and on the device. *)

LEMMA Bounds ==
  /\ MaxDocs \in Nat /\ 0 \in 0..MaxDocs
  /\ MaxVersion \in Nat /\ 1 < MaxVersion /\ 1 \in 1..MaxVersion
<1>1. MaxDocs \in Nat /\ MaxVersion \in Nat \ {0, 1}
  BY OfflineAssumption DEF OfflineAssumption
<1>2. QED
  BY <1>1

\* An id without an operation, one whose operation was purged, and the others.
LEMMA Operations ==
  /\ Absent # Purged /\ Absent \notin Operation /\ Purged \notin Operation
  /\ Absent.state = "absent" /\ Purged.state = "purged"
  /\ \A op \in Operation : /\ op.state \notin {"absent", "purged"}
                           /\ op.manifest \subseteq Manifest /\ op.tried \in BOOLEAN
<1>1. Absent.state = "absent" /\ Purged.state = "purged"
  BY DEF Absent, Purged
<1>2. \A op \in Operation : /\ op.state \notin {"absent", "purged"}
                            /\ op.manifest \subseteq Manifest /\ op.tried \in BOOLEAN
  BY DEF Operation, Terminal, Evidence
<1>3. QED
  BY <1>1, <1>2

LEMMA InitInv == Init => IInv
<1> SUFFICES ASSUME Init PROVE IInv
  OBVIOUS
<1>1. Typed
  <2>1. attempt \in [status : Open \cup {"COMPLETED", "FAILED"}, version : 1..MaxVersion,
                     mine : BOOLEAN, held : BOOLEAN]
    BY Bounds DEF Init, Open
  <2>2. attempt.version < MaxVersion
    BY Bounds DEF Init
  <2>3. queue \in [Ops -> Operation \cup {Absent, Purged}] /\ uploads \in [Ops -> 0..MaxDocs]
    BY Bounds DEF Init, None
  <2>4. QED
    BY <2>1, <2>2, <2>3, Operations DEF Init, Typed, AtMostOne
<1>2. QED
  BY <1>1
  DEF Init, IInv, CopyIsStored, FrozenOnce, SameContent, AcceptedClosed, AtMostOne,
    AnswersAwaited, ReceiptFirst, ReceivedIsTrue, Open, Absent

\* What the officer does to the package and the draft touches no operation.
LEMMA OfficerKeeps ==
  ASSUME IInv, Download \/ Expire \/ \E c \in Contents : SaveLocalDraft(c)
  PROVE  IInv'
<1>1. UNCHANGED <<queue, uploads, receipts, session, server>>
  BY DEF Download, Expire, SaveLocalDraft
<1>2. Typed'
  BY <1>1 DEF Download, Expire, SaveLocalDraft, IInv, Typed, AtMostOne, server
<1>3. QED
  BY <1>1, <1>2
  DEF IInv, CopyIsStored, FrozenOnce, Frozen, SameContent, AcceptedClosed,
    AnswersAwaited, ReceiptFirst, ReceivedIsTrue, Op, Copy, At, server

\* A new operation takes an id that nothing was posted or recorded under.
LEMMA NewOperationKeeps ==
  ASSUME IInv, NEW o \in Ops, queue[o] = Absent,
         NEW n \in Operation, AtMostOne(n.manifest), n.state # "ACCEPTED",
         queue' = [queue EXCEPT ![o] = n],
         draft' \subseteq Contents, AtMostOne(draft'),
         UNCHANGED <<package, expired, uploads, receipts, session, server>>
  PROVE  IInv'
<1>1. /\ queue'[o] = n /\ \A q \in Ops : q # o => queue'[q] = queue[q]
      /\ queue' \in [Ops -> Operation \cup {Absent, Purged}]
  BY DEF IInv, Typed
<1>2. Typed'
  BY <1>1 DEF IInv, Typed, AtMostOne, server
<1>3. CopyIsStored'
  <2>1. session # Idle => Copy # Absent /\ Op \in Ops
    BY Operations DEF IInv, Typed, Session, Copy, Op
  <2>2. QED
    BY <1>1, <2>1 DEF IInv, CopyIsStored, Op, Copy
<1>4. FrozenOnce'
  BY <1>1 DEF IInv, FrozenOnce, Frozen, Typed, Request, server
<1>5. ReceivedIsTrue'
  <2>1. ASSUME o \in receipts PROVE FALSE
    <3>1. PICK a \in accepted : a.op = o
      BY <2>1 DEF IInv, ReceivedIsTrue
    <3>2. outcomes[o] # Absent
      BY <3>1, Operations DEF IInv, AcceptedClosed
    <3>3. QED
      BY <3>2 DEF IInv, FrozenOnce, Frozen
  <2>2. QED
    BY <1>1, <2>1 DEF IInv, ReceivedIsTrue, Typed, server
<1>6. QED
  BY <1>2, <1>3, <1>4, <1>5
  DEF IInv, SameContent, AcceptedClosed, AnswersAwaited, ReceiptFirst, Op, At, server

LEMMA QueueReportKeeps ==
  ASSUME IInv, NEW o \in Ops, NEW c \in Contents, QueueReport(o, c)
  PROVE  IInv'
<1> DEFINE n(p) == [state |-> IF o \in WithEvidence THEN "WAITING_FOR_UPLOAD" ELSE "READY_TO_SUBMIT",
                    manifest |-> IF o \in WithEvidence THEN {} ELSE {Report(p, c, None)},
                    tried |-> FALSE]
<1>1. PICK p \in package : queue' = [queue EXCEPT ![o] = n(p)] /\ draft' = {c}
  BY DEF QueueReport
<1>2. Report(p, c, None) \in Manifest
  <2>1. p \in 1..MaxVersion
    BY <1>1 DEF IInv, Typed
  <2>2. QED
    BY <2>1, Bounds DEF Report, Manifest, None
<1>3. n(p) \in Operation
  BY <1>2 DEF Operation, Evidence
<1>4. n(p).state # "ACCEPTED" /\ AtMostOne(n(p).manifest)
  BY DEF AtMostOne
<1>5. draft' \subseteq Contents /\ AtMostOne(draft')
  BY <1>1 DEF AtMostOne
<1> HIDE DEF n
<1>6. QED
  BY <1>1, <1>3, <1>4, <1>5, NewOperationKeeps DEF QueueReport

LEMMA QueueFailedVisitKeeps ==
  ASSUME IInv, NEW o \in Ops, QueueFailedVisit(o)
  PROVE  IInv'
<1> DEFINE m(p) == [Report(p, None, None) EXCEPT !.type = "visit"]
           n(p) == [state |-> "READY_TO_SUBMIT", manifest |-> {m(p)}, tried |-> FALSE]
<1>1. PICK p \in package : queue' = [queue EXCEPT ![o] = n(p)]
  BY DEF QueueFailedVisit
<1>2. m(p) \in Manifest
  <2>1. p \in 1..MaxVersion
    BY <1>1 DEF IInv, Typed
  <2>2. m(p) = [type |-> "visit", content |-> None, doc |-> None, base |-> p]
    BY DEF Report
  <2>3. QED
    BY <2>1, <2>2, Bounds DEF Manifest, None
<1> HIDE DEF m
<1>3. n(p) \in Operation
  BY <1>2 DEF Operation
<1>4. n(p).state # "ACCEPTED" /\ AtMostOne(n(p).manifest)
  BY DEF AtMostOne
<1>5. draft' \subseteq Contents /\ AtMostOne(draft')
  BY DEF QueueFailedVisit, IInv, Typed
<1> HIDE DEF n
<1>6. QED
  BY <1>1, <1>3, <1>4, <1>5, NewOperationKeeps DEF QueueFailedVisit

\* The purge happens between sessions, and nothing is queued under a purged id.
LEMMA PurgeKeeps ==
  ASSUME IInv, Purge
  PROVE  IInv'
<1>1. \A o \in Ops : queue'[o] = IF queue[o] = Absent THEN Absent ELSE Purged
  BY DEF Purge
<1>2. Absent # Purged /\ Purged \notin Operation /\ Absent \notin Operation
  BY Operations
<1>3. Typed'
  <2>1. queue' \in [Ops -> Operation \cup {Absent, Purged}] /\ uploads' \in [Ops -> 0..MaxDocs]
    BY Bounds DEF Purge, None
  <2>2. \A o \in Ops : queue'[o] \notin Operation
    BY <1>1, <1>2
  <2>3. QED
    BY <2>1, <2>2 DEF Purge, IInv, Typed, AtMostOne, server
<1>4. FrozenOnce'
  BY <1>1, <1>2 DEF Purge, IInv, FrozenOnce, Frozen, Typed, Request, server
<1>5. QED
  BY <1>1, <1>3, <1>4
  DEF Purge, IInv, CopyIsStored, SameContent, AcceptedClosed, AnswersAwaited, ReceiptFirst,
    ReceivedIsTrue, Absent, Purged, Op, At, server

-----------------------------------------------------------------------------
(* One synchronisation. *)

LEMMA SessionFacts ==
  ASSUME IInv, session # Idle
  PROVE  /\ session \in Session /\ Op \in Ops /\ Copy \in Operation /\ queue[Op] = Copy
         /\ AtMostOne(Copy.manifest) /\ session.doc \in 0..MaxDocs
<1>1. session \in Session /\ queue[Op] = Copy
  BY DEF IInv, Typed, CopyIsStored
<1>2. Op \in Ops /\ Copy \in Operation /\ session.doc \in 0..MaxDocs
  BY <1>1 DEF Session, Op, Copy
<1>3. QED
  BY <1>1, <1>2 DEF IInv, Typed

LEMMA AtActive ==
  ASSUME NEW step \in Steps, At(step)
  PROVE  session # Idle
BY DEF At, Idle, Steps

\* Only a session that waits has a request it waits for.
LEMMA NobodyWaits ==
  ASSUME IInv, session = Idle \/ session.at # "await"
  PROVE  \A r \in requests : ~r.awaited /\ r.stage \notin Answers
BY DEF IInv, AnswersAwaited, At

\* Storing an operation keeps what was frozen.
LEMMA StoreKeeps ==
  ASSUME IInv, session # Idle, NEW n \in Operation, AtMostOne(n.manifest),
         n.manifest = Copy.manifest \/ Copy.manifest = {},
         queue' = [queue EXCEPT ![Op] = n]
  PROVE  /\ queue' \in [Ops -> Operation \cup {Absent, Purged}]
         /\ queue'[Op] = n /\ \A o \in Ops : o # Op => queue'[o] = queue[o]
         /\ \A o \in Ops : queue'[o] \in Operation => AtMostOne(queue'[o].manifest)
         /\ \A o \in Ops : \A m : Frozen(o, m) => Frozen(o, m)'
         /\ \A o \in Ops : \A m : queue[o].manifest = {m} => queue'[o].manifest = {m}
<1>1. /\ queue' \in [Ops -> Operation \cup {Absent, Purged}]
      /\ queue'[Op] = n /\ \A o \in Ops : o # Op => queue'[o] = queue[o]
  BY SessionFacts DEF IInv, Typed
<1>2. queue[Op] = Copy /\ Copy \in Operation /\ Op \in Ops
  BY SessionFacts
<1>3. n # Absent /\ n # Purged /\ Copy # Absent /\ Copy # Purged
  BY <1>2, Operations
<1>4. \A m : {m} # {}
  OBVIOUS
<1>5. QED
  BY <1>1, <1>2, <1>3, <1>4 DEF IInv, Typed, Frozen

\* A step of the session that posts nothing: it stores n, ends or goes on with
\* n, stores a receipt only for an accepted operation, and waits for no request
\* any more.
LEMMA SessionStepKeeps ==
  ASSUME IInv, session # Idle,
         NEW n \in Operation, AtMostOne(n.manifest),
         n.manifest = Copy.manifest \/ Copy.manifest = {},
         n.state = "ACCEPTED" => Op \in receipts',
         queue' = [queue EXCEPT ![Op] = n],
         \/ session' = Idle
         \/ /\ session' \in Session /\ session'.id = Op /\ session'.op = n
            /\ session'.at # "await"
            /\ session'.at = "mark" => Op \in receipts',
         \/ receipts' = receipts
         \/ receipts' = receipts \cup {Op} /\ outcomes[Op].state = "ACCEPTED",
         uploads' \in [Ops -> 0..MaxDocs],
         docs' \in [1..MaxDocs -> {"absent", "QUARANTINED", "CLEAN", "REJECTED"}],
         UNCHANGED <<package, expired, draft, attempt, outcomes, accepted>>,
         \A r \in requests' :
           /\ r \in Request /\ ~r.awaited /\ r.stage \notin Answers
           /\ \E q \in requests : q.op = r.op /\ q.manifest = r.manifest
  PROVE  IInv'
<1>1. /\ queue' \in [Ops -> Operation \cup {Absent, Purged}]
      /\ queue'[Op] = n /\ \A o \in Ops : o # Op => queue'[o] = queue[o]
      /\ \A o \in Ops : queue'[o] \in Operation => AtMostOne(queue'[o].manifest)
      /\ \A o \in Ops : \A m : Frozen(o, m) => Frozen(o, m)'
      /\ \A o \in Ops : \A m : queue[o].manifest = {m} => queue'[o].manifest = {m}
  BY StoreKeeps
<1>2. Op \in Ops /\ Copy \in Operation /\ queue[Op] = Copy
  BY SessionFacts
<1>3. Typed'
  BY <1>1, <1>2 DEF IInv, Typed, AtMostOne
<1>4. CopyIsStored'
  BY <1>1 DEF CopyIsStored, Op, Copy
<1>5. FrozenOnce' /\ SameContent'
  <2>1. \A r \in requests' : r.op \in Ops /\ Frozen(r.op, r.manifest)
    BY DEF IInv, FrozenOnce, Typed, Request
  <2>2. SameContent'
    BY DEF IInv, SameContent
  <2>3. QED
    BY <1>1, <2>1, <2>2 DEF IInv, FrozenOnce
<1>6. AnswersAwaited'
  BY DEF AnswersAwaited, Answers
<1>7. ReceiptFirst'
  BY DEF ReceiptFirst, At, Op, Idle
<1>8. ReceivedIsTrue'
  <2>1. ASSUME NEW o \in receipts'
        PROVE  \E a \in accepted : a.op = o /\ queue'[o].manifest = {a.manifest}
    <3>1. CASE o \in receipts
      <4>1. PICK a \in accepted : a.op = o /\ queue[o].manifest = {a.manifest}
        BY <3>1 DEF IInv, ReceivedIsTrue
      <4>2. o \in Ops
        BY <3>1 DEF IInv, Typed
      <4>3. QED
        BY <1>1, <4>1, <4>2
    <3>2. CASE o = Op /\ outcomes[Op].state = "ACCEPTED"
      <4>1. PICK a \in accepted : a.op = Op
        BY <1>2, <3>2 DEF IInv, AcceptedClosed
      <4>2. outcomes[Op] # Absent /\ outcomes[Op].manifest = a.manifest
        BY <4>1, <3>2, Operations DEF IInv, AcceptedClosed
      <4>3. queue[Op].manifest = {a.manifest}
        BY <1>2, <4>2, Operations DEF IInv, FrozenOnce, Frozen
      <4>4. QED
        BY <1>1, <1>2, <3>2, <4>1, <4>3
    <3>3. QED
      BY <3>1, <3>2
  <2>2. \A o \in Ops : queue'[o].state = "ACCEPTED" => o \in receipts'
    BY <1>1 DEF IInv, ReceivedIsTrue
  <2>3. QED
    BY <2>1, <2>2 DEF ReceivedIsTrue
<1>9. QED
  BY <1>3, <1>4, <1>5, <1>6, <1>7, <1>8 DEF IInv, AcceptedClosed

\* Such a step before anything was posted, or after the answer was read.
LEMMA LocalStepKeeps ==
  ASSUME IInv, session # Idle, session.at # "await",
         NEW n \in Operation, AtMostOne(n.manifest),
         n.manifest = Copy.manifest \/ Copy.manifest = {},
         n.state = "ACCEPTED" => Op \in receipts',
         queue' = [queue EXCEPT ![Op] = n],
         \/ session' = Idle
         \/ /\ session' \in Session /\ session'.id = Op /\ session'.op = n
            /\ session'.at # "await"
            /\ session'.at = "mark" => Op \in receipts',
         \/ receipts' = receipts
         \/ receipts' = receipts \cup {Op} /\ outcomes[Op].state = "ACCEPTED",
         uploads' \in [Ops -> 0..MaxDocs],
         docs' \in [1..MaxDocs -> {"absent", "QUARANTINED", "CLEAN", "REJECTED"}],
         UNCHANGED <<package, expired, draft, attempt, outcomes, accepted, requests>>
  PROVE  IInv'
<1>1. \A r \in requests' : r \in Request /\ ~r.awaited /\ r.stage \notin Answers
  BY NobodyWaits DEF IInv, Typed
<1>2. \A r \in requests' : \E q \in requests : q.op = r.op /\ q.manifest = r.manifest
  OBVIOUS
<1>3. QED
  BY <1>1, <1>2, SessionStepKeeps

LEMMA BeginSyncKeeps ==
  ASSUME IInv, NEW o \in Ops, BeginSync(o)
  PROVE  IInv'
<1>1. /\ session = Idle /\ queue[o] \in Operation
      /\ session' = [at |-> "check", id |-> o, op |-> queue[o], doc |-> None]
      /\ UNCHANGED <<package, expired, draft, queue, uploads, receipts, server>>
  BY DEF BeginSync, IInv, Typed
<1>2. session' \in Session
  BY <1>1, Bounds DEF Session, Steps, None
<1>3. \A r \in requests : ~r.awaited /\ r.stage \notin Answers
  BY <1>1, NobodyWaits
<1>4. CopyIsStored' /\ ReceiptFirst'
  BY <1>1 DEF CopyIsStored, ReceiptFirst, Op, Copy, At
<1>5. AnswersAwaited'
  BY <1>1, <1>3 DEF AnswersAwaited, Answers, server
<1>6. Typed'
  BY <1>1, <1>2 DEF IInv, Typed, AtMostOne, server
<1>7. QED
  BY <1>1, <1>4, <1>5, <1>6
  DEF IInv, FrozenOnce, Frozen, SameContent, AcceptedClosed, ReceivedIsTrue, server

\* The two ways most steps of a session end: a last write, or the next step.
LEMMA StoreAndFinishKeeps ==
  ASSUME IInv, session # Idle, session.at # "await",
         NEW state \in Terminal \cup Evidence \cup {"READY_TO_SUBMIT", "SUBMITTING"},
         StoreAndFinish(state), state = "ACCEPTED" => Op \in receipts,
         uploads' \in [Ops -> 0..MaxDocs],
         UNCHANGED <<package, expired, draft, receipts, server>>
  PROVE  IInv'
<1> DEFINE n == [Copy EXCEPT !.state = state]
<1>1. Copy \in Operation /\ AtMostOne(Copy.manifest)
  BY SessionFacts
<1>2. n \in Operation /\ n.manifest = Copy.manifest /\ n.state = state
  BY <1>1 DEF Operation
<1>3. queue' = [queue EXCEPT ![Op] = n] /\ session' = Idle
  BY DEF StoreAndFinish, Store, Finish
<1> HIDE DEF n
<1>4. QED
  BY <1>1, <1>2, <1>3, LocalStepKeeps DEF server, IInv, Typed

LEMMA GoKeeps ==
  ASSUME IInv, session # Idle, session.at # "await",
         NEW step \in Steps \ {"await"}, Go(step, Copy), step = "mark" => Op \in receipts',
         \/ receipts' = receipts
         \/ receipts' = receipts \cup {Op} /\ outcomes[Op].state = "ACCEPTED",
         UNCHANGED <<package, expired, draft, queue, uploads, server>>
  PROVE  IInv'
<1>1. /\ session \in Session /\ Copy \in Operation /\ AtMostOne(Copy.manifest)
      /\ queue[Op] = Copy /\ Op \in Ops
  BY SessionFacts
<1>2. session' \in Session /\ session'.id = Op /\ session'.op = Copy /\ session'.at = step
  BY <1>1 DEF Go, Session, Op, Copy
<1>3. queue' = [queue EXCEPT ![Op] = Copy]
  BY <1>1 DEF IInv, Typed
<1>4. Copy.state = "ACCEPTED" => Op \in receipts'
  BY <1>1 DEF IInv, ReceivedIsTrue
<1>5. QED
  BY <1>1, <1>2, <1>3, <1>4, LocalStepKeeps DEF server, IInv, Typed

LEMMA CheckFactsKeeps ==
  ASSUME IInv, CheckFacts
  PROVE  IInv'
<1>1. session # Idle /\ session.at # "await"
  BY AtActive DEF CheckFacts, At, Steps
<1>2. UNCHANGED <<package, expired, draft, uploads, receipts, server>>
  BY DEF CheckFacts
<1>3. \/ StoreAndFinish("CONFLICT")
      \/ /\ Go(IF Copy.state \in Evidence THEN "upload" ELSE "freeze", Copy)
         /\ UNCHANGED queue
  BY DEF CheckFacts
<1>4. uploads' \in [Ops -> 0..MaxDocs]
  BY <1>2 DEF IInv, Typed
<1>5. QED
  BY <1>1, <1>2, <1>3, <1>4, StoreAndFinishKeeps, GoKeeps DEF Terminal, Steps

\* The file is at the server before the device knows under which identity.
LEMMA UploadBlobKeeps ==
  ASSUME IInv, UploadBlob
  PROVE  IInv'
<1>1. session # Idle /\ session.at # "await"
  BY AtActive DEF UploadBlob, At, Steps
<1>2. /\ session \in Session /\ Op \in Ops /\ Copy \in Operation /\ queue[Op] = Copy
      /\ AtMostOne(Copy.manifest)
  BY <1>1, SessionFacts
<1>3. PICK d \in 1..MaxDocs :
        /\ docs' = [docs EXCEPT ![d] = "QUARANTINED"]
        /\ session' = [session EXCEPT !.at = "uploaded", !.doc = d]
  BY DEF UploadBlob
<1>4. UNCHANGED <<package, expired, draft, queue, uploads, receipts,
                  attempt, outcomes, accepted, requests>>
  BY DEF UploadBlob
<1>5. /\ session' \in Session /\ session'.id = Op /\ session'.op = Copy
      /\ session'.at = "uploaded"
  <2>1. d \in 0..MaxDocs
    BY Bounds
  <2>2. QED
    BY <1>2, <1>3, <2>1 DEF Session, Steps, Op, Copy
<1>6. queue' = [queue EXCEPT ![Op] = Copy]
  BY <1>2, <1>4 DEF IInv, Typed
<1>7. docs' \in [1..MaxDocs -> {"absent", "QUARANTINED", "CLEAN", "REJECTED"}]
  BY <1>3 DEF IInv, Typed
<1>8. Copy.state = "ACCEPTED" => Op \in receipts
  BY <1>2 DEF IInv, ReceivedIsTrue
<1>9. QED
  BY <1>1, <1>2, <1>4, <1>5, <1>6, <1>7, <1>8, LocalStepKeeps DEF IInv, Typed

LEMMA RecordUploadKeeps ==
  ASSUME IInv, RecordUpload
  PROVE  IInv'
<1>1. session # Idle /\ session.at # "await"
  BY AtActive DEF RecordUpload, At, Steps
<1>2. uploads' \in [Ops -> 0..MaxDocs]
  BY <1>1, SessionFacts DEF RecordUpload, IInv, Typed
<1>3. QED
  BY <1>1, <1>2, StoreAndFinishKeeps DEF RecordUpload, Evidence

LEMMA FetchDocumentKeeps ==
  ASSUME IInv, FetchDocument
  PROVE  IInv'
<1>1. session # Idle /\ session.at # "await"
  BY AtActive DEF FetchDocument, At, Steps
<1>2. /\ UNCHANGED <<package, expired, draft, uploads, receipts, server>>
      /\ uploads' \in [Ops -> 0..MaxDocs]
  BY DEF FetchDocument, IInv, Typed
<1>3. \/ Go("freeze", Copy) /\ UNCHANGED queue
      \/ StoreAndFinish("WAITING_FOR_SCAN")
      \/ Finish /\ UNCHANGED queue
  BY DEF FetchDocument
<1>4. CASE Finish /\ UNCHANGED queue
  <2>1. /\ Op \in Ops /\ Copy \in Operation /\ queue[Op] = Copy /\ AtMostOne(Copy.manifest)
    BY <1>1, SessionFacts
  <2>2. queue' = [queue EXCEPT ![Op] = Copy]
    BY <1>4, <2>1 DEF IInv, Typed
  <2>3. Copy.state = "ACCEPTED" => Op \in receipts
    BY <2>1 DEF IInv, ReceivedIsTrue
  <2>4. QED
    BY <1>1, <1>2, <1>4, <2>1, <2>2, <2>3, LocalStepKeeps DEF Finish, server, IInv, Typed
<1>5. QED
  BY <1>1, <1>2, <1>3, <1>4, StoreAndFinishKeeps, GoKeeps DEF Evidence, Steps

\* A manifest that was frozen once is not frozen again.
LEMMA FreezeManifestKeeps ==
  ASSUME IInv, FreezeManifest
  PROVE  IInv'
<1>1. session # Idle /\ session.at # "await"
  BY AtActive DEF FreezeManifest, At, Steps
<1>2. UNCHANGED <<package, expired, draft, uploads, receipts, server>>
  BY DEF FreezeManifest
<1>3. CASE Copy.manifest # {}
  BY <1>1, <1>2, <1>3, GoKeeps DEF FreezeManifest, Steps
<1>4. CASE Copy.manifest = {}
  <2> DEFINE n(p, c) == [Copy EXCEPT !.state = "READY_TO_SUBMIT",
                                     !.manifest = {Report(p, c, uploads[Op])}]
  <2>1. PICK p \in package, c \in draft : Store(n(p, c)) /\ Go("post", n(p, c))
    BY <1>4 DEF FreezeManifest
  <2>2. session \in Session /\ Copy \in Operation /\ Op \in Ops
    BY <1>1, SessionFacts
  <2>3. Report(p, c, uploads[Op]) \in Manifest
    <3>1. p \in 1..MaxVersion /\ c \in Contents /\ uploads[Op] \in 0..MaxDocs
      BY <2>1, <2>2 DEF IInv, Typed
    <3>2. QED
      BY <3>1 DEF Report, Manifest
  <2>4. /\ n(p, c) \in Operation /\ n(p, c).state = "READY_TO_SUBMIT"
        /\ AtMostOne(n(p, c).manifest)
    BY <2>2, <2>3 DEF Operation, AtMostOne
  <2> HIDE DEF n
  <2>5. /\ queue' = [queue EXCEPT ![Op] = n(p, c)]
        /\ session' \in Session /\ session'.id = Op /\ session'.op = n(p, c)
        /\ session'.at = "post"
    BY <2>1, <2>2, <2>4 DEF Store, Go, Session, Steps, Op, Copy
  <2>6. QED
    BY <1>1, <1>2, <1>4, <2>4, <2>5, LocalStepKeeps DEF server, IInv, Typed
<1>5. QED
  BY <1>3, <1>4

LEMMA FetchReceiptKeeps ==
  ASSUME IInv, FetchReceipt
  PROVE  IInv'
<1>1. session # Idle /\ session.at # "await"
  BY AtActive DEF FetchReceipt, At, Steps
<1>2. QED
  BY <1>1, GoKeeps DEF FetchReceipt, Steps

LEMMA MarkAcceptedKeeps ==
  ASSUME IInv, MarkAccepted
  PROVE  IInv'
<1>1. session # Idle /\ session.at # "await" /\ Op \in receipts
  BY AtActive DEF MarkAccepted, At, Steps, IInv, ReceiptFirst
<1>2. uploads' \in [Ops -> 0..MaxDocs]
  BY DEF MarkAccepted, IInv, Typed
<1>3. QED
  BY <1>1, <1>2, StoreAndFinishKeeps DEF MarkAccepted, Terminal

\* A post carries the frozen manifest, and is the only one the session waits for.
LEMMA PostKeeps ==
  ASSUME IInv, Post
  PROVE  IInv'
<1> DEFINE n == [Copy EXCEPT !.state = "SUBMITTING", !.tried = TRUE]
<1>1. session # Idle /\ session.at # "await"
  BY AtActive DEF Post, At, Steps
<1>2. /\ session \in Session /\ Op \in Ops /\ Copy \in Operation /\ queue[Op] = Copy
      /\ AtMostOne(Copy.manifest)
  BY <1>1, SessionFacts
<1>3. PICK m \in Copy.manifest, p \in package :
        requests' = requests \cup
          {[op |-> Op, manifest |-> m, header |-> p, stage |-> "sent", awaited |-> TRUE]}
  BY DEF Post
<1>4. PICK r : /\ requests' = requests \cup {r} /\ r \in Request
               /\ r.op = Op /\ r.manifest = m /\ r.stage = "sent" /\ r.awaited
  <2> DEFINE q == [op |-> Op, manifest |-> m, header |-> p, stage |-> "sent", awaited |-> TRUE]
  <2>1. m \in Manifest /\ p \in 1..MaxVersion
    BY <1>2, Operations DEF IInv, Typed
  <2>2. q \in Request /\ q.op = Op /\ q.manifest = m /\ q.stage = "sent" /\ q.awaited
    BY <1>2, <2>1 DEF Request, Stages
  <2> HIDE DEF q
  <2>3. QED
    BY <1>3, <2>2 DEF q
<1>5. n \in Operation /\ n.manifest = Copy.manifest /\ n.state = "SUBMITTING"
  BY <1>2 DEF Operation
<1> HIDE DEF n
<1>6. /\ queue' = [queue EXCEPT ![Op] = n]
      /\ session' \in Session /\ session'.id = Op /\ session'.op = n
      /\ session'.at = "await" /\ session' # Idle
      /\ UNCHANGED <<package, expired, draft, uploads, receipts,
                     attempt, docs, outcomes, accepted>>
  <2>1. session' = [at |-> "await", id |-> Op, op |-> n, doc |-> session.doc]
    BY DEF Post, Go, n
  <2>2. queue' = [queue EXCEPT ![Op] = n]
    BY DEF Post, Store, n
  <2>3. QED
    BY <1>2, <1>5, <2>1, <2>2 DEF Post, Session, Steps, Idle
<1>7. /\ queue' \in [Ops -> Operation \cup {Absent, Purged}]
      /\ queue'[Op] = n /\ \A o \in Ops : o # Op => queue'[o] = queue[o]
      /\ \A o \in Ops : queue'[o] \in Operation => AtMostOne(queue'[o].manifest)
      /\ \A o \in Ops : \A k : Frozen(o, k) => Frozen(o, k)'
      /\ \A o \in Ops : \A k : queue[o].manifest = {k} => queue'[o].manifest = {k}
  BY <1>1, <1>2, <1>5, <1>6, StoreKeeps
<1>8. Copy.manifest = {m}
  BY <1>2, <1>3 DEF AtMostOne
<1>9. Typed'
  BY <1>4, <1>6, <1>7 DEF IInv, Typed, AtMostOne
<1>10. CopyIsStored'
  BY <1>6, <1>7 DEF CopyIsStored, Op, Copy
<1>11. FrozenOnce'
  <2>1. Frozen(Op, m)
    BY <1>2, <1>8, Operations DEF Frozen
  <2>2. QED
    BY <1>2, <1>4, <1>6, <1>7, <2>1 DEF IInv, FrozenOnce, Typed, Request
<1>12. SameContent'
  <2>1. \A q \in requests : q.op = Op => q.manifest = m
    BY <1>2, <1>8, Operations DEF IInv, FrozenOnce, Frozen
  <2>2. outcomes[Op] # Absent => outcomes[Op].manifest = m
    BY <1>2, <1>8, Operations DEF IInv, FrozenOnce, Frozen
  <2>3. QED
    BY <1>4, <1>6, <2>1, <2>2 DEF IInv, SameContent
<1>13. AnswersAwaited'
  <2>1. \A q \in requests : ~q.awaited /\ q.stage \notin Answers
    BY <1>1, NobodyWaits
  <2>2. QED
    BY <1>4, <1>6, <2>1 DEF AnswersAwaited, Answers, At, Op
<1>14. ReceivedIsTrue'
  <2>1. ASSUME NEW o \in receipts
        PROVE  \E a \in accepted : a.op = o /\ queue'[o].manifest = {a.manifest}
    <3>1. PICK a \in accepted : a.op = o /\ queue[o].manifest = {a.manifest}
      BY DEF IInv, ReceivedIsTrue
    <3>2. o \in Ops
      BY DEF IInv, Typed
    <3>3. QED
      BY <1>7, <3>1, <3>2
  <2>2. QED
    BY <1>5, <1>6, <1>7, <2>1 DEF IInv, ReceivedIsTrue
<1>15. QED
  BY <1>6, <1>9, <1>10, <1>11, <1>12, <1>13, <1>14 DEF IInv, AcceptedClosed, ReceiptFirst, At

\* The answer read is the one waited for, and no other request has one.
LEMMA ReceiveAnswerKeeps ==
  ASSUME IInv, ReceiveAnswer
  PROVE  IInv'
<1>1. session # Idle
  BY AtActive DEF ReceiveAnswer, Steps
<1>2. /\ session \in Session /\ Op \in Ops /\ Copy \in Operation /\ queue[Op] = Copy
      /\ AtMostOne(Copy.manifest)
  BY <1>1, SessionFacts
<1>3. PICK r \in requests :
        /\ r.stage \in Answers
        /\ requests' = requests \ {r}
        /\ CASE r.stage = "accepted" ->
                  receipts' = receipts \cup {Op} /\ Go("mark", Copy) /\ UNCHANGED queue
             [] r.stage = "conflict" -> UNCHANGED receipts /\ StoreAndFinish("CONFLICT")
             [] OTHER -> UNCHANGED receipts /\ StoreAndFinish("READY_TO_SUBMIT")
  BY DEF ReceiveAnswer
<1>4. r.awaited /\ r.op = Op
  BY <1>3 DEF IInv, AnswersAwaited
<1>5. \A q \in requests' :
        /\ q \in Request /\ ~q.awaited /\ q.stage \notin Answers
        /\ \E z \in requests : z.op = q.op /\ z.manifest = q.manifest
  BY <1>3, <1>4 DEF IInv, AnswersAwaited, Typed
<1>6. UNCHANGED <<package, expired, draft, uploads, attempt, docs, outcomes, accepted>>
  BY DEF ReceiveAnswer
<1>7. CASE r.stage = "accepted"
  <2>1. PICK a \in accepted : a.op = Op
    BY <1>3, <1>4, <1>7 DEF IInv, AnswersAwaited
  <2>2. outcomes[Op].state = "ACCEPTED"
    BY <2>1 DEF IInv, AcceptedClosed
  <2>3. /\ receipts' = receipts \cup {Op} /\ queue' = [queue EXCEPT ![Op] = Copy]
        /\ session' \in Session /\ session'.id = Op /\ session'.op = Copy
        /\ session'.at = "mark"
    BY <1>2, <1>3, <1>7 DEF Go, Session, Steps, Op, Copy, IInv, Typed
  <2>4. QED
    BY <1>1, <1>2, <1>5, <1>6, <2>2, <2>3, SessionStepKeeps DEF IInv, Typed
<1>8. CASE r.stage # "accepted"
  <2>1. PICK state \in {"CONFLICT", "READY_TO_SUBMIT"} :
          UNCHANGED receipts /\ StoreAndFinish(state)
    BY <1>3, <1>8
  <2> DEFINE n == [Copy EXCEPT !.state = state]
  <2>2. n \in Operation /\ n.manifest = Copy.manifest /\ n.state = state
    BY <1>2 DEF Operation, Terminal
  <2>3. queue' = [queue EXCEPT ![Op] = n] /\ session' = Idle
    BY <2>1 DEF StoreAndFinish, Store, Finish
  <2> HIDE DEF n
  <2>4. QED
    BY <1>1, <1>2, <1>5, <1>6, <2>1, <2>2, <2>3, SessionStepKeeps DEF IInv, Typed
<1>9. QED
  BY <1>7, <1>8

\* The requests that may still arrive after the device gave up on them.
LEMMA ForgottenFacts ==
  ASSUME IInv
  PROVE  \A r \in Forgotten :
           /\ r \in Request /\ ~r.awaited /\ r.stage \notin Answers
           /\ \E q \in requests : q.op = r.op /\ q.manifest = r.manifest
<1> SUFFICES ASSUME NEW r \in Forgotten
             PROVE  /\ r \in Request /\ ~r.awaited /\ r.stage \notin Answers
                    /\ \E q \in requests : q.op = r.op /\ q.manifest = r.manifest
  OBVIOUS
<1>1. PICK q \in requests : q.stage \notin Answers /\ r = [q EXCEPT !.awaited = FALSE]
  BY DEF Forgotten
<1>2. q \in Request
  BY DEF IInv, Typed
<1>3. /\ r \in Request /\ r.awaited = FALSE /\ r.stage = q.stage
      /\ r.op = q.op /\ r.manifest = q.manifest
  BY <1>1, <1>2 DEF Request
<1>4. QED
  BY <1>1, <1>3

LEMMA AnswerLostKeeps ==
  ASSUME IInv, AnswerLost
  PROVE  IInv'
<1>1. session # Idle
  BY AtActive DEF AnswerLost, Steps
<1>2. Copy \in Operation /\ AtMostOne(Copy.manifest)
  BY <1>1, SessionFacts
<1> DEFINE n == [Copy EXCEPT !.state = "READY_TO_SUBMIT"]
<1>3. n \in Operation /\ n.manifest = Copy.manifest /\ n.state = "READY_TO_SUBMIT"
  BY <1>2 DEF Operation
<1>4. queue' = [queue EXCEPT ![Op] = n] /\ session' = Idle
  BY DEF AnswerLost, StoreAndFinish, Store, Finish
<1> HIDE DEF n
<1>5. QED
  BY <1>1, <1>2, <1>3, <1>4, ForgottenFacts, SessionStepKeeps DEF AnswerLost, IInv, Typed

LEMMA StopKeeps ==
  ASSUME IInv, Stop
  PROVE  IInv'
<1>1. session # Idle /\ session' = Idle /\ requests' = Forgotten
  BY DEF Stop, Finish
<1>2. /\ Op \in Ops /\ Copy \in Operation /\ queue[Op] = Copy /\ AtMostOne(Copy.manifest)
  BY <1>1, SessionFacts
<1>3. queue' = [queue EXCEPT ![Op] = Copy]
  BY <1>2 DEF Stop, IInv, Typed
<1>4. Copy.state = "ACCEPTED" => Op \in receipts
  BY <1>2 DEF IInv, ReceivedIsTrue
<1>5. QED
  BY <1>1, <1>2, <1>3, <1>4, ForgottenFacts, SessionStepKeeps DEF Stop, IInv, Typed

-----------------------------------------------------------------------------
(* The server. *)

\* A request moves on under its identity, and only an awaited one is answered.
LEMMA RequestMoves ==
  ASSUME IInv, NEW r \in requests, NEW stage \in Stages,
         \/ Moved(r, stage) /\ stage \notin Answers
         \/ Answered(r, stage)
         \/ requests' = requests \ {r},
         UNCHANGED session, accepted \subseteq accepted',
         stage = "accepted" => \E a \in accepted' : a.op = r.op /\ a.manifest = r.manifest
  PROVE  /\ requests' \subseteq Request
         /\ \A q \in requests' : \E z \in requests : z.op = q.op /\ z.manifest = q.manifest
         /\ AnswersAwaited'
<1>1. r \in Request
  BY DEF IInv, Typed
<1>2. CASE requests' = requests \ {r}
  BY <1>2 DEF IInv, Typed, AnswersAwaited, At, Op
<1>3. CASE Moved(r, stage) /\ (r.awaited \/ stage \notin Answers)
  <2>1. PICK n : /\ requests' = (requests \ {r}) \cup {n}
                 /\ n \in Request /\ n.op = r.op /\ n.manifest = r.manifest
                 /\ n.awaited = r.awaited /\ n.stage = stage
    <3> DEFINE q == [r EXCEPT !.stage = stage]
    <3>1. /\ q \in Request /\ q.op = r.op /\ q.manifest = r.manifest
          /\ q.awaited = r.awaited /\ q.stage = stage
      BY <1>1 DEF Request
    <3>2. requests' = (requests \ {r}) \cup {q}
      BY <1>3 DEF Moved
    <3> HIDE DEF q
    <3>3. QED
      BY <3>1, <3>2
  <2>2. ASSUME NEW q \in requests'
        PROVE  /\ q.awaited => /\ session # Idle /\ At("await") /\ q.op = Op
                               /\ \A z \in requests' : z.awaited => z = q
               /\ q.stage \in Answers => q.awaited
    BY <1>3, <2>1 DEF IInv, AnswersAwaited
  <2>3. \A q \in requests' :
          q.stage = "accepted" => \E a \in accepted' : a.op = q.op /\ a.manifest = q.manifest
    BY <2>1 DEF IInv, AnswersAwaited
  <2>4. AnswersAwaited'
    BY <2>2, <2>3 DEF AnswersAwaited, At, Op
  <2>5. QED
    BY <2>1, <2>4 DEF IInv, Typed
<1>4. QED
  BY <1>2, <1>3 DEF Answered

\* A request that is answered, refused or lost without a row being written.
LEMMA RequestStepKeeps ==
  ASSUME IInv, NEW r \in requests, NEW stage \in Stages,
         \/ Moved(r, stage) /\ stage \notin Answers
         \/ Answered(r, stage)
         \/ requests' = requests \ {r},
         stage = "accepted" => \E a \in accepted : a.op = r.op /\ a.manifest = r.manifest,
         UNCHANGED <<device, attempt, docs, outcomes, accepted>>
  PROVE  IInv'
<1>1. /\ requests' \subseteq Request /\ AnswersAwaited'
      /\ \A q \in requests' : \E z \in requests : z.op = q.op /\ z.manifest = q.manifest
  BY RequestMoves DEF device
<1>2. UNCHANGED <<package, expired, draft, queue, uploads, receipts, session>>
  BY DEF device
<1>3. Typed'
  BY <1>1, <1>2 DEF IInv, Typed
<1>4. FrozenOnce'
  BY <1>1, <1>2 DEF IInv, FrozenOnce, Frozen
<1>5. SameContent'
  BY <1>1 DEF IInv, SameContent
<1>6. QED
  BY <1>1, <1>2, <1>3, <1>4, <1>5
  DEF IInv, CopyIsStored, AcceptedClosed, ReceiptFirst, ReceivedIsTrue, Op, Copy, At

LEMMA LookUpKeeps ==
  ASSUME IInv, NEW r \in requests, LookUp(r)
  PROVE  IInv'
<1>1. /\ r \in Request /\ {"accepted", "conflict", "new"} \subseteq Stages /\ "new" \notin Answers
      /\ "accepted" # "conflict" /\ "accepted" # "new"
  BY DEF IInv, Typed, Stages, Answers
<1>2. r.op \in Ops
  BY <1>1 DEF Request
<1>3. CASE outcomes[r.op].state = "ACCEPTED" /\ outcomes[r.op].manifest = r.manifest
           /\ Answered(r, "accepted")
  <2>1. \E a \in accepted : a.op = r.op /\ a.manifest = r.manifest
    BY <1>2, <1>3 DEF IInv, AcceptedClosed
  <2>2. QED
    BY <1>1, <1>3, <2>1, RequestStepKeeps DEF LookUp
<1>4. CASE Answered(r, "conflict") \/ Moved(r, "new")
  BY <1>1, <1>4, RequestStepKeeps DEF LookUp
<1>5. QED
  BY <1>3, <1>4 DEF LookUp

LEMMA DuplicateKeeps ==
  ASSUME IInv, NEW r \in requests, Duplicate(r) \/ Refuse(r) \/ Lose(r)
  PROVE  IInv'
<1>1. {"error", "refused"} \subseteq Stages /\ "refused" \notin Answers
  BY DEF Stages, Answers
<1>2. Answered(r, "error") \/ Moved(r, "refused") \/ requests' = requests \ {r}
  BY DEF Duplicate, Refuse, Lose
<1>3. UNCHANGED <<device, attempt, docs, outcomes, accepted>>
  BY DEF Duplicate, Refuse, Lose
<1>4. QED
  BY <1>1, <1>2, <1>3, RequestStepKeeps

\* A new row carries the manifest of its request.
LEMMA NewRowKeeps ==
  ASSUME IInv, NEW r \in requests, NEW state \in Terminal, NEW stage \in Stages,
         outcomes[r.op] = Absent,
         outcomes' = [outcomes EXCEPT ![r.op] = Row(r, state)],
         Answered(r, stage), UNCHANGED <<device, docs>>,
         accepted \subseteq accepted', accepted' \subseteq [op : Ops, manifest : Manifest],
         stage = "accepted" => \E a \in accepted' : a.op = r.op /\ a.manifest = r.manifest,
         AcceptedClosed',
         attempt' \in [status : Open \cup {"COMPLETED", "FAILED"}, version : 1..MaxVersion,
                       mine : BOOLEAN, held : BOOLEAN],
         attempt'.status \in Open => attempt'.version < MaxVersion
  PROVE  IInv'
<1>1. /\ requests' \subseteq Request /\ AnswersAwaited'
      /\ \A q \in requests' : \E z \in requests : z.op = q.op /\ z.manifest = q.manifest
  BY RequestMoves DEF device
<1>2. UNCHANGED <<package, expired, draft, queue, uploads, receipts, session>>
  BY DEF device
<1>3. r.op \in Ops /\ r.manifest \in Manifest
  BY DEF IInv, Typed, Request
<1>4. /\ outcomes' \in [Ops -> [state : Terminal, manifest : Manifest] \cup {Absent}]
      /\ outcomes'[r.op].manifest = r.manifest
      /\ \A o \in Ops : o # r.op => outcomes'[o] = outcomes[o]
  BY <1>3 DEF IInv, Typed, Row
<1>5. Typed'
  BY <1>1, <1>2, <1>4 DEF IInv, Typed
<1>6. FrozenOnce'
  <2>1. \A q \in requests' : Frozen(q.op, q.manifest)
    BY <1>1 DEF IInv, FrozenOnce
  <2>2. \A o \in Ops : outcomes'[o] # Absent => Frozen(o, outcomes'[o].manifest)
    BY <1>4 DEF IInv, FrozenOnce
  <2>3. QED
    BY <1>2, <2>1, <2>2 DEF FrozenOnce, Frozen
<1>7. SameContent'
  <2>1. \A q \in requests' : q.op = r.op => q.manifest = r.manifest
    BY <1>1 DEF IInv, SameContent
  <2>2. \A q \in requests' : q.op \in Ops
    BY <1>1 DEF Request
  <2>3. QED
    BY <1>1, <1>4, <2>1, <2>2 DEF IInv, SameContent
<1>8. ReceivedIsTrue'
  BY <1>2 DEF IInv, ReceivedIsTrue
<1>9. QED
  BY <1>1, <1>2, <1>5, <1>6, <1>7, <1>8
  DEF IInv, CopyIsStored, ReceiptFirst, Op, Copy, At

\* The attempt is open, so nothing was accepted before, and it closes.
LEMMA ExecuteKeeps ==
  ASSUME IInv, NEW r \in requests, Execute(r)
  PROVE  IInv'
<1> DEFINE x == [op |-> r.op, manifest |-> r.manifest]
<1>1. r.op \in Ops /\ r.manifest \in Manifest
  BY DEF IInv, Typed, Request
<1>2. attempt.status \in Open /\ accepted = {}
  BY DEF Execute, Acceptable, Open, IInv, AcceptedClosed
<1>3. accepted' = {x} /\ x.op = r.op /\ x.manifest = r.manifest
      /\ x \in [op : Ops, manifest : Manifest]
  BY <1>1, <1>2 DEF Execute
<1> HIDE DEF x
<1>4. /\ attempt' \in [status : Open \cup {"COMPLETED", "FAILED"}, version : 1..MaxVersion,
                        mine : BOOLEAN, held : BOOLEAN]
      /\ attempt'.status \notin Open
  <2>1. attempt.version + 1 \in 1..MaxVersion
    BY <1>2, Bounds DEF IInv, Typed
  <2>2. QED
    BY <2>1 DEF Execute, Closed, IInv, Typed, Open
<1>5. /\ outcomes[r.op] = Absent /\ outcomes' = [outcomes EXCEPT ![r.op] = Row(r, "ACCEPTED")]
      /\ Answered(r, "accepted") /\ UNCHANGED <<device, docs>>
  BY DEF Execute
<1>6. AcceptedClosed'
  <2>1. outcomes'[r.op].state = "ACCEPTED" /\ outcomes'[r.op].manifest = r.manifest
    BY <1>1, <1>5 DEF Row, IInv, Typed
  <2>2. \A o \in Ops : o # r.op => outcomes'[o].state # "ACCEPTED"
    BY <1>2, <1>5 DEF IInv, AcceptedClosed, Typed
  <2>3. QED
    BY <1>3, <1>4, <2>1, <2>2 DEF AcceptedClosed, AtMostOne
<1>7. QED
  BY <1>2, <1>3, <1>4, <1>5, <1>6, NewRowKeeps DEF Terminal, Stages, Answers

LEMMA RecordConflictKeeps ==
  ASSUME IInv, NEW r \in requests, RecordConflict(r)
  PROVE  IInv'
<1>1. {"conflict", "error"} \subseteq Stages /\ "accepted" \notin {"conflict", "error"}
  BY DEF Stages, Answers
<1>2. CASE outcomes[r.op] = Absent
  <2>1. /\ outcomes' = [outcomes EXCEPT ![r.op] = Row(r, "CONFLICT")]
        /\ Answered(r, "conflict") /\ UNCHANGED <<device, attempt, docs, accepted>>
    BY <1>2 DEF RecordConflict
  <2>2. AcceptedClosed'
    <3>1. \A a \in accepted : a.op # r.op
      BY <1>2, Operations DEF IInv, AcceptedClosed
    <3>2. \A o \in Ops : IF o = r.op THEN outcomes'[o].state = "CONFLICT"
                                      ELSE outcomes'[o] = outcomes[o]
      BY <2>1 DEF Row, IInv, Typed
    <3>3. \A a \in accepted : a.op \in Ops
      BY DEF IInv, Typed
    <3>4. QED
      BY <2>1, <3>1, <3>2, <3>3 DEF IInv, AcceptedClosed
  <2>3. QED
    BY <1>1, <1>2, <2>1, <2>2, NewRowKeeps DEF Terminal, IInv, Typed
<1>3. CASE outcomes[r.op] # Absent
  BY <1>1, <1>3, RequestStepKeeps DEF RecordConflict
<1>4. QED
  BY <1>2, <1>3

\* The attempt changes on the server, and never closes but by an operation.
LEMMA AttemptKeeps ==
  ASSUME IInv, CheckIn \/ Reassign \/ ToggleHold
  PROVE  IInv'
<1> DEFINE Attempts == [status : Open \cup {"COMPLETED", "FAILED"}, version : 1..MaxVersion,
                        mine : BOOLEAN, held : BOOLEAN]
<1>a. /\ attempt \in Attempts
      /\ attempt.version \in 1..MaxVersion /\ MaxVersion \in Nat
      /\ {attempt.mine, ~attempt.mine, attempt.held, ~attempt.held} \subseteq BOOLEAN
  BY Bounds DEF IInv, Typed
<1>b. ASSUME CheckIn
      PROVE  attempt'.status \in Open /\ attempt' \in Attempts /\ attempt'.version < MaxVersion
  <2>1. /\ attempt.version < MaxVersion - 1 /\ attempt.status = "SCHEDULED"
        /\ attempt' = [attempt EXCEPT !.status = "IN_PROGRESS", !.version = @ + 1]
    BY <1>b DEF CheckIn, AttemptChanges
  <2>2. attempt.version + 1 \in 1..MaxVersion /\ attempt.version + 1 < MaxVersion
    BY <1>a, <2>1
  <2>3. QED
    BY <1>a, <2>1, <2>2 DEF Open
<1>c. ASSUME Reassign
      PROVE  attempt'.status \in Open /\ attempt' \in Attempts /\ attempt'.version < MaxVersion
  <2>1. /\ attempt.version < MaxVersion - 1 /\ attempt.status = "SCHEDULED"
        /\ attempt' = [attempt EXCEPT !.mine = ~@, !.version = @ + 1]
    BY <1>c DEF Reassign, AttemptChanges
  <2>2. attempt.version + 1 \in 1..MaxVersion /\ attempt.version + 1 < MaxVersion
    BY <1>a, <2>1
  <2>3. PICK m \in BOOLEAN : m = ~attempt.mine
    OBVIOUS
  <2>4. attempt' = [attempt EXCEPT !.mine = m, !.version = attempt.version + 1]
    BY <2>1, <2>3
  <2>5. QED
    BY <1>a, <2>1, <2>2, <2>4 DEF Open
<1>d. ASSUME ToggleHold
      PROVE  attempt'.status \in Open /\ attempt' \in Attempts /\ attempt'.version < MaxVersion
  <2>1. attempt.status = "IN_PROGRESS" /\ attempt' = [attempt EXCEPT !.held = ~@]
    BY <1>d DEF ToggleHold, AttemptChanges
  <2>2. PICK h \in BOOLEAN : h = ~attempt.held
    OBVIOUS
  <2>3. attempt' = [attempt EXCEPT !.held = h]
    BY <2>1, <2>2
  <2>4. attempt.version < MaxVersion
    BY <2>1 DEF IInv, Typed, Open
  <2>5. QED
    BY <1>a, <2>1, <2>3, <2>4 DEF Open
<1>1. /\ UNCHANGED <<device, docs, outcomes, accepted, requests>>
      /\ attempt.status \in Open /\ attempt'.status \in Open
      /\ attempt' \in Attempts
      /\ attempt'.version < MaxVersion
  <2>1. UNCHANGED <<device, docs, outcomes, accepted, requests>>
    BY DEF CheckIn, Reassign, ToggleHold, AttemptChanges
  <2>2. attempt.status \in Open
    BY DEF CheckIn, Reassign, ToggleHold, Open
  <2>3. attempt'.status \in Open /\ attempt' \in Attempts /\ attempt'.version < MaxVersion
    BY <1>b, <1>c, <1>d
  <2>4. QED
    BY <2>1, <2>2, <2>3
<1>2. UNCHANGED <<package, expired, draft, queue, uploads, receipts, session>>
  BY <1>1 DEF device
<1>3. Typed'
  BY <1>1, <1>2 DEF IInv, Typed
<1>4. AcceptedClosed'
  BY <1>1 DEF IInv, AcceptedClosed
<1>5. QED
  BY <1>1, <1>2, <1>3, <1>4
  DEF IInv, CopyIsStored, FrozenOnce, Frozen, SameContent, AnswersAwaited, ReceiptFirst,
    ReceivedIsTrue, Op, Copy, At

LEMMA ScanKeeps ==
  ASSUME IInv, NEW d \in 1..MaxDocs, NEW verdict \in {"CLEAN", "REJECTED"}, Scan(d, verdict)
  PROVE  IInv'
<1>1. /\ UNCHANGED <<package, expired, draft, queue, uploads, receipts, session>>
      /\ UNCHANGED <<attempt, outcomes, accepted, requests>>
  BY DEF Scan, device
<1>2. Typed'
  BY <1>1 DEF Scan, IInv, Typed
<1>3. QED
  BY <1>1, <1>2
  DEF IInv, CopyIsStored, FrozenOnce, Frozen, SameContent, AcceptedClosed, AnswersAwaited,
    ReceiptFirst, ReceivedIsTrue, Op, Copy, At

-----------------------------------------------------------------------------
(* Every step keeps the invariant. *)

LEMMA StepKeeps == IInv /\ [Next]_vars => IInv'
<1> SUFFICES ASSUME IInv, [Next]_vars PROVE IInv'
  OBVIOUS
<1>1. CASE Officer
  BY <1>1, OfficerKeeps, PurgeKeeps, QueueFailedVisitKeeps, QueueReportKeeps DEF Officer
<1>2. CASE Synchronise
  BY <1>2, CheckFactsKeeps, UploadBlobKeeps, RecordUploadKeeps, FetchDocumentKeeps,
    FreezeManifestKeeps, FetchReceiptKeeps, PostKeeps, ReceiveAnswerKeeps, MarkAcceptedKeeps
  DEF Synchronise
<1>3. CASE Faults
  BY <1>3, AnswerLostKeeps, StopKeeps, DuplicateKeeps DEF Faults
<1>4. ASSUME NEW o \in Ops, BeginSync(o) PROVE IInv'
  BY <1>4, BeginSyncKeeps
<1>5. ASSUME NEW r \in requests, Process(r) PROVE IInv'
  BY <1>5, LookUpKeeps, ExecuteKeeps, DuplicateKeeps, RecordConflictKeeps DEF Process
<1>6. CASE CheckIn \/ Reassign \/ ToggleHold
  BY <1>6, AttemptKeeps
<1>7. ASSUME NEW d \in 1..MaxDocs, NEW verdict \in {"CLEAN", "REJECTED"}, Scan(d, verdict)
      PROVE  IInv'
  BY <1>7, ScanKeeps
<1>8. CASE UNCHANGED vars
  BY <1>8, SMTT(30)
  DEF vars, device, server, IInv, Typed, AtMostOne, CopyIsStored, FrozenOnce, Frozen, SameContent,
    AcceptedClosed, AnswersAwaited, ReceiptFirst, ReceivedIsTrue, Op, Copy, At
<1>9. QED
  BY <1>1, <1>2, <1>3, <1>4, <1>5, <1>6, <1>7, <1>8 DEF Next

\* Manifests stay frozen, answers reach the session that posted, and the attempt
\* has one accepted operation: the invariant the theorems below rest on.
THEOREM Invariance == Spec => []IInv
<1>1. Init => IInv
  BY InitInv
<1>2. IInv /\ [Next]_vars => IInv'
  BY StepKeeps
<1>3. QED
  BY <1>1, <1>2, PTL DEF Spec

-----------------------------------------------------------------------------
(* What the invariant gives. *)

LEMMA SmallSet ==
  ASSUME NEW S, AtMostOne(S)
  PROVE  Cardinality(S) <= 1
<1>1. CASE S = {}
  BY <1>1, FS_EmptySet
<1>2. CASE S # {}
  <2>1. PICK x \in S : S = {x}
    BY <1>2 DEF AtMostOne
  <2>2. Cardinality({x}) = 1
    BY FS_Singleton
  <2>3. QED
    BY <2>1, <2>2
<1>3. QED
  BY <1>1, <1>2

\* The stores of the device and the rows of the server hold values of their types.
THEOREM TypeCorrect == Spec => []TypeOK
<1>1. IInv => TypeOK
  <2> SUFFICES ASSUME IInv PROVE TypeOK
    OBVIOUS
  <2>1. Cardinality(package) <= 1 /\ Cardinality(draft) <= 1
    BY SmallSet DEF IInv, Typed
  <2>2. \A o \in Ops : queue[o] \in Operation => Cardinality(queue[o].manifest) <= 1
    BY SmallSet DEF IInv, Typed
  <2>3. session # Idle => Op \in Ops /\ Copy \in Operation
    BY DEF IInv, Typed, Session, Op, Copy
  <2>4. QED
    BY <2>1, <2>2, <2>3 DEF IInv, Typed, TypeOK
<1>2. QED
  BY <1>1, Invariance, PTL

\* However often a manifest is posted, and whatever answers are lost, one operation
\* closes the attempt, once, and its recorded outcome says so.
THEOREM ClosedOnce == Spec => []AcceptedOnce
<1>1. IInv => AcceptedOnce
  <2> SUFFICES ASSUME IInv PROVE AcceptedOnce
    OBVIOUS
  <2>1. Cardinality(accepted) <= 1
    BY SmallSet DEF IInv, AcceptedClosed
  <2>2. \A o \in Ops : outcomes[o].state = "ACCEPTED" <=> \E a \in accepted : a.op = o
    BY DEF IInv, AcceptedClosed
  <2>3. QED
    BY <2>1, <2>2 DEF IInv, AcceptedClosed, AcceptedOnce
<1>2. QED
  BY <1>1, Invariance, PTL

\* What the device shows as received is what the server accepted, to the manifest.
THEOREM ReceiptsTellTheTruth == Spec => []ReceivedIsTrue
<1>1. IInv => ReceivedIsTrue
  BY DEF IInv
<1>2. QED
  BY <1>1, Invariance, PTL

\* Everything posted under an operation id, and the row recorded for it, carry the
\* manifest the device froze.
THEOREM ManifestsStayFrozen == Spec => []OneContentPerId
<1>1. IInv => OneContentPerId
  BY DEF IInv, SameContent, FrozenOnce, Frozen, OneContentPerId
<1>2. QED
  BY <1>1, Invariance, PTL
=============================================================================
