----------------------------- MODULE OfflineSync -----------------------------
(***************************************************************************)
(* Field work without a connection: an officer's device keeps a package, a *)
(* draft, a queue of operations and their receipts (web/src/offline), and  *)
(* a foreground synchronisation uploads the evidence, freezes the manifest *)
(* and posts it to the server (agni.offline), which records one outcome    *)
(* per operation identity. One inspection attempt, one officer, and one    *)
(* synchronisation at a time on the device.                                *)
(*                                                                         *)
(* The device may stop between any two of its writes, requests may stay    *)
(* under way after the device gave up on them, and answers may be lost.    *)
(***************************************************************************)
EXTENDS Naturals, FiniteSets

CONSTANTS
  Ops,           \* operation ids
  WithEvidence,  \* the operations that are reports with a file
  Contents,      \* what a report says
  MaxDocs,       \* bound on uploaded evidence files
  MaxRequests,   \* bound on the posts under way
  MaxVersion     \* bound on the versions of the attempt

OfflineAssumption ==
  /\ WithEvidence \subseteq Ops
  /\ {MaxDocs, MaxRequests} \subseteq Nat
  /\ MaxVersion \in Nat \ {0, 1}   \* closing the attempt takes a version
ASSUME OfflineAssumption

VARIABLES
  \* the device
  package,    \* {} or {version of the attempt when it was downloaded}
  expired,    \* the package is past its 24 hours
  draft,      \* {} or {content of the report draft of the attempt}
  queue,      \* queue[o]: the stored operation
  uploads,    \* uploads[o]: the document the evidence of o was uploaded as, or 0
  receipts,   \* operations with a stored server receipt
  session,    \* the synchronisation under way, volatile
  \* the server and the network
  attempt,    \* the inspection: its status, version, and whether it is assigned to the officer
  docs,       \* scan state of the uploaded files
  outcomes,   \* outcomes[o]: the SyncOperation row, if any
  accepted,   \* operations the kernel has a receipt for, and what they carried
  requests    \* posted manifests under way or answered

device == <<package, expired, draft, queue, uploads, receipts, session>>
server == <<attempt, docs, outcomes, accepted, requests>>
vars == <<device, server>>

None == 0
Open == {"SCHEDULED", "IN_PROGRESS"}
Terminal == {"ACCEPTED", "CONFLICT"}
Evidence == {"WAITING_FOR_UPLOAD", "WAITING_FOR_SCAN"}

Manifest ==
  [type : {"report", "visit"}, content : Contents \cup {None}, doc : 0..MaxDocs,
   base : 1..MaxVersion]

Operation ==
  [state : Terminal \cup Evidence \cup {"READY_TO_SUBMIT", "SUBMITTING"},
   manifest : SUBSET Manifest, tried : BOOLEAN]

Answers == {"accepted", "conflict", "error"}
Absent == [state |-> "absent"]
Purged == [state |-> "purged"]
Idle == [at |-> "idle"]

Init ==
  /\ package = {} /\ expired = FALSE /\ draft = {}
  /\ queue = [o \in Ops |-> Absent]
  /\ uploads = [o \in Ops |-> None]
  /\ receipts = {}
  /\ session = Idle
  /\ attempt = [status |-> "SCHEDULED", version |-> 1, mine |-> TRUE, held |-> FALSE]
  /\ docs = [d \in 1..MaxDocs |-> "absent"]
  /\ outcomes = [o \in Ops |-> Absent]
  /\ accepted = {}
  /\ requests = {}

-----------------------------------------------------------------------------
(* The officer, on the device. *)

Download ==
  /\ attempt.mine /\ attempt.status \in Open
  /\ package' = {attempt.version}
  /\ expired' = FALSE
  /\ UNCHANGED <<draft, queue, uploads, receipts, session, server>>

Expire ==
  /\ package # {} /\ ~expired
  /\ expired' = TRUE
  /\ UNCHANGED <<package, draft, queue, uploads, receipts, session, server>>

SaveLocalDraft(c) ==
  /\ package # {}
  /\ draft' = {c}
  /\ UNCHANGED <<package, expired, queue, uploads, receipts, session, server>>

Report(p, c, d) ==
  [type |-> "report", content |-> c, doc |-> d, base |-> p]

\* Without evidence the manifest is frozen at once; with evidence, when it is clean.
QueueReport(o, c) ==
  /\ queue[o] = Absent
  /\ \E p \in package :
       /\ queue' = [queue EXCEPT ![o] =
            [state |-> IF o \in WithEvidence THEN "WAITING_FOR_UPLOAD" ELSE "READY_TO_SUBMIT",
             manifest |-> IF o \in WithEvidence THEN {} ELSE {Report(p, c, None)},
             tried |-> FALSE]]
       /\ draft' = {c}
  /\ UNCHANGED <<package, expired, uploads, receipts, session, server>>

QueueFailedVisit(o) ==
  /\ queue[o] = Absent /\ o \notin WithEvidence
  /\ \E p \in package :
       queue' = [queue EXCEPT ![o] =
         [state |-> "READY_TO_SUBMIT",
          manifest |-> {[Report(p, None, None) EXCEPT !.type = "visit"]},
          tried |-> FALSE]]
  /\ UNCHANGED <<package, expired, draft, uploads, receipts, session, server>>

\* Another principal signs in on the device: everything of the previous one goes.
Purge ==
  /\ session = Idle
  /\ package' = {} /\ expired' = FALSE /\ draft' = {}
  /\ queue' = [o \in Ops |-> IF queue[o] = Absent THEN Absent ELSE Purged]
  /\ uploads' = [o \in Ops |-> None]
  /\ receipts' = {}
  /\ UNCHANGED <<session, server>>

-----------------------------------------------------------------------------
(* One synchronisation of one operation. `session.op` is the copy of the    *)
(* operation it works on; every write stores that copy with its changes.    *)

At(step) == session.at = step
Op == session.id
Copy == session.op

Store(changed) == queue' = [queue EXCEPT ![Op] = changed]

Finish == session' = Idle
Forgotten == {[r EXCEPT !.awaited = FALSE] : r \in {q \in requests : q.stage \notin Answers}}
Go(step, changed) == session' = [at |-> step, id |-> Op, op |-> changed, doc |-> session.doc]

StoreAndFinish(state) == Store([Copy EXCEPT !.state = state]) /\ Finish

BeginSync(o) ==
  /\ session = Idle
  /\ queue[o] \notin {Absent, Purged} /\ queue[o].state \notin Terminal
  /\ session' = [at |-> "check", id |-> o, op |-> queue[o], doc |-> None]
  /\ UNCHANGED <<package, expired, draft, queue, uploads, receipts, server>>

\* An assignment has version 1 until it is fulfilled, and the one that replaces it starts
\* at 1 again: the comparison sees a closed attempt, never a reassignment.
AssignmentStands == attempt.status \in Open

\* No package, or an assignment that changed, is a local conflict: nothing is posted.
CheckFacts ==
  /\ At("check")
  /\ \/ /\ package = {} \/ expired \/ ~AssignmentStands
        /\ StoreAndFinish("CONFLICT")
     \/ /\ package # {} /\ ~expired /\ AssignmentStands
        /\ Go(IF Copy.state \in Evidence THEN "upload" ELSE "freeze", Copy)
        /\ UNCHANGED queue
  /\ UNCHANGED <<package, expired, draft, uploads, receipts, server>>

\* The server stores the file; the device records under which identity next.
UploadBlob ==
  /\ At("upload") /\ uploads[Op] = None
  /\ attempt.mine /\ attempt.status \in Open
  /\ \E d \in 1..MaxDocs :
       /\ docs[d] = "absent"
       /\ \A e \in 1..d-1 : docs[e] # "absent"
       /\ docs' = [docs EXCEPT ![d] = "QUARANTINED"]
       /\ session' = [session EXCEPT !.at = "uploaded", !.doc = d]
  /\ UNCHANGED <<package, expired, draft, queue, uploads, receipts,
                 attempt, outcomes, accepted, requests>>

RecordUpload ==
  /\ At("uploaded")
  /\ uploads' = [uploads EXCEPT ![Op] = session.doc]
  /\ StoreAndFinish("WAITING_FOR_SCAN")
  /\ UNCHANGED <<package, expired, draft, receipts, server>>

\* A rejected file leaves the operation as it is until the officer replaces it.
FetchDocument ==
  /\ At("upload") /\ uploads[Op] # None
  /\ CASE docs[uploads[Op]] = "CLEAN" -> Go("freeze", Copy) /\ UNCHANGED queue
       [] docs[uploads[Op]] = "QUARANTINED" -> StoreAndFinish("WAITING_FOR_SCAN")
       [] OTHER -> Finish /\ UNCHANGED queue
  /\ UNCHANGED <<package, expired, draft, uploads, receipts, server>>

\* Frozen again from the draft at every attempt.
MutFreezeManifest ==
  /\ At("freeze")
  /\ \E p \in package, c \in draft :
       LET frozen == [Copy EXCEPT !.state = "READY_TO_SUBMIT",
                                  !.manifest = {Report(p, c, uploads[Op])}] IN
       Store(frozen) /\ Go(IF Copy.tried THEN "lookup" ELSE "post", frozen)
  /\ UNCHANGED <<package, expired, draft, uploads, receipts, server>>

\* Frozen once, from the draft and the package as they are now.
FreezeManifest ==
  /\ At("freeze")
  /\ IF Copy.manifest # {}
     THEN Go(IF Copy.tried THEN "lookup" ELSE "post", Copy) /\ UNCHANGED queue
     ELSE \E p \in package, c \in draft :
            LET frozen == [Copy EXCEPT !.state = "READY_TO_SUBMIT",
                                       !.manifest = {Report(p, c, uploads[Op])}] IN
            Store(frozen) /\ Go("post", frozen)
  /\ UNCHANGED <<package, expired, draft, uploads, receipts, server>>

MutFetchReceipt ==
  /\ At("lookup")
  /\ IF outcomes[Op].state # "absent"
     THEN receipts' = receipts \cup {Op} /\ Go("mark", Copy)
     ELSE UNCHANGED receipts /\ Go("post", Copy)
  /\ UNCHANGED <<package, expired, draft, queue, uploads, server>>

\* A lost answer first: an earlier attempt may already have been accepted.
FetchReceipt ==
  /\ At("lookup")
  /\ IF outcomes[Op].state = "ACCEPTED"
     THEN receipts' = receipts \cup {Op} /\ Go("mark", Copy)
     ELSE UNCHANGED receipts /\ Go("post", Copy)
  /\ UNCHANGED <<package, expired, draft, queue, uploads, server>>

Post ==
  /\ At("post") /\ package # {} /\ Cardinality(requests) < MaxRequests
  /\ \E m \in Copy.manifest, p \in package :
       requests' = requests \cup
         {[op |-> Op, manifest |-> m, header |-> p, stage |-> "sent", awaited |-> TRUE]}
  /\ LET submitting == [Copy EXCEPT !.state = "SUBMITTING", !.tried = TRUE] IN
       Store(submitting) /\ Go("await", submitting)
  /\ UNCHANGED <<package, expired, draft, uploads, receipts,
                 attempt, docs, outcomes, accepted>>

\* The receipt is stored before the operation is marked.
ReceiveAnswer ==
  /\ At("await")
  /\ \E r \in requests :
       /\ r.stage \in Answers
       /\ requests' = requests \ {r}
       /\ CASE r.stage = "accepted" ->
                 receipts' = receipts \cup {Op} /\ Go("mark", Copy) /\ UNCHANGED queue
            [] r.stage = "conflict" -> UNCHANGED receipts /\ StoreAndFinish("CONFLICT")
            [] OTHER -> UNCHANGED receipts /\ StoreAndFinish("READY_TO_SUBMIT")
  /\ UNCHANGED <<package, expired, draft, uploads,
                 attempt, docs, outcomes, accepted>>

MarkAccepted ==
  /\ At("mark")
  /\ StoreAndFinish("ACCEPTED")
  /\ UNCHANGED <<package, expired, draft, uploads, receipts, server>>

\* NetworkError or an expired session: the answer is lost, the request may still be under way.
AnswerLost ==
  /\ At("await")
  /\ requests' = Forgotten
  /\ StoreAndFinish("READY_TO_SUBMIT")
  /\ UNCHANGED <<package, expired, draft, uploads, receipts,
                 attempt, docs, outcomes, accepted>>

\* The page is closed, or a read fails before anything was posted.
Stop ==
  /\ session # Idle
  /\ requests' = Forgotten
  /\ Finish
  /\ UNCHANGED <<package, expired, draft, queue, uploads, receipts,
                 attempt, docs, outcomes, accepted>>

-----------------------------------------------------------------------------
(* The server: process_operation. *)

Moved(r, stage) == requests' = (requests \ {r}) \cup {[r EXCEPT !.stage = stage]}

\* Nobody hears the answer to a request the device gave up on.
Answered(r, stage) ==
  IF r.awaited THEN Moved(r, stage) ELSE requests' = requests \ {r}

\* The recorded outcome of the same content is answered again; other content, or
\* an If-Match that is not the manifest's base, is refused without a record.
LookUp(r) ==
  /\ r.stage = "sent"
  /\ CASE outcomes[r.op] # Absent ->
            Answered(r, IF outcomes[r.op].state = "ACCEPTED" /\ outcomes[r.op].manifest = r.manifest
                        THEN "accepted" ELSE "conflict")
       [] outcomes[r.op] = Absent /\ r.header # r.manifest.base -> Answered(r, "conflict")
       [] OTHER -> Moved(r, "new")
  /\ UNCHANGED <<device, attempt, docs, outcomes, accepted>>

\* What apply checks of the operation's manifest. That a report also names the
\* version of its application is left out: the server accepts more here.
Acceptable(m) ==
  /\ attempt.mine
  /\ m.base = attempt.version
  /\ IF m.type = "report" THEN attempt.status = "IN_PROGRESS" /\ ~attempt.held ELSE attempt.status \in Open
  /\ m.doc # None => docs[m.doc] = "CLEAN"

HasReceipt(o) == \E a \in accepted : a.op = o

Row(r, state) == [state |-> state, manifest |-> r.manifest]

Closed(m) ==
  [attempt EXCEPT !.status = IF m.type = "report" THEN "COMPLETED" ELSE "FAILED",
                  !.version = @ + 1, !.mine = FALSE]

\* The attempt is cancelled, not closed.
MutExecute(r) ==
  /\ r.stage = "new" /\ ~HasReceipt(r.op) /\ Acceptable(r.manifest)
  /\ outcomes[r.op] = Absent
  /\ attempt' = [Closed(r.manifest) EXCEPT !.status = "CANCELLED"]
  /\ accepted' = accepted \cup {[op |-> r.op, manifest |-> r.manifest]}
  /\ outcomes' = [outcomes EXCEPT ![r.op] = Row(r, "ACCEPTED")]
  /\ Answered(r, "accepted")
  /\ UNCHANGED <<device, docs>>

\* The row is written in a transaction of its own, and that write is lost.
MutExecuteApart(r) ==
  /\ r.stage = "new" /\ ~HasReceipt(r.op) /\ Acceptable(r.manifest)
  /\ attempt' = Closed(r.manifest)
  /\ accepted' = accepted \cup {[op |-> r.op, manifest |-> r.manifest]}
  /\ Answered(r, "accepted")
  /\ UNCHANGED <<device, docs, outcomes>>

\* The command, its receipt and the ACCEPTED row commit together.
Execute(r) ==
  /\ r.stage = "new"
  /\ ~HasReceipt(r.op)
  /\ Acceptable(r.manifest)
  /\ outcomes[r.op] = Absent
  /\ attempt' = Closed(r.manifest)
  /\ accepted' = accepted \cup {[op |-> r.op, manifest |-> r.manifest]}
  /\ outcomes' = [outcomes EXCEPT ![r.op] = Row(r, "ACCEPTED")]
  /\ Answered(r, "accepted")
  /\ UNCHANGED <<device, docs>>

\* A duplicate replays the kernel's receipt, and its row hits the unique constraint.
Duplicate(r) ==
  /\ r.stage = "new"
  /\ HasReceipt(r.op) \/ (Acceptable(r.manifest) /\ outcomes[r.op] # Absent)
  /\ Answered(r, "error")
  /\ UNCHANGED <<device, attempt, docs, outcomes, accepted>>

Refuse(r) ==
  /\ r.stage = "new"
  /\ ~HasReceipt(r.op) /\ ~Acceptable(r.manifest)
  /\ Moved(r, "refused")
  /\ UNCHANGED <<device, attempt, docs, outcomes, accepted>>

\* The CONFLICT row is written after the refused transaction.
RecordConflict(r) ==
  /\ r.stage = "refused"
  /\ IF outcomes[r.op] = Absent
     THEN /\ outcomes' = [outcomes EXCEPT ![r.op] = Row(r, "CONFLICT")]
          /\ Answered(r, "conflict")
     ELSE UNCHANGED outcomes /\ Answered(r, "error")
  /\ UNCHANGED <<device, attempt, docs, accepted>>

\* The request never arrives, or the server stops before it commits anything more.
Lose(r) ==
  /\ r.stage \notin Answers
  /\ requests' = requests \ {r}
  /\ UNCHANGED <<device, attempt, docs, outcomes, accepted>>

-----------------------------------------------------------------------------
(* The attempt meanwhile. *)

AttemptChanges(new) ==
  /\ attempt' = new
  /\ UNCHANGED <<device, docs, outcomes, accepted, requests>>

CheckIn ==
  /\ attempt.version < MaxVersion - 1
  /\ attempt.mine /\ attempt.status = "SCHEDULED"
  /\ AttemptChanges([attempt EXCEPT !.status = "IN_PROGRESS", !.version = @ + 1])

\* Reassigned away and, perhaps, back; only an attempt that has not started.
Reassign ==
  /\ attempt.version < MaxVersion - 1
  /\ attempt.status = "SCHEDULED"
  /\ AttemptChanges([attempt EXCEPT !.mine = ~@, !.version = @ + 1])

\* A hold matters to a report only, and a report to an attempt that was started.
ToggleHold == attempt.status = "IN_PROGRESS" /\ AttemptChanges([attempt EXCEPT !.held = ~@])

Scan(d, verdict) ==
  /\ docs[d] = "QUARANTINED"
  /\ docs' = [docs EXCEPT ![d] = verdict]
  /\ UNCHANGED <<device, attempt, outcomes, accepted, requests>>

Officer ==
  \/ Download \/ Expire \/ Purge
  \/ \E c \in Contents : SaveLocalDraft(c)
  \/ \E o \in Ops : QueueFailedVisit(o)
  \/ \E o \in Ops, c \in Contents : QueueReport(o, c)

Synchronise ==
  \/ CheckFacts \/ UploadBlob \/ RecordUpload \/ FetchDocument \/ FreezeManifest
  \/ FetchReceipt \/ Post \/ ReceiveAnswer \/ MarkAccepted

Faults == AnswerLost \/ Stop \/ \E r \in requests : Lose(r)

Process(r) == LookUp(r) \/ Execute(r) \/ Duplicate(r) \/ Refuse(r) \/ RecordConflict(r)

Next ==
  \/ Officer \/ Synchronise \/ Faults
  \/ \E o \in Ops : BeginSync(o)
  \/ \E r \in requests : Process(r)
  \/ CheckIn \/ Reassign \/ ToggleHold
  \/ \E d \in 1..MaxDocs, verdict \in {"CLEAN", "REJECTED"} : Scan(d, verdict)

Spec == Init /\ [][Next]_vars

-----------------------------------------------------------------------------
TypeOK ==
  /\ package \in SUBSET (1..MaxVersion) /\ Cardinality(package) <= 1
  /\ expired \in BOOLEAN /\ draft \subseteq Contents /\ Cardinality(draft) <= 1
  /\ queue \in [Ops -> Operation \cup {Absent, Purged}]
  /\ \A o \in Ops : queue[o] \in Operation => Cardinality(queue[o].manifest) <= 1
  /\ uploads \in [Ops -> 0..MaxDocs]
  /\ receipts \subseteq Ops
  /\ session # Idle => Op \in Ops /\ Copy \in Operation
  /\ attempt \in [status : Open \cup {"COMPLETED", "FAILED"}, version : 1..MaxVersion,
                  mine : BOOLEAN, held : BOOLEAN]
  /\ docs \in [1..MaxDocs -> {"absent", "QUARANTINED", "CLEAN", "REJECTED"}]
  /\ outcomes \in [Ops -> [state : Terminal, manifest : Manifest] \cup {Absent}]
  /\ accepted \subseteq [op : Ops, manifest : Manifest]

\* However often a manifest is posted, and whatever arrives late or twice, the attempt is
\* closed by one operation, once, and that operation's recorded outcome says so.
AcceptedOnce ==
  /\ Cardinality(accepted) <= 1
  /\ \A o \in Ops : outcomes[o].state = "ACCEPTED" <=> \E a \in accepted : a.op = o
  /\ accepted # {} <=> attempt.status \notin Open

\* "Submitted and received" is shown only for an operation whose receipt the device holds and
\* whose very manifest, as the device still keeps it, is what the server accepted.
ReceivedIsTrue ==
  /\ \A o \in receipts : \E a \in accepted : a.op = o /\ queue[o].manifest = {a.manifest}
  /\ \A o \in Ops : queue[o].state = "ACCEPTED" => o \in receipts

\* An operation id stands for one content: whatever is posted under it, at any time,
\* across stops of the page and later edits of the draft, is the same manifest.
OneContentPerId ==
  \A r \in requests :
    /\ \A q \in requests : q.op = r.op => q.manifest = r.manifest
    /\ outcomes[r.op] # Absent => outcomes[r.op].manifest = r.manifest
    /\ queue[r.op] # Purged => queue[r.op].manifest = {r.manifest}

\* sync.ts: a lost answer is found by its receipt, so a local conflict never stands for an
\* operation that the server accepted.
AcceptedNeverInConflict ==
  \A o \in Ops : queue[o].state = "CONFLICT" => outcomes[o].state # "ACCEPTED"
=============================================================================
