------------------------------- MODULE Documents -------------------------------
(***************************************************************************)
(* agni.documents: an upload is reserved, its bytes are staged, completion *)
(* promotes them to the object named by their hash, and a job scans it.    *)
(*                                                                         *)
(* Bytes are identified with their hash: `objects[h]` is what the store    *)
(* holds at objects/<h>, which is right when it is h itself. All files     *)
(* have one size, so the size checks tell nothing apart. The transfer of   *)
(* bytes is no command and takes no lock; completion locks the reservation *)
(* but the store calls it makes are steps of their own.                    *)
(***************************************************************************)
EXTENDS Functions, Naturals, FiniteSets

CONSTANTS
  Uploads, Hashes,
  MaxFiles,        \* the quota of the package
  MaxPuts          \* bound: transfers

None == "none"

DocumentsAssumption == {MaxFiles, MaxPuts} \subseteq Nat /\ None \notin Hashes

VARIABLES
  reservations,  \* UploadReservation rows
  staged, objects,
  transfers,     \* PUT requests under way, at most one per reservation
  completions,   \* CompleteUpload transactions under way
  scanState,     \* DocumentVersion.scan_state of the version a reservation produced
  versionHash,   \* and its sha256
  scans,         \* verdicts of scan handlers that were not recorded yet
  accesses       \* versions access was granted to

documentVars == <<reservations, staged, objects, transfers, completions,
          scanState, versionHash, scans, accesses>>

Init ==
  /\ reservations = [u \in Uploads |-> [state |-> None, sha256 |-> None, expired |-> FALSE, puts |-> 0]]
  /\ staged = [u \in Uploads |-> None]
  /\ objects = [h \in Hashes |-> None]
  /\ transfers = {} /\ completions = {}
  /\ scanState = [u \in Uploads |-> None]
  /\ versionHash = [u \in Uploads |-> None]
  /\ scans = {}
  /\ accesses = {}

-----------------------------------------------------------------------------
(* Reservation. *)

\* The check of ReserveUpload reads rows it does not lock; the row is inserted
\* when its transaction commits. Whether the draft, visit, notice or ticket is
\* open for files is decided by other components: a refusal changes nothing.
WithinQuota ==
  LET versions == {u \in Uploads : scanState[u] \in {"QUARANTINED", "CLEAN"}}
      pending == {u \in Uploads :
                    reservations[u].state \in {"RESERVED", "UPLOADED"} /\ ~reservations[u].expired}
  IN Cardinality(versions) + Cardinality(pending) < MaxFiles

CheckReservation(u) ==
  /\ reservations[u].state = None
  /\ WithinQuota
  /\ reservations' = [reservations EXCEPT ![u].state = "checked"]
  /\ UNCHANGED <<staged, objects, transfers, completions, scanState, versionHash, scans, accesses>>

ReserveUpload(u) ==
  /\ reservations[u].state = "checked"
  /\ reservations' = [reservations EXCEPT ![u].state = "RESERVED"]
  /\ UNCHANGED <<staged, objects, transfers, completions, scanState, versionHash, scans, accesses>>

\* EXPIRED is assigned right before an error that rolls it back: time decides.
PassExpiry(u) ==
  /\ reservations[u].state \in {"RESERVED", "UPLOADED"}
  /\ reservations' = [reservations EXCEPT ![u].expired = TRUE]
  /\ UNCHANGED <<staged, objects, transfers, completions, scanState, versionHash, scans, accesses>>

-----------------------------------------------------------------------------
(* Transfer of the bytes: read the row, write the store, save the row. *)

Put(u, h) ==
  /\ reservations[u].state \in {"RESERVED", "UPLOADED"} /\ ~reservations[u].expired
  /\ \A t \in transfers : t.upload # u
  /\ SumFunction([x \in Uploads |-> reservations[x].puts]) < MaxPuts
  /\ reservations' = [reservations EXCEPT ![u].puts = @ + 1]
  /\ transfers' = transfers \cup {[upload |-> u, sha256 |-> h, stored |-> FALSE]}
  /\ UNCHANGED <<staged, objects, completions, scanState, versionHash, scans, accesses>>

PutStaging(t) ==
  /\ ~t.stored
  /\ staged' = [staged EXCEPT ![t.upload] = t.sha256]
  /\ transfers' = (transfers \ {t}) \cup {[t EXCEPT !.stored = TRUE]}
  /\ UNCHANGED <<reservations, objects, completions, scanState, versionHash, scans, accesses>>

\* The save waits for the row, but writes the state it had decided on before.
SaveUploaded(t) ==
  /\ t.stored
  /\ \A c \in completions : c.upload # t.upload
  /\ reservations' = [reservations EXCEPT ![t.upload].state = "UPLOADED", ![t.upload].sha256 = t.sha256]
  /\ transfers' = transfers \ {t}
  /\ UNCHANGED <<staged, objects, completions, scanState, versionHash, scans, accesses>>

AbandonPut(t) ==
  /\ transfers' = transfers \ {t}
  /\ UNCHANGED <<reservations, staged, objects, completions, scanState, versionHash, scans, accesses>>

-----------------------------------------------------------------------------
(* Completion. *)

\* Under the row lock: the hash the transfer saved, and whether the final
\* object exists already.
CompleteUpload(u) ==
  LET r == reservations[u] IN
  /\ \A c \in completions : c.upload # u
  /\ r.state = "UPLOADED" /\ ~r.expired
  /\ staged[u] # None
  /\ completions' = completions \cup
       {[upload |-> u, sha256 |-> r.sha256, promoted |-> objects[r.sha256] # None]}
  /\ UNCHANGED <<reservations, staged, objects, transfers, scanState, versionHash, scans, accesses>>

Promote(c) ==
  /\ ~c.promoted
  /\ staged[c.upload] # None
  /\ objects' = [objects EXCEPT ![c.sha256] = staged[c.upload]]
  /\ completions' = (completions \ {c}) \cup {[c EXCEPT !.promoted = TRUE]}
  /\ UNCHANGED <<reservations, staged, transfers, scanState, versionHash, scans, accesses>>

\* One version per reservation (a unique constraint); the staged bytes are
\* deleted after the commit, best effort.
CommitVersion(c) ==
  /\ c.promoted
  /\ scanState[c.upload] = None
  /\ scanState' = [scanState EXCEPT ![c.upload] = "QUARANTINED"]
  /\ versionHash' = [versionHash EXCEPT ![c.upload] = c.sha256]
  /\ reservations' = [reservations EXCEPT ![c.upload].state = "COMPLETED"]
  /\ staged' \in {staged, [staged EXCEPT ![c.upload] = None]}
  /\ completions' = completions \ {c}
  /\ UNCHANGED <<objects, transfers, scans, accesses>>

AbortCompletion(c) ==
  /\ completions' = completions \ {c}
  /\ UNCHANGED <<reservations, staged, objects, transfers, scanState, versionHash, scans, accesses>>

-----------------------------------------------------------------------------
(* Scanning, and access. *)

\* A handler whose lease ran out may still finish: two may hold a verdict.
ScanDocument(u) ==
  /\ scanState[u] = "QUARANTINED"
  /\ \E verdict \in IF objects[versionHash[u]] = versionHash[u] THEN {"CLEAN", "REJECTED"} ELSE {"REJECTED"} :
       scans' = scans \cup {[upload |-> u, verdict |-> verdict]}
  /\ UNCHANGED <<reservations, staged, objects, transfers, completions, scanState, versionHash, accesses>>

MutUnresolved(u) == TRUE
Unresolved(u) == scanState[u] = "QUARANTINED"

Record(s) ==
  /\ scanState' = IF Unresolved(s.upload) THEN [scanState EXCEPT ![s.upload] = s.verdict] ELSE scanState
  /\ scans' = scans \ {s}
  /\ UNCHANGED <<reservations, staged, objects, transfers, completions, versionHash, accesses>>

GrantDocumentAccess(u) ==
  /\ scanState[u] = "CLEAN"
  /\ accesses' = accesses \cup {u}
  /\ UNCHANGED <<reservations, staged, objects, transfers, completions, scanState, versionHash, scans>>

-----------------------------------------------------------------------------
(* The specification. *)

Next ==
  \/ \E u \in Uploads : CheckReservation(u) \/ ReserveUpload(u) \/ PassExpiry(u)
  \/ \E u \in Uploads, h \in Hashes : Put(u, h)
  \/ \E t \in transfers : PutStaging(t) \/ SaveUploaded(t) \/ AbandonPut(t)
  \/ \E u \in Uploads : CompleteUpload(u) \/ ScanDocument(u) \/ GrantDocumentAccess(u)
  \/ \E c \in completions : Promote(c) \/ CommitVersion(c) \/ AbortCompletion(c)
  \/ \E s \in scans : Record(s)

Spec == Init /\ [][Next]_documentVars
-----------------------------------------------------------------------------
(* Properties. *)

\* Rows hold values of their columns, and a version exists under one hash.
TypeOK ==
  /\ \A u \in Uploads :
       /\ reservations[u].state \in {None, "checked", "RESERVED", "UPLOADED", "COMPLETED"}
       /\ scanState[u] \in {None, "QUARANTINED", "CLEAN", "REJECTED"}
       /\ (scanState[u] = None) = (versionHash[u] = None)
  /\ \A h \in Hashes : objects[h] \in Hashes \cup {None}

\* A verdict is attached exactly once, whatever stale handlers return later,
\* and an access, once granted, is to a file that is still clean.
VerdictIsFinal ==
  /\ \A u \in Uploads : scanState[u] \in {"CLEAN", "REJECTED"} => scanState'[u] = scanState[u]
  /\ \A u \in accesses' : scanState'[u] = "CLEAN"
=============================================================================
