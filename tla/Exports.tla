--------------------------------- MODULE Exports ---------------------------------
(***************************************************************************)
(* agni.reporting: a reader requests an export, which freezes the cases it *)
(* covers; a job writes the file; access is checked against the scope the  *)
(* reader has by then.                                                     *)
(*                                                                         *)
(* The handler of a job reads, builds and stores with no lock, so it can   *)
(* outlive its lease; only its completion is fenced. Cell contents and the *)
(* definitions of the metrics are left out.                                *)
(***************************************************************************)
EXTENDS FiniteSets, Naturals

CONSTANTS
  ExportIds, Cases,
  MaxHandlers  \* bound: handlers of one job at a time

ExportsAssumption == MaxHandlers \in Nat

Kinds == {"CASES", "REPORT", "AUDIT"} \* CERTIFICATES is as CASES
Unwritten == [rows |-> {}, written |-> FALSE]

VARIABLES
  scope,      \* the cases the reader can see now
  permitted,  \* whether the reader's roles and grants allow exports
  exports,    \* ExportJob rows
  handlers,   \* generate_export calls under way
  jobOpen,    \* exports whose job is not finished
  exportTickets \* access tickets that were handed out and are still valid

exportVars == <<scope, permitted, exports, handlers, jobOpen, exportTickets>>

Init ==
  /\ scope \in SUBSET Cases
  /\ permitted = TRUE
  /\ exports = [e \in ExportIds |-> [state |-> "none", kind |-> "CASES", frozen |-> {}, late |-> FALSE, file |-> Unwritten]]
  /\ handlers = {} /\ jobOpen = {} /\ exportTickets = {}

\* Bindings, grants and the queues of cases change elsewhere.
ChangeScope(s, p) ==
  /\ <<s, p>> # <<scope, permitted>>
  /\ scope' = s /\ permitted' = p
  /\ UNCHANGED <<exports, handlers, jobOpen, exportTickets>>

PassExpiry(e) ==
  /\ exports[e].state # "none" /\ ~exports[e].late
  /\ exports' = [exports EXCEPT ![e].late = TRUE]
  /\ UNCHANGED <<scope, permitted, handlers, jobOpen, exportTickets>>

-----------------------------------------------------------------------------
(* Request and generation. *)

CreateExport(e, kind) ==
  /\ exports[e].state = "none" /\ permitted
  /\ exports' = [exports EXCEPT ![e].state = "READY", ![e].kind = kind,
                                ![e].frozen = IF kind = "AUDIT" THEN {} ELSE scope]
  /\ jobOpen' = jobOpen \cup {e}
  /\ UNCHANGED <<scope, permitted, handlers, exportTickets>>

\* A claim fences every earlier handler of the job.
StartHandler(e) ==
  /\ e \in jobOpen
  /\ Cardinality({h \in handlers : h.export = e}) < MaxHandlers
  /\ ~exports[e].late /\ exports[e].state # "COMPLETE"
  /\ handlers' = {IF h.export = e THEN [h EXCEPT !.leased = FALSE] ELSE h : h \in handlers}
                 \cup {[export |-> e, leased |-> TRUE, rows |-> Unwritten]}
  /\ exports' = [exports EXCEPT ![e].state = IF @ = "READY" THEN "RUNNING" ELSE @]
  /\ UNCHANGED <<scope, permitted, jobOpen, exportTickets>>

ExpireInJob(e) ==
  /\ e \in jobOpen
  /\ exports[e].late /\ exports[e].state # "COMPLETE"
  /\ exports' = [exports EXCEPT ![e].state = "EXPIRED"]
  /\ jobOpen' = jobOpen \ {e}
  /\ UNCHANGED <<scope, permitted, handlers, exportTickets>>

\* The builders: what was frozen, or what the reader may see by now.
RowsOf(e) == IF exports[e].kind = "CASES" THEN exports[e].frozen ELSE scope

\* Rows are rendered and stored under the hash of the file.
BuildRows(h) ==
  /\ ~h.rows.written
  /\ permitted \/ exports[h.export].kind # "AUDIT"
  /\ handlers' = (handlers \ {h}) \cup {[h EXCEPT !.rows = [rows |-> RowsOf(h.export), written |-> TRUE]]}
  /\ UNCHANGED <<scope, permitted, exports, jobOpen, exportTickets>>

\* Forbidden: this write is fenced by nothing.
LoseScope(h) ==
  /\ ~h.rows.written /\ exports[h.export].kind = "AUDIT" /\ ~permitted
  /\ exports' = [exports EXCEPT ![h.export].state = "FAILED"]
  /\ handlers' = handlers \ {h}
  /\ jobOpen' = IF h.leased THEN jobOpen \ {h.export} ELSE jobOpen
  /\ UNCHANGED <<scope, permitted, exportTickets>>

\* The handler's apply, in the transaction that finishes the job.
CompleteExport(h) ==
  LET e == h.export IN
  /\ h.leased /\ h.rows.written /\ e \in jobOpen
  /\ exports' = IF exports[e].state \in {"COMPLETE", "EXPIRED"} THEN exports
                ELSE [exports EXCEPT ![e].state = "COMPLETE", ![e].file = h.rows]
  /\ jobOpen' = jobOpen \ {e}
  /\ handlers' = handlers \ {h}
  /\ UNCHANGED <<scope, permitted, exportTickets>>

\* A lost lease, a crash or a store that does not answer: the job runs again.
AbandonHandler(h) ==
  /\ handlers' = handlers \ {h}
  /\ UNCHANGED <<scope, permitted, exports, jobOpen, exportTickets>>

-----------------------------------------------------------------------------
(* Access. *)

ScopeStillCovers(e) == permitted /\ (exports[e].kind = "AUDIT" \/ exports[e].frozen \subseteq scope)

GrantAccess(e) ==
  /\ exports[e].state = "COMPLETE" /\ ~exports[e].late
  /\ ScopeStillCovers(e)
  /\ exportTickets' = exportTickets \cup {e}
  /\ UNCHANGED <<scope, permitted, exports, handlers, jobOpen>>

\* The access view expires any row that is late, the detail view a complete one.
ExpireInView(e) ==
  /\ exports[e].state # "none" /\ exports[e].late
  /\ exports' = [exports EXCEPT ![e].state = "EXPIRED"]
  /\ UNCHANGED <<scope, permitted, handlers, jobOpen, exportTickets>>

EndTicket(e) ==
  /\ e \in exportTickets
  /\ exportTickets' = exportTickets \ {e}
  /\ UNCHANGED <<scope, permitted, exports, handlers, jobOpen>>

-----------------------------------------------------------------------------
(* The specification. *)

Next ==
  \/ \E s \in SUBSET Cases, p \in BOOLEAN : ChangeScope(s, p)
  \/ \E e \in ExportIds : PassExpiry(e) \/ StartHandler(e) \/ ExpireInJob(e)
                          \/ GrantAccess(e) \/ ExpireInView(e) \/ EndTicket(e)
  \/ \E e \in ExportIds, kind \in Kinds : CreateExport(e, kind)
  \/ \E h \in handlers : BuildRows(h) \/ LoseScope(h) \/ CompleteExport(h) \/ AbandonHandler(h)

Spec == Init /\ [][Next]_exportVars
-----------------------------------------------------------------------------
(* Properties. *)

TypeOK ==
  /\ \A e \in ExportIds :
       /\ exports[e].state \in {"none", "READY", "RUNNING", "COMPLETE", "FAILED", "EXPIRED"}
       /\ exports[e].state = "COMPLETE" => exports[e].file.written
       /\ Cardinality({h \in handlers : h.export = e /\ h.leased}) <= 1
  /\ exportTickets \subseteq {e \in ExportIds : exports[e].file.written}

\* "Scope expansion afterwards never enlarges the file": what a case export
\* hands out was visible when it was requested, however the scope moved and
\* however often the job ran.
FrozenFile ==
  \A e \in ExportIds : exports[e].kind = "CASES" /\ exports[e].file.written =>
    exports[e].file.rows = exports[e].frozen

\* A file that was completed never changes behind a ticket, whatever handlers
\* that lost their lease still do.
FileStays == \A e \in ExportIds : exports[e].file.written => exports'[e].file = exports[e].file
=============================================================================
