--------------------------------- MODULE Intake ---------------------------------
(***************************************************************************)
(* Submission as the routing table and the numbering of references see it: *)
(* SubmitApplication from the fence of its service to its commit, the      *)
(* resolution of its route, and what a supervisor does with a case that    *)
(* could not be routed.                                                    *)
(*                                                                         *)
(* What the form, declarations and files must satisfy decides whether a    *)
(* submission is refused, and a refused one changes nothing. CaseLifecycle *)
(* has the stages and clocks of the case, Policies the version it pins,    *)
(* Documents the verdict that a CLEAN file keeps. The queue an obligation  *)
(* names is left out, and so is the turn of the year.                      *)
(***************************************************************************)
EXTENDS Integers, FiniteSets

CONSTANTS
  Applications,
  ServiceOf,      \* the service of each application
  WardOf, CategoryOf,
  Entries,        \* routing entries a published table may hold
  Readings,       \* when a transaction may read the clock
  Queues,         \* duty queues, with the key of the service they are dedicated to, if any
  ActiveQueues,
  DedicatedTo,
  CentralOf,      \* the owner queue of a service
  Tries           \* numbers tried before a random reference

Codes == {"NO_MATCH", "MULTIPLE_MATCH", "INACTIVE_TARGET"}

\* "" is the wildcard of a category and of a queue's service.
IntakeAssumption ==
  /\ IsFiniteSet(Entries) /\ Readings \subseteq Nat
  /\ \A e \in Entries :
       e.priority \in Int /\ {e.from, e.until} \subseteq Nat /\ e.until > e.from /\ e.queue \in Queues
  /\ \A x \in Applications : CategoryOf[x] # "" /\ CentralOf[ServiceOf[x]] \in Queues
  /\ ActiveQueues \subseteq Queues /\ Queues \cap Codes = {} /\ Tries \in Nat \ {0}

VARIABLES
  table,       \* the entries of the routing artifact
  filings,     \* submissions under way: their instant, tries and candidate number
  cases        \* committed applications

intakeVars == <<table, filings, cases>>

NotFiling == [at |-> 0, tries |-> 0, candidate |-> 0, held |-> FALSE]
Draft == [status |-> "DRAFT", at |-> 0, queue |-> "none", exception |-> "none", number |-> 0]

Init ==
  /\ table \in SUBSET Entries
  /\ filings = [x \in Applications |-> NotFiling]
  /\ cases = [x \in Applications |-> Draft]

-----------------------------------------------------------------------------
Candidates(x, at) ==
  {e \in table : e.ward = WardOf[x] /\ e.category \in {"", CategoryOf[x]} /\ e.from <= at /\ at < e.until}

\* Entries of the category alone when there are any, and of those the highest priority.
Pool(x, at) ==
  LET specific == {e \in Candidates(x, at) : e.category # ""} IN
  IF specific = {} THEN Candidates(x, at) ELSE specific

Best(x, at) == {e \in Pool(x, at) : \A f \in Pool(x, at) : f.priority <= e.priority}

\* The queue of the one best entry, or the code of the failure.
ResolveRoute(x, at) ==
  LET best == Best(x, at)
      queue == (CHOOSE e \in best : TRUE).queue
  IN IF best = {} THEN "NO_MATCH"
     ELSE IF Cardinality(best) > 1 THEN "MULTIPLE_MATCH"
     ELSE IF queue \in ActiveQueues THEN queue ELSE "INACTIVE_TARGET"

-----------------------------------------------------------------------------
Filing(x) == filings[x] # NotFiling

\* The fence of the service is taken before the application, until the end of the transaction.
ServiceFree(x) == \A y \in Applications : Filing(y) => ServiceOf[y] # ServiceOf[x]

BeginSubmit(x, at) ==
  /\ cases[x].status = "DRAFT" /\ ServiceFree(x)
  /\ filings' = [filings EXCEPT ![x].at = at]
  /\ UNCHANGED <<table, cases>>

Submitted == {y \in Applications : cases[y].status # "DRAFT"}

\* Each try counts the committed references again, the random ones included.
CountReferences(x) ==
  /\ Filing(x) /\ ~filings[x].held /\ filings[x].candidate = 0 /\ filings[x].tries < Tries
  /\ filings' = [filings EXCEPT ![x].candidate = Cardinality(Submitted) + 1 + filings[x].tries]
  /\ UNCHANGED <<table, cases>>

\* The unique index refuses a committed number, and waits for the end of a
\* transaction that holds it.
TakeReference(x) ==
  /\ filings[x].candidate > 0 /\ ~filings[x].held
  /\ \A y \in Applications : ~(filings[y].held /\ filings[y].candidate = filings[x].candidate)
  /\ filings' = [filings EXCEPT ![x] =
       IF \E y \in Applications : cases[y].number = @.candidate
       THEN [@ EXCEPT !.candidate = 0, !.tries = filings[x].tries + 1]
       ELSE [@ EXCEPT !.held = TRUE]]
  /\ UNCHANGED <<table, cases>>

\* The case, its queue and what was read of the route become visible together;
\* number 0 is a random reference.
Submit(x) ==
  LET route == ResolveRoute(x, filings[x].at)
      failed == route \in Codes
  IN
  /\ filings[x].held \/ filings[x].tries = Tries
  /\ cases' = [cases EXCEPT ![x] =
       [status |-> "SUBMITTED", at |-> filings[x].at, number |-> filings[x].candidate,
        queue |-> IF failed THEN CentralOf[ServiceOf[x]] ELSE route,
        exception |-> IF failed THEN "OPEN" ELSE "none"]]
  /\ filings' = [filings EXCEPT ![x] = NotFiling]
  /\ UNCHANGED table

\* A refusal, an error or a crash before the commit.
RollBack(x) ==
  /\ Filing(x) /\ filings' = [filings EXCEPT ![x] = NotFiling]
  /\ UNCHANGED <<table, cases>>

-----------------------------------------------------------------------------
\* Both commands find a case that is no draft, and lock it.
StartScrutiny(x) ==
  /\ cases[x].status = "SUBMITTED" /\ cases[x].exception # "OPEN"
  /\ cases' = [cases EXCEPT ![x].status = "UNDER_SCRUTINY"]
  /\ UNCHANGED <<table, filings>>

\* An active queue of no other service; it need not be one the table names.
ResolveRoutingException(x, q) ==
  /\ cases[x].exception = "OPEN"
  /\ q \in ActiveQueues /\ DedicatedTo[q] \in {"", ServiceOf[x]}
  /\ cases' = [cases EXCEPT ![x].queue = q, ![x].exception = "RESOLVED"]
  /\ UNCHANGED <<table, filings>>

Next ==
  \/ \E x \in Applications, at \in Readings : BeginSubmit(x, at)
  \/ \E x \in Applications : CountReferences(x) \/ TakeReference(x) \/ Submit(x) \/ RollBack(x)
  \/ \E x \in Applications : StartScrutiny(x)
  \/ \E x \in Applications, q \in Queues : ResolveRoutingException(x, q)

Spec == Init /\ [][Next]_intakeVars

-----------------------------------------------------------------------------
\* The rows have values the code can give them.
TypeOK ==
  \A x \in Applications :
    LET c == cases[x] IN
    /\ c.status \in {"DRAFT", "SUBMITTED", "UNDER_SCRUTINY"} /\ c.exception \in {"none", "OPEN", "RESOLVED"}
    /\ c.status # "DRAFT" => c.queue \in Queues /\ c.number < Cardinality(Submitted) + Tries
    /\ filings[x].tries <= Tries /\ (filings[x].held => filings[x].candidate > 0)

\* One entry wins over another: it names the category and the other does not,
\* or both or neither do and its priority is higher.
Beats(e, f) == IF (e.category = "") = (f.category = "") THEN e.priority > f.priority ELSE f.category = ""

\* resolve_route never tosses a coin: a case sits where the one entry that
\* beats all others in force on its ward sent it, or a supervisor did, or it is
\* an open exception in the central queue of its service that nobody scrutinises.
RoutedOrOwned ==
  \A x \in Submitted :
    LET matching == {e \in table : e.ward = WardOf[x] /\ e.category \in {"", CategoryOf[x]}
                                   /\ cases[x].at \in e.from .. e.until - 1}
        winners == {e \in matching : \A f \in matching \ {e} : Beats(e, f)}
        target == {e.queue : e \in winners} \cap ActiveQueues
    IN IF target # {} THEN cases[x].queue \in target /\ cases[x].exception = "none"
       ELSE \/ cases[x].exception = "RESOLVED" /\ cases[x].queue \in ActiveQueues
            \/ cases[x].exception = "OPEN" /\ cases[x].queue = CentralOf[ServiceOf[x]]
               /\ cases[x].status = "SUBMITTED"

\* Services submit at a time and count what the others have not committed: a
\* number may be skipped then, but none is given twice, and no reference is
\* random, out of sequence, before there are as many numbered applications as
\* there are tries: each try met a number of its own that was taken.
NumberedOnce ==
  \A x \in Submitted :
    IF cases[x].number = 0
    THEN Cardinality({y \in Submitted : cases[y].number > 0}) >= Tries
    ELSE \A y \in Submitted \ {x} : cases[y].number # cases[x].number
=================================================================================
