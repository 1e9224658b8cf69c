--------------------------------- MODULE Support ---------------------------------
(***************************************************************************)
(* agni.support: tickets, their lifecycle and their conversation.          *)
(*                                                                         *)
(* Every command locks its ticket. Whether a reader sees the ticket at all *)
(* and which clean files a message may cite are refusals that change       *)
(* nothing; a message is kept here by what it tells later steps.           *)
(***************************************************************************)
EXTENDS Naturals

CONSTANTS
  Tickets,
  Own  \* tickets of requesters who are in the support scope of the queue themselves

SupportAssumption == Own \subseteq Tickets

Parties == {"requester", "support"}
Audiences == {"REQUESTER", "INTERNAL"}

VARIABLES
  tickets,   \* SupportTicket rows
  answered   \* the tickets their requester replied to since the last status change

supportVars == <<tickets, answered>>

States == {"OPEN", "IN_PROGRESS", "WAITING_FOR_REQUESTER", "RESOLVED", "CLOSED"}
RequesterReopen == {"RESOLVED", "CLOSED"}

StaffTransitions ==
  [OPEN |-> {"IN_PROGRESS", "RESOLVED"},
   IN_PROGRESS |-> {"WAITING_FOR_REQUESTER", "RESOLVED"},
   WAITING_FOR_REQUESTER |-> {"IN_PROGRESS", "RESOLVED"},
   RESOLVED |-> {"CLOSED", "IN_PROGRESS"},
   CLOSED |-> {"IN_PROGRESS"}]

NoTicket == [state |-> "none", resolvedAt |-> FALSE, closedAt |-> FALSE]

Init == tickets = [t \in Tickets |-> NoTicket] /\ answered = {}

SupportScope(party, t) == party = "support" \/ t \in Own
IsRequester(party, t) == party = "requester"

CreateTicket(t) ==
  /\ tickets[t] = NoTicket
  /\ tickets' = [tickets EXCEPT ![t].state = "OPEN"]
  /\ UNCHANGED answered

\* What a reply does to the state of its ticket.
AfterReply(party, t, audience) ==
  LET s == tickets[t].state IN
  CASE audience = "REQUESTER" /\ s = "OPEN" /\ SupportScope(party, t) /\ ~IsRequester(party, t) -> "IN_PROGRESS"
    [] audience = "REQUESTER" /\ s = "WAITING_FOR_REQUESTER" /\ IsRequester(party, t) -> "IN_PROGRESS"
    [] OTHER -> s

AddTicketMessage(party, t, audience) ==
  /\ tickets[t].state \notin {"none", "CLOSED"}
  /\ audience = "INTERNAL" => SupportScope(party, t)
  /\ tickets' = [tickets EXCEPT ![t].state = AfterReply(party, t, audience)]
  /\ answered' = IF IsRequester(party, t) /\ audience = "REQUESTER" THEN answered \cup {t} ELSE answered

\* The allowed changes: staff by the table, a requester may only reopen.
Allowed(party, t, s) ==
  IF SupportScope(party, t) THEN s \in StaffTransitions[tickets[t].state]
  ELSE tickets[t].state \in RequesterReopen /\ s = "IN_PROGRESS"

ChangeTicketStatus(party, t, s) ==
  LET reopens == s = "IN_PROGRESS" /\ tickets[t].state \in RequesterReopen IN
  /\ tickets[t] # NoTicket /\ Allowed(party, t, s)
  /\ tickets' = [tickets EXCEPT ![t] =
       [state |-> s,
        resolvedAt |-> ~reopens /\ (s = "RESOLVED" \/ @.resolvedAt),
        closedAt |-> ~reopens /\ (s = "CLOSED" \/ @.closedAt)]]
  /\ answered' = answered \ {t}

Next ==
  \/ \E t \in Tickets : CreateTicket(t)
  \/ \E party \in Parties, t \in Tickets :
       \/ \E audience \in Audiences : AddTicketMessage(party, t, audience)
       \/ \E s \in States : ChangeTicketStatus(party, t, s)

Spec == Init /\ [][Next]_supportVars
-----------------------------------------------------------------------------
(* Properties. *)

TypeOK == \A t \in Tickets : tickets[t].state \in States \cup {"none"}

\* The times of a ticket tell its state, over all rounds of closing and
\* reopening, and no ticket waits for a requester who has answered.
TicketsAgree ==
  \A t \in Tickets :
    /\ tickets[t].resolvedAt = (tickets[t].state \in {"RESOLVED", "CLOSED"})
    /\ tickets[t].closedAt = (tickets[t].state = "CLOSED")
    /\ tickets[t].state = "WAITING_FOR_REQUESTER" => t \notin answered
=============================================================================
