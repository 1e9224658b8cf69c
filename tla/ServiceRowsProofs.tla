--------------------------- MODULE ServiceRowsProofs ---------------------------
(***************************************************************************)
(* Proofs about the other services around the case: sign-in, thresholds,   *)
(* drafts, support, bookings, intake and reports, for any number of        *)
(* accounts, pages, officers, visits, cases and reports, and what follows  *)
(* for all fourteen together. A component starts well, each of its steps   *)
(* keeps its invariant, and a step moves one component at most.            *)
(***************************************************************************)
EXTENDS ServicesProofs

\* The rows of a sequence are in the set it is over.
LEMMA RowsOf ==
  ASSUME NEW S, NEW s \in Seq(S)
  PROVE  Len(s) \in Nat /\ DOMAIN s = 1..Len(s) /\ \A k \in DOMAIN s : s[k] \in S
OBVIOUS

-----------------------------------------------------------------------------
Ticket == [state: Supp!States \cup {"none"}, resolvedAt: BOOLEAN, closedAt: BOOLEAN]

SupportGood == tickets \in [Tickets -> Ticket] /\ Supp!TypeOK /\ Supp!TicketsAgree

-----------------------------------------------------------------------------
(* Support tickets. *)

\* A state of neither end has neither time.
LEMMA NotTimed ==
  \A s : s \in {"none", "OPEN"} => (s \in {"RESOLVED", "CLOSED"}) = FALSE /\ (s = "CLOSED") = FALSE
OBVIOUS

\* A reply moves an open or waiting ticket to work, any other not at all.
LEMMA Replies ==
  ASSUME SupportGood, NEW t \in Tickets, NEW party \in Supp!Parties, NEW audience \in Supp!Audiences,
         tickets[t].state \notin {"none", "CLOSED"}
  PROVE  /\ Supp!AfterReply(party, t, audience) \in Supp!States
         /\ Supp!AfterReply(party, t, audience) \in {tickets[t].state, "IN_PROGRESS"}
         /\ Supp!AfterReply(party, t, audience) = "IN_PROGRESS" => tickets[t].state # "RESOLVED"
         /\ Supp!IsRequester(party, t) /\ audience = "REQUESTER" =>
              Supp!AfterReply(party, t, audience) # "WAITING_FOR_REQUESTER"
<1>1. tickets[t].state \in Supp!States
  BY DEF SupportGood, Supp!TypeOK
<1>2. CASE audience = "REQUESTER" /\ tickets[t].state = "OPEN" /\ Supp!SupportScope(party, t) /\ ~Supp!IsRequester(party, t)
  BY <1>1, <1>2 DEF Supp!AfterReply, Supp!States
<1>3. CASE audience = "REQUESTER" /\ tickets[t].state = "WAITING_FOR_REQUESTER" /\ Supp!IsRequester(party, t)
  BY <1>1, <1>3 DEF Supp!AfterReply, Supp!States
<1>4. CASE /\ ~(audience = "REQUESTER" /\ tickets[t].state = "OPEN" /\ Supp!SupportScope(party, t) /\ ~Supp!IsRequester(party, t))
           /\ ~(audience = "REQUESTER" /\ tickets[t].state = "WAITING_FOR_REQUESTER" /\ Supp!IsRequester(party, t))
  <2>1. Supp!AfterReply(party, t, audience) = tickets[t].state
    BY <1>4 DEF Supp!AfterReply
  <2>2. QED
    BY <1>1, <1>4, <2>1
<1>5. QED
  BY <1>2, <1>3, <1>4

\* The commands of agni.support keep the times of a ticket and its state together.
LEMMA SupportKept == SupportGood /\ [Supp!Next]_supportRows => SupportGood'
<1> SUFFICES ASSUME SupportGood, [Supp!Next]_supportRows PROVE SupportGood'
  OBVIOUS
<1> USE DEF SupportGood
<1>1. ASSUME NEW t \in Tickets, Supp!CreateTicket(t)
      PROVE  SupportGood'
  <2>1. tickets[t] = Supp!NoTicket /\ tickets' = [tickets EXCEPT ![t].state = "OPEN"] /\ answered' = answered
    BY <1>1 DEF Supp!CreateTicket
  <2>2. /\ tickets' \in [Tickets -> Ticket]
        /\ \A x \in Tickets \ {t} : tickets'[x] = tickets[x]
        /\ tickets'[t].state = "OPEN" /\ tickets'[t].resolvedAt = Supp!NoTicket.resolvedAt
        /\ tickets'[t].closedAt = Supp!NoTicket.closedAt
    BY <2>1 DEF Ticket, Supp!States
  <2>3. Supp!NoTicket.resolvedAt = FALSE /\ Supp!NoTicket.closedAt = FALSE
    BY DEF Supp!NoTicket
  <2>4. /\ tickets'[t].resolvedAt = (tickets'[t].state \in {"RESOLVED", "CLOSED"})
        /\ tickets'[t].closedAt = (tickets'[t].state = "CLOSED")
    BY <2>2, <2>3, NotTimed
  <2>5. QED
    BY <2>1, <2>2, <2>4 DEF Supp!TypeOK, Supp!TicketsAgree, Supp!States
<1>2. ASSUME NEW party \in Supp!Parties, NEW t \in Tickets, NEW audience \in Supp!Audiences,
             Supp!AddTicketMessage(party, t, audience)
      PROVE  SupportGood'
  <2> DEFINE s == Supp!AfterReply(party, t, audience)
  <2>1. /\ s \in Supp!States /\ s \in {tickets[t].state, "IN_PROGRESS"}
        /\ s = "IN_PROGRESS" => tickets[t].state # "RESOLVED"
        /\ Supp!IsRequester(party, t) /\ audience = "REQUESTER" => s # "WAITING_FOR_REQUESTER"
        /\ tickets[t].state \notin {"none", "CLOSED"}
    BY <1>2, Replies DEF Supp!AddTicketMessage
  <2>2. /\ tickets' = [tickets EXCEPT ![t].state = s]
        /\ answered' = IF Supp!IsRequester(party, t) /\ audience = "REQUESTER" THEN answered \cup {t} ELSE answered
    BY <1>2 DEF Supp!AddTicketMessage
  <2> HIDE DEF s
  <2>3. /\ tickets' \in [Tickets -> Ticket]
        /\ \A x \in Tickets \ {t} : tickets'[x] = tickets[x]
        /\ tickets'[t].state = s /\ tickets'[t].resolvedAt = tickets[t].resolvedAt
        /\ tickets'[t].closedAt = tickets[t].closedAt
    BY <2>1, <2>2 DEF Ticket
  <2>4. QED
    BY <2>1, <2>2, <2>3 DEF Supp!TypeOK, Supp!TicketsAgree
<1>3. ASSUME NEW party \in Supp!Parties, NEW t \in Tickets, NEW s \in Supp!States,
             Supp!ChangeTicketStatus(party, t, s)
      PROVE  SupportGood'
  <2> DEFINE reopens == s = "IN_PROGRESS" /\ tickets[t].state \in Supp!RequesterReopen
  <2>1. /\ tickets' = [tickets EXCEPT ![t] =
              [state |-> s,
               resolvedAt |-> ~reopens /\ (s = "RESOLVED" \/ tickets[t].resolvedAt),
               closedAt |-> ~reopens /\ (s = "CLOSED" \/ tickets[t].closedAt)]]
        /\ answered' = answered \ {t}
    BY <1>3 DEF Supp!ChangeTicketStatus
  <2>2. tickets[t] \in Ticket /\ tickets[t].state # "none"
    <3>1. tickets[t] \in Ticket /\ tickets[t] # Supp!NoTicket
      BY <1>3 DEF Supp!ChangeTicketStatus
    <3>2. tickets[t].state = "none" => tickets[t].resolvedAt = FALSE /\ tickets[t].closedAt = FALSE
      BY <3>1 DEF Supp!TicketsAgree, Ticket
    <3>3. QED
      BY <3>1, <3>2 DEF Ticket, Supp!NoTicket
  <2>3. \/ s \in Supp!StaffTransitions[tickets[t].state]
        \/ tickets[t].state \in Supp!RequesterReopen /\ s = "IN_PROGRESS"
    BY <1>3 DEF Supp!ChangeTicketStatus, Supp!Allowed
  <2>4. /\ s = "CLOSED" => tickets[t].state = "RESOLVED"
        /\ tickets[t].state \in {"RESOLVED", "CLOSED"} => s \in {"CLOSED", "IN_PROGRESS"}
        /\ s = "WAITING_FOR_REQUESTER" => tickets[t].state = "IN_PROGRESS"
        /\ tickets[t].state = "CLOSED" => s = "IN_PROGRESS"
    BY <2>2, <2>3 DEF Supp!StaffTransitions, Supp!RequesterReopen, Supp!States, Ticket
  <2>5. /\ tickets' \in [Tickets -> Ticket]
        /\ \A x \in Tickets \ {t} : tickets'[x] = tickets[x]
        /\ tickets'[t].state = s
        /\ tickets'[t].resolvedAt = (~reopens /\ (s = "RESOLVED" \/ tickets[t].resolvedAt))
        /\ tickets'[t].closedAt = (~reopens /\ (s = "CLOSED" \/ tickets[t].closedAt))
    BY <2>1, <2>2 DEF Ticket
  <2>6. /\ tickets'[t].resolvedAt = (s \in {"RESOLVED", "CLOSED"})
        /\ tickets'[t].closedAt = (s = "CLOSED")
    <3>1. /\ tickets[t].resolvedAt = (tickets[t].state \in {"RESOLVED", "CLOSED"})
          /\ tickets[t].closedAt = (tickets[t].state = "CLOSED")
      BY DEF Supp!TicketsAgree
    <3>2. CASE reopens
      BY <2>5, <3>2
    <3>3. CASE ~reopens
      <4>1. tickets[t].state \in {"RESOLVED", "CLOSED"} => s = "CLOSED"
        BY <2>4, <3>3 DEF Supp!RequesterReopen
      <4>2. s = "CLOSED" => tickets[t].state \in {"RESOLVED", "CLOSED"}
        BY <2>4
      <4>3. (s = "RESOLVED" \/ tickets[t].resolvedAt) = (s \in {"RESOLVED", "CLOSED"})
        <5>1. CASE s = "RESOLVED"
          BY <5>1
        <5>2. CASE s # "RESOLVED"
          <6>1. tickets[t].resolvedAt = (s = "CLOSED")
            BY <3>1, <4>1, <4>2
          <6>2. (s \in {"RESOLVED", "CLOSED"}) = (s = "CLOSED")
            BY <5>2
          <6>3. (s = "RESOLVED" \/ tickets[t].resolvedAt) = (s = "CLOSED")
            BY <5>2, <6>1
          <6>4. QED
            BY <6>2, <6>3
        <5>3. QED
          BY <5>1, <5>2
      <4>4. (s = "CLOSED" \/ tickets[t].closedAt) = (s = "CLOSED")
        BY <3>1, <4>1
      <4>5. QED
        BY <2>5, <3>3, <4>3, <4>4
    <3>4. QED
      BY <3>2, <3>3
  <2>7. QED
    BY <2>1, <2>5, <2>6 DEF Supp!TypeOK, Supp!TicketsAgree
<1>4. CASE UNCHANGED supportRows
  BY <1>4 DEF supportRows, Supp!TypeOK, Supp!TicketsAgree
<1>5. QED
  BY <1>1, <1>2, <1>3, <1>4 DEF Supp!Next

\* There is no ticket at the beginning.
LEMMA SupportStarts == Supp!Init => SupportGood
<1> SUFFICES ASSUME Supp!Init PROVE SupportGood
  OBVIOUS
<1>1. Supp!NoTicket.state = "none" /\ Supp!NoTicket.resolvedAt = FALSE /\ Supp!NoTicket.closedAt = FALSE
  BY DEF Supp!NoTicket
<1>2. \A t \in Tickets : tickets[t] = Supp!NoTicket /\ t \notin answered
  BY DEF Supp!Init
<1>3. tickets \in [Tickets -> Ticket]
  BY DEF Supp!Init, Supp!NoTicket, Ticket, Supp!States
<1>4. ASSUME NEW t \in Tickets
      PROVE  /\ tickets[t].resolvedAt = (tickets[t].state \in {"RESOLVED", "CLOSED"})
             /\ tickets[t].closedAt = (tickets[t].state = "CLOSED")
  BY <1>1, <1>2, NotTimed
<1>5. QED
  BY <1>1, <1>2, <1>3, <1>4 DEF SupportGood, Supp!TypeOK, Supp!TicketsAgree

-----------------------------------------------------------------------------
Challenge == [state: {"open", "superseded", "consumed"}, attempts: 0..MaxAttempts, expires: Nat,
              window: 0..1, seen: Nat]
Limiter == [sent: 0..(SendsPerWindow + 1), windows: 0..1, free: Nat]

\* The codes of a window that were sent or are being sent.
Made(w) == {i \in DOMAIN challenges : challenges[i].window = w}
UnderWay(w) == {s \in starting : s.window = w}

\* The sends the limiter has let pass in a window: one of an earlier window has
\* been counted, and none is of a later one.
Passed(w) ==
  IF w < limiter.windows THEN SendsPerWindow
  ELSE IF w > limiter.windows THEN 0
  ELSE IF limiter.sent < SendsPerWindow THEN limiter.sent ELSE SendsPerWindow

WindowsCounted == \A w \in 0..1 : Cardinality(Made(w)) + Cardinality(UnderWay(w)) <= Passed(w)

SignInTypes ==
  /\ instant \in 0..LastInstant
  /\ limiter \in Limiter
  /\ starting \subseteq [at: Nat, window: 0..1, seen: Nat] /\ IsFiniteSet(starting)
  /\ \A s \in starting : s.window <= limiter.windows
  /\ challenges \in Seq(Challenge)
  /\ identity \in [principal: BOOLEAN, contact: BOOLEAN]
  /\ verified \subseteq DOMAIN challenges
  /\ started \in Seq(DOMAIN challenges)

\* A consumed challenge is either waiting for its session or has started it.
SpentOnce ==
  /\ \A i \in verified : challenges[i].state = "consumed" /\ \A n \in DOMAIN started : started[n] # i
  /\ \A n \in DOMAIN started : challenges[started[n]].state = "consumed"
  /\ \A m, n \in DOMAIN started : started[m] = started[n] => m = n

SupersededIfSeen ==
  \A i, j \in DOMAIN challenges : i < j /\ challenges[i].state = "open" => i > challenges[j].seen

Known == (identity.contact \/ verified # {}) => identity.principal

SignInGood == SignInTypes /\ SpentOnce /\ SupersededIfSeen /\ Known /\ WindowsCounted

-----------------------------------------------------------------------------
(* One-time codes. *)

\* The limits are natural numbers.
LEMMA Limits ==
  /\ Lifetime \in Nat /\ Cooldown \in Nat /\ SendsPerWindow \in Nat /\ MaxAttempts \in Nat
  /\ SendsPerWindow > 0 /\ LastInstant \in Nat
BY ServicesAssumption DEF ServicesAssumption, Sign!SignInAssumption

\* The sets that are counted are finite.
LEMMA CountedFinite ==
  ASSUME SignInTypes, NEW w
  PROVE  /\ IsFiniteSet(Made(w)) /\ Cardinality(Made(w)) \in Nat
         /\ IsFiniteSet(UnderWay(w)) /\ Cardinality(UnderWay(w)) \in Nat
<1>1. DOMAIN challenges = 1..Len(challenges) /\ Len(challenges) \in Nat
  BY RowsOf DEF SignInTypes
<1>2. IsFiniteSet(1..Len(challenges))
  BY <1>1, FS_Interval
<1>3. Made(w) \subseteq 1..Len(challenges) /\ UnderWay(w) \subseteq starting
  BY <1>1 DEF Made, UnderWay
<1>4. IsFiniteSet(Made(w)) /\ IsFiniteSet(UnderWay(w))
  BY <1>2, <1>3, FS_Subset DEF SignInTypes
<1>5. QED
  BY <1>4, FS_CardinalityType

\* A step that leaves the codes and the limiter alone.
LEMMA CountsStay ==
  ASSUME WindowsCounted, SignInTypes, UNCHANGED limiter, starting' \subseteq starting,
         \A w \in 0..1 : Made(w)' = Made(w)
  PROVE  WindowsCounted'
<1>1. ASSUME NEW w \in 0..1
      PROVE  Cardinality(Made(w)') + Cardinality(UnderWay(w)') <= Passed(w)'
  <2>1. UnderWay(w)' \subseteq UnderWay(w)
    BY DEF UnderWay
  <2>2. Cardinality(UnderWay(w)') <= Cardinality(UnderWay(w)) /\ IsFiniteSet(UnderWay(w)')
    BY <2>1, CountedFinite, FS_Subset
  <2>3. PICK a, b, c, d : a = Cardinality(Made(w)) /\ b = Cardinality(UnderWay(w)) /\ c = Cardinality(UnderWay(w)') /\ d = Passed(w)
    OBVIOUS
  <2>4. a \in Nat /\ b \in Nat /\ c \in Nat /\ c <= b /\ a + b <= d
    BY <2>2, <2>3, CountedFinite, FS_CardinalityType DEF WindowsCounted
  <2>5. d \in Nat
    BY <2>3, Limits DEF Passed, SignInTypes, Limiter
  <2>6. a + c <= d
    BY <2>4, <2>5
  <2>7. Passed(w)' = Passed(w)
    BY DEF Passed
  <2>8. QED
    BY <2>3, <2>6, <2>7
<1>2. QED
  BY <1>1 DEF WindowsCounted

\* A challenge that changes its state or its attempts only.
LEMMA ChallengeMoves ==
  ASSUME SignInTypes, NEW i \in DOMAIN challenges, NEW c \in Challenge,
         c.window = challenges[i].window, c.seen = challenges[i].seen,
         challenges' = [challenges EXCEPT ![i] = c]
  PROVE  /\ challenges' \in Seq(Challenge) /\ DOMAIN challenges' = DOMAIN challenges
         /\ challenges'[i] = c /\ \A j \in DOMAIN challenges \ {i} : challenges'[j] = challenges[j]
         /\ \A w \in 0..1 : Made(w)' = Made(w)
<1>1. Len(challenges) \in Nat /\ DOMAIN challenges = 1..Len(challenges) /\ challenges \in [1..Len(challenges) -> Challenge]
  BY DEF SignInTypes
<1>2. challenges' \in [1..Len(challenges) -> Challenge]
  BY <1>1
<1>3. challenges' \in Seq(Challenge) /\ DOMAIN challenges' = DOMAIN challenges
  BY <1>1, <1>2
<1>4. challenges'[i] = c /\ \A j \in DOMAIN challenges \ {i} : challenges'[j] = challenges[j]
  BY <1>1
<1>5. ASSUME NEW w \in 0..1
      PROVE  Made(w)' = Made(w)
  BY <1>3, <1>4 DEF Made
<1>6. QED
  BY <1>3, <1>4, <1>5

\* A call that passes the limits or is refused has been counted.
LEMMA LimitsChecked ==
  ASSUME SignInGood, Sign!CheckLimits
  PROVE  SignInGood'
<1> DEFINE within == limiter.sent < SendsPerWindow /\ instant >= limiter.free
           new == [at |-> instant, window |-> limiter.windows, seen |-> Len(challenges)]
<1>1. /\ limiter.sent <= SendsPerWindow
      /\ limiter' = [limiter EXCEPT !.sent = limiter.sent + 1, !.free = IF within THEN instant + Cooldown ELSE limiter.free]
      /\ starting' = IF within THEN starting \cup {new} ELSE starting
      /\ UNCHANGED <<instant, challenges, identity, verified, started>>
  BY DEF Sign!CheckLimits
<1>2. SignInTypes
  BY DEF SignInGood
<1>3. limiter \in Limiter /\ instant \in Nat /\ Len(challenges) \in Nat
  BY <1>2, Limits, RowsOf DEF SignInTypes
<1>4. PICK n : n = limiter.sent
  OBVIOUS
<1>5. n \in Nat /\ n <= SendsPerWindow /\ n + 1 \in 0..(SendsPerWindow + 1)
  BY <1>1, <1>3, <1>4, Limits DEF Limiter
<1>6. (IF within THEN instant + Cooldown ELSE limiter.free) \in Nat
  BY <1>3, Limits DEF Limiter
<1>7. limiter' \in Limiter /\ limiter'.sent = n + 1 /\ limiter'.windows = limiter.windows
  BY <1>1, <1>3, <1>4, <1>5, <1>6 DEF Limiter
<1>8. new \in [at: Nat, window: 0..1, seen: Nat] /\ new.window = limiter.windows
  BY <1>3 DEF Limiter
<1> HIDE DEF new
<1>9. /\ starting' \subseteq [at: Nat, window: 0..1, seen: Nat] /\ IsFiniteSet(starting')
      /\ \A s \in starting' : s.window <= limiter.windows
  <2>1. IsFiniteSet(starting \cup {new})
    BY <1>2, FS_AddElement DEF SignInTypes
  <2>2. new.window <= limiter.windows
    BY <1>3, <1>8 DEF Limiter
  <2>3. QED
    BY <1>1, <1>2, <1>8, <2>1, <2>2 DEF SignInTypes
<1>10. SignInTypes'
  BY <1>1, <1>2, <1>7, <1>9 DEF SignInTypes
<1>11. ASSUME NEW w \in 0..1
       PROVE  Cardinality(Made(w)') + Cardinality(UnderWay(w)') <= Passed(w)'
  <2>1. Made(w)' = Made(w)
    BY <1>1 DEF Made
  <2>2. PICK a, b, c : a = Cardinality(Made(w)) /\ b = Cardinality(UnderWay(w)) /\ c = Cardinality(UnderWay(w)')
    OBVIOUS
  <2>3. a \in Nat /\ b \in Nat /\ a + b <= Passed(w)
    BY <1>2, <2>2, CountedFinite DEF SignInGood, WindowsCounted
  <2>4. CASE w = limiter.windows /\ within
    <3>1. UnderWay(w)' = UnderWay(w) \cup {new}
      BY <1>1, <1>8, <2>4 DEF UnderWay
    <3>2. c \in {b, b + 1}
      BY <1>2, <2>2, <3>1, CountedFinite, FS_AddElement
    <3>3. Passed(w) = n /\ n < SendsPerWindow
      BY <1>3, <1>4, <2>4, Limits DEF Passed, Limiter
    <3>4. Passed(w)' = n + 1
      BY <1>3, <1>5, <1>7, <2>4, <3>3, Limits DEF Passed, Limiter
    <3>5. a + c <= n + 1
      BY <1>5, <2>3, <3>2, <3>3
    <3>6. QED
      BY <2>1, <2>2, <3>4, <3>5
  <2>5. CASE ~(w = limiter.windows /\ within)
    <3>1. UnderWay(w)' = UnderWay(w)
      BY <1>1, <1>8, <2>5 DEF UnderWay
    <3>2. Passed(w) <= Passed(w)' /\ Passed(w) \in Nat /\ Passed(w)' \in Nat
      BY <1>3, <1>4, <1>5, <1>7, Limits DEF Passed, Limiter
    <3>3. QED
      BY <2>1, <2>2, <2>3, <3>1, <3>2
  <2>6. QED
    BY <2>4, <2>5
<1>12. WindowsCounted'
  BY <1>11 DEF WindowsCounted
<1>13. QED
  BY <1>1, <1>10, <1>12 DEF SignInGood, SpentOnce, SupersededIfSeen, Known

\* A challenge that is committed takes the place of its call in the counts.
LEMMA ChallengeStarts ==
  ASSUME SignInGood, NEW s \in starting, NEW seen \in 0..MaxChallenges, Sign!StartChallenge(s, seen)
  PROVE  SignInGood'
<1> DEFINE last == Len(challenges) + 1
           old == [i \in DOMAIN challenges |-> IF i <= seen /\ challenges[i].state = "open"
                                               THEN [challenges[i] EXCEPT !.state = "superseded"] ELSE challenges[i]]
           new == [state |-> "open", attempts |-> 0, expires |-> s.at + Lifetime, window |-> s.window, seen |-> seen]
<1>1. /\ seen \in s.seen..Len(challenges)
      /\ starting' = starting \ {s}
      /\ challenges' = Append(old, new)
      /\ UNCHANGED <<instant, limiter, identity, verified, started>>
  BY DEF Sign!StartChallenge, Sign!Ids
<1>2. SignInTypes
  BY DEF SignInGood
<1>3. /\ Len(challenges) \in Nat /\ DOMAIN challenges = 1..Len(challenges)
      /\ \A i \in DOMAIN challenges : challenges[i] \in Challenge
  BY <1>2, RowsOf DEF SignInTypes
<1>4. s \in [at: Nat, window: 0..1, seen: Nat]
  BY <1>2 DEF SignInTypes
<1>5. seen \in Nat /\ seen <= Len(challenges)
  BY <1>1, <1>3, <1>4
<1>6. new \in Challenge /\ new.window = s.window /\ new.seen = seen /\ new.state = "open"
  BY <1>4, <1>5, Limits DEF Challenge
<1>7. \A i \in DOMAIN challenges :
        /\ old[i] \in Challenge /\ old[i].window = challenges[i].window /\ old[i].seen = challenges[i].seen
        /\ old[i].state = "open" <=> challenges[i].state = "open" /\ i > seen
        /\ old[i].state = "consumed" <=> challenges[i].state = "consumed"
  BY <1>3, <1>5 DEF Challenge
<1>8. old \in [1..Len(challenges) -> Challenge]
  BY <1>3, <1>7
<1> HIDE DEF old, new
<1>9. /\ challenges' \in Seq(Challenge) /\ Len(challenges') = last
      /\ DOMAIN challenges' = DOMAIN challenges \cup {last} /\ last \notin DOMAIN challenges
      /\ challenges'[last] = new /\ \A i \in DOMAIN challenges : challenges'[i] = old[i]
  <2>1. old \in Seq(Challenge) /\ Len(old) = Len(challenges)
    BY <1>3, <1>8
  <2>2. /\ challenges' \in Seq(Challenge) /\ Len(challenges') = Len(challenges) + 1
        /\ DOMAIN challenges' = 1..(Len(challenges) + 1)
        /\ challenges'[last] = new /\ \A i \in 1..Len(challenges) : challenges'[i] = old[i]
    BY <1>1, <1>6, <2>1
  <2>3. QED
    BY <1>3, <2>2
<1>10. last \in Nat /\ \A i \in DOMAIN challenges : i < last /\ i \in Nat
  BY <1>3
<1> HIDE DEF last
<1>11. SignInTypes'
  <2>1. IsFiniteSet(starting')
    BY <1>1, <1>2, FS_RemoveElement DEF SignInTypes
  <2>2. started' \in Seq(DOMAIN challenges') /\ verified' \subseteq DOMAIN challenges'
    <3>1. DOMAIN challenges \subseteq DOMAIN challenges'
      BY <1>9
    <3>2. started \in Seq(DOMAIN challenges')
      BY <1>2, <3>1 DEF SignInTypes
    <3>3. QED
      BY <1>1, <1>2, <3>1, <3>2 DEF SignInTypes
  <2>3. QED
    BY <1>1, <1>2, <1>9, <2>1, <2>2 DEF SignInTypes
<1>12. SpentOnce'
  <2>1. \A n \in DOMAIN started : started[n] \in DOMAIN challenges
    BY <1>2, RowsOf DEF SignInTypes
  <2>2. \A i \in verified : i \in DOMAIN challenges
    BY <1>2 DEF SignInTypes
  <2>3. QED
    BY <1>1, <1>7, <1>9, <2>1, <2>2 DEF SignInGood, SpentOnce
<1>13. SupersededIfSeen'
  <2>1. ASSUME NEW i \in DOMAIN challenges', NEW j \in DOMAIN challenges', i < j, challenges'[i].state = "open"
        PROVE  i > challenges'[j].seen
    <3>1. i \in DOMAIN challenges
      BY <1>3, <1>9, <1>10, <2>1
    <3>2. challenges[i].state = "open" /\ i > seen
      BY <1>7, <1>9, <2>1, <3>1
    <3>3. CASE j = last
      BY <1>6, <1>9, <3>2, <3>3
    <3>4. CASE j \in DOMAIN challenges
      BY <1>7, <1>9, <2>1, <3>1, <3>2, <3>4 DEF SignInGood, SupersededIfSeen
    <3>5. QED
      BY <1>9, <3>3, <3>4
  <2>2. QED
    BY <2>1 DEF SupersededIfSeen
<1>14. ASSUME NEW w \in 0..1
       PROVE  Cardinality(Made(w)') + Cardinality(UnderWay(w)') <= Passed(w)'
  <2>1. Passed(w)' = Passed(w)
    BY <1>1 DEF Passed
  <2>2. PICK a, b, c, d : /\ a = Cardinality(Made(w)) /\ b = Cardinality(UnderWay(w))
                          /\ c = Cardinality(Made(w)') /\ d = Cardinality(UnderWay(w)')
    OBVIOUS
  <2>3. a \in Nat /\ b \in Nat /\ a + b <= Passed(w) /\ Passed(w) \in Nat
    <3>1. a \in Nat /\ b \in Nat /\ a + b <= Passed(w)
      BY <1>2, <2>2, CountedFinite DEF SignInGood, WindowsCounted
    <3>2. Passed(w) \in Nat
      BY <1>2, Limits DEF Passed, SignInTypes, Limiter
    <3>3. QED
      BY <3>1, <3>2
  <2>4. CASE w = s.window
    <3>1. Made(w)' = Made(w) \cup {last} /\ last \notin Made(w)
      BY <1>6, <1>7, <1>9, <2>4 DEF Made
    <3>2. UnderWay(w)' = UnderWay(w) \ {s} /\ s \in UnderWay(w)
      BY <1>1, <2>4 DEF UnderWay
    <3>3. c = a + 1
      BY <1>2, <2>2, <3>1, CountedFinite, FS_AddElement
    <3>4. d = b - 1
      BY <1>2, <2>2, <3>2, CountedFinite, FS_RemoveElement
    <3>5. c + d <= Passed(w)
      BY <2>3, <3>3, <3>4
    <3>6. QED
      BY <2>1, <2>2, <3>5
  <2>5. CASE w # s.window
    <3>1. Made(w)' = Made(w)
      BY <1>6, <1>7, <1>9, <2>5 DEF Made
    <3>2. UnderWay(w)' = UnderWay(w)
      BY <1>1, <2>5 DEF UnderWay
    <3>3. QED
      BY <2>1, <2>2, <2>3, <3>1, <3>2
  <2>6. QED
    BY <2>4, <2>5
<1>15. WindowsCounted'
  BY <1>14 DEF WindowsCounted
<1>16. QED
  BY <1>1, <1>11, <1>12, <1>13, <1>15 DEF SignInGood, Known

\* A code is tried: the attempt is counted, and a right one is consumed.
LEMMA CodeTried ==
  ASSUME SignInGood, NEW i \in DOMAIN challenges, Sign!WrongCode(i) \/ Sign!VerifyChallenge(i)
  PROVE  SignInGood'
<1>1. SignInTypes
  BY DEF SignInGood
<1>2. challenges[i] \in Challenge /\ Len(challenges) \in Nat /\ DOMAIN challenges = 1..Len(challenges)
  BY <1>1, RowsOf DEF SignInTypes
<1>3. challenges[i].state = "open" /\ challenges[i].attempts < MaxAttempts
  BY DEF Sign!WrongCode, Sign!VerifyChallenge, Sign!Usable
<1>4. PICK n : n = challenges[i].attempts
  OBVIOUS
<1>5. n + 1 \in 0..MaxAttempts
  BY <1>2, <1>3, <1>4, Limits DEF Challenge
<1>6. i \notin verified /\ \A k \in DOMAIN started : started[k] # i
  BY <1>3 DEF SignInGood, SpentOnce
<1>7. CASE Sign!WrongCode(i)
  <2> DEFINE c == [challenges[i] EXCEPT !.attempts = n + 1]
  <2>1. /\ challenges' = [challenges EXCEPT ![i] = c]
        /\ UNCHANGED <<instant, limiter, starting, identity, verified, started>>
    BY <1>2, <1>4, <1>7 DEF Sign!WrongCode
  <2>2. c \in Challenge /\ c.window = challenges[i].window /\ c.seen = challenges[i].seen /\ c.state = "open"
    BY <1>2, <1>3, <1>5 DEF Challenge
  <2> HIDE DEF c
  <2>3. /\ challenges' \in Seq(Challenge) /\ DOMAIN challenges' = DOMAIN challenges
        /\ challenges'[i] = c /\ \A j \in DOMAIN challenges \ {i} : challenges'[j] = challenges[j]
        /\ \A w \in 0..1 : Made(w)' = Made(w)
    BY <1>1, <2>1, <2>2, ChallengeMoves
  <2>4. SignInTypes'
    BY <1>1, <2>1, <2>3 DEF SignInTypes
  <2>5. WindowsCounted'
    BY <1>1, <2>1, <2>3, CountsStay DEF SignInGood
  <2>6. \A j \in DOMAIN challenges : challenges'[j].state = challenges[j].state /\ challenges'[j].seen = challenges[j].seen
    BY <1>3, <2>2, <2>3
  <2>7. SupersededIfSeen'
    BY <2>3, <2>6 DEF SignInGood, SupersededIfSeen
  <2>8. SpentOnce' /\ Known'
    <3>1. \A k \in DOMAIN started : started[k] \in DOMAIN challenges
      BY <1>1, RowsOf DEF SignInTypes
    <3>2. verified \subseteq DOMAIN challenges
      BY <1>1 DEF SignInTypes
    <3>3. QED
      BY <2>1, <2>6, <3>1, <3>2 DEF SignInGood, SpentOnce, Known
  <2>9. QED
    BY <2>4, <2>5, <2>7, <2>8 DEF SignInGood
<1>8. CASE Sign!VerifyChallenge(i)
  <2> DEFINE c == [challenges[i] EXCEPT !.attempts = n + 1, !.state = "consumed"]
  <2>1. /\ challenges' = [challenges EXCEPT ![i] = c]
        /\ identity' = [identity EXCEPT !.principal = TRUE]
        /\ verified' = verified \cup {i}
        /\ UNCHANGED <<instant, limiter, starting, started>>
    BY <1>2, <1>4, <1>8 DEF Sign!VerifyChallenge
  <2>2. c \in Challenge /\ c.window = challenges[i].window /\ c.seen = challenges[i].seen /\ c.state = "consumed"
    BY <1>2, <1>3, <1>5 DEF Challenge
  <2> HIDE DEF c
  <2>3. /\ challenges' \in Seq(Challenge) /\ DOMAIN challenges' = DOMAIN challenges
        /\ challenges'[i] = c /\ \A j \in DOMAIN challenges \ {i} : challenges'[j] = challenges[j]
        /\ \A w \in 0..1 : Made(w)' = Made(w)
    BY <1>1, <2>1, <2>2, ChallengeMoves
  <2>4. identity' \in [principal: BOOLEAN, contact: BOOLEAN] /\ identity'.principal
    BY <1>1, <2>1 DEF SignInTypes
  <2>5. SignInTypes'
    BY <1>1, <2>1, <2>3, <2>4 DEF SignInTypes
  <2>6. WindowsCounted'
    BY <1>1, <2>1, <2>3, CountsStay DEF SignInGood
  <2>7. /\ \A j \in DOMAIN challenges : challenges'[j].seen = challenges[j].seen
        /\ \A j \in DOMAIN challenges \ {i} : challenges'[j].state = challenges[j].state
        /\ challenges'[i].state = "consumed"
    BY <2>2, <2>3
  <2>8. SupersededIfSeen'
    BY <2>3, <2>7 DEF SignInGood, SupersededIfSeen
  <2>9. SpentOnce' /\ Known'
    <3>1. \A k \in DOMAIN started : started[k] \in DOMAIN challenges
      BY <1>1, RowsOf DEF SignInTypes
    <3>2. verified \subseteq DOMAIN challenges
      BY <1>1 DEF SignInTypes
    <3>3. QED
      BY <1>6, <2>1, <2>4, <2>7, <3>1, <3>2 DEF SignInGood, SpentOnce, Known
  <2>10. QED
    BY <2>5, <2>6, <2>8, <2>9 DEF SignInGood
<1>9. QED
  BY <1>7, <1>8

\* A session starts once for a code that was verified.
LEMMA SessionStarts ==
  ASSUME SignInGood, NEW i \in DOMAIN challenges, NEW withContact \in BOOLEAN, Sign!EstablishSession(i, withContact)
  PROVE  SignInGood'
<1>1. /\ i \in verified /\ verified' = verified \ {i}
      /\ identity' = [identity EXCEPT !.contact = identity.contact \/ withContact]
      /\ started' = Append(started, i)
      /\ UNCHANGED <<instant, limiter, starting, challenges>>
  BY DEF Sign!EstablishSession
<1>2. SignInTypes
  BY DEF SignInGood
<1>3. /\ identity' \in [principal: BOOLEAN, contact: BOOLEAN] /\ identity'.principal = identity.principal
      /\ identity.principal
  BY <1>1, <1>2 DEF SignInTypes, SignInGood, Known
<1>4. /\ started' \in Seq(DOMAIN challenges) /\ DOMAIN started' = DOMAIN started \cup {Len(started) + 1}
      /\ Len(started) + 1 \notin DOMAIN started
      /\ started'[Len(started) + 1] = i /\ \A n \in DOMAIN started : started'[n] = started[n]
  <2>1. Len(started) \in Nat /\ DOMAIN started = 1..Len(started)
    BY <1>2, RowsOf DEF SignInTypes
  <2>2. /\ started' \in Seq(DOMAIN challenges) /\ DOMAIN started' = 1..(Len(started) + 1)
        /\ started'[Len(started) + 1] = i /\ \A n \in 1..Len(started) : started'[n] = started[n]
    BY <1>1, <1>2, <2>1 DEF SignInTypes
  <2>3. QED
    BY <2>1, <2>2
<1>5. SignInTypes'
  BY <1>1, <1>2, <1>3, <1>4 DEF SignInTypes
<1>6. WindowsCounted'
  BY <1>1, <1>2, CountsStay DEF SignInGood, Made
<1>7. SpentOnce'
  BY <1>1, <1>4 DEF SignInGood, SpentOnce
<1>8. SupersededIfSeen' /\ Known'
  BY <1>1, <1>3 DEF SignInGood, SupersededIfSeen, Known
<1>9. QED
  BY <1>5, <1>6, <1>7, <1>8 DEF SignInGood

\* Every step of signing in keeps the invariant.
LEMMA SignInKept == SignInGood /\ [Sign!Next]_signInRows => SignInGood'
<1> SUFFICES ASSUME SignInGood, [Sign!Next]_signInRows PROVE SignInGood'
  OBVIOUS
<1>1. SignInTypes
  BY DEF SignInGood
<1>2. ASSUME UNCHANGED <<limiter, challenges, identity, started>>, instant' \in 0..LastInstant,
             starting' \subseteq starting, verified' \subseteq verified
      PROVE  SignInGood'
  <2>1. IsFiniteSet(starting')
    BY <1>1, <1>2, FS_Subset DEF SignInTypes
  <2>2. SignInTypes'
    BY <1>1, <1>2, <2>1 DEF SignInTypes
  <2>3. WindowsCounted'
    BY <1>1, <1>2, CountsStay DEF SignInGood, Made
  <2>4. QED
    BY <1>2, <2>2, <2>3 DEF SignInGood, SpentOnce, SupersededIfSeen, Known
<1>3. CASE Sign!Tick
  <2>1. instant' \in 0..LastInstant
    BY <1>1, <1>3, Limits DEF Sign!Tick, SignInTypes
  <2>2. QED
    BY <1>2, <1>3, <2>1 DEF Sign!Tick
<1>4. CASE Sign!TurnWindow
  <2>1. /\ limiter.windows = 0 /\ limiter' = [limiter EXCEPT !.sent = 0, !.windows = 1]
        /\ UNCHANGED <<instant, starting, challenges, identity, verified, started>>
    BY <1>4 DEF Sign!TurnWindow
  <2>2. limiter' \in Limiter /\ limiter'.sent = 0 /\ limiter'.windows = 1
    <3>1. 0 \in 0..(SendsPerWindow + 1) /\ 1 \in 0..1
      BY Limits
    <3>2. limiter \in Limiter
      BY <1>1 DEF SignInTypes
    <3>3. QED
      BY <2>1, <3>1, <3>2 DEF Limiter
  <2>3. \A s \in starting : s.window <= limiter'.windows
    BY <1>1, <2>2 DEF SignInTypes
  <2>4. SignInTypes'
    BY <1>1, <2>1, <2>2, <2>3 DEF SignInTypes
  <2>5. ASSUME NEW w \in 0..1
        PROVE  Cardinality(Made(w)') + Cardinality(UnderWay(w)') <= Passed(w)'
    <3>1. Made(w)' = Made(w) /\ UnderWay(w)' = UnderWay(w)
      BY <2>1 DEF Made, UnderWay
    <3>2. Passed(w) <= Passed(w)' /\ Passed(w) \in Nat /\ Passed(w)' \in Nat
      BY <1>1, <2>1, <2>2, Limits DEF Passed, SignInTypes, Limiter
    <3>3. PICK a, b : a = Cardinality(Made(w)) /\ b = Cardinality(UnderWay(w))
      OBVIOUS
    <3>4. a \in Nat /\ b \in Nat /\ a + b <= Passed(w)
      BY <1>1, <3>3, CountedFinite DEF SignInGood, WindowsCounted
    <3>5. QED
      BY <3>1, <3>2, <3>3, <3>4
  <2>6. WindowsCounted'
    BY <2>5 DEF WindowsCounted
  <2>7. QED
    BY <2>1, <2>4, <2>6 DEF SignInGood, SpentOnce, SupersededIfSeen, Known
<1>5. ASSUME NEW s \in starting, Sign!SendFails(s)
      PROVE  SignInGood'
  BY <1>1, <1>2, <1>5 DEF Sign!SendFails, SignInTypes
<1>6. ASSUME NEW i \in Sign!Ids, Sign!StopBetween(i)
      PROVE  SignInGood'
  BY <1>1, <1>2, <1>6 DEF Sign!StopBetween, SignInTypes
<1>7. ASSUME NEW i \in Sign!Ids, \/ Sign!WrongCode(i) \/ Sign!VerifyChallenge(i)
                                 \/ \E withContact \in BOOLEAN : Sign!EstablishSession(i, withContact)
      PROVE  SignInGood'
  <2>1. i \in DOMAIN challenges
    BY DEF Sign!Ids
  <2>2. QED
    BY <1>7, <2>1, CodeTried, SessionStarts
<1>8. CASE UNCHANGED signInRows
  BY <1>1, <1>2, <1>8 DEF signInRows, SignInTypes
<1>9. ASSUME NEW s \in starting, NEW seen \in 0..MaxChallenges, Sign!StartChallenge(s, seen)
      PROVE  SignInGood'
  BY <1>9, ChallengeStarts
<1>10. QED
  BY <1>3, <1>4, <1>5, <1>6, <1>7, <1>8, <1>9, LimitsChecked DEF Sign!Next

\* No code was sent at the beginning.
LEMMA SignInStarts == Sign!Init => SignInGood
<1> SUFFICES ASSUME Sign!Init PROVE SignInGood
  OBVIOUS
<1>1. instant = 0 /\ starting = {} /\ challenges = <<>> /\ verified = {} /\ started = <<>>
  BY DEF Sign!Init
<1>2. limiter = [sent |-> 0, windows |-> 0, free |-> 0] /\ identity = [principal |-> FALSE, contact |-> FALSE]
  BY DEF Sign!Init
<1>3. limiter \in Limiter
  BY <1>2, Limits DEF Limiter
<1>4. SignInTypes
  BY <1>1, <1>2, <1>3, Limits, FS_EmptySet DEF SignInTypes
<1>5. SpentOnce /\ SupersededIfSeen
  BY <1>1 DEF SpentOnce, SupersededIfSeen
<1>6. Known
  BY <1>1, <1>2 DEF Known
<1>7. ASSUME NEW w \in 0..1
      PROVE  Cardinality(Made(w)) + Cardinality(UnderWay(w)) <= Passed(w)
  <2>1. Made(w) = {} /\ UnderWay(w) = {}
    BY <1>1 DEF Made, UnderWay
  <2>2. Passed(w) \in Nat
    BY <1>3, Limits DEF Passed, Limiter
  <2>3. QED
    BY <2>1, <2>2, FS_EmptySet
<1>8. QED
  BY <1>4, <1>5, <1>6, <1>7 DEF SignInGood, WindowsCounted

\* What the invariant says of codes and sessions.
LEMMA CodesSpent == SignInGood => Sign!TypeOK /\ Sign!CodesAreSpent
<1> SUFFICES ASSUME SignInGood PROVE Sign!TypeOK /\ Sign!CodesAreSpent
  OBVIOUS
<1>1. SignInTypes
  BY DEF SignInGood
<1>2. \A i \in DOMAIN challenges : challenges[i] \in Challenge
  BY <1>1, RowsOf DEF SignInTypes
<1>3. Sign!TypeOK
  BY <1>1, <1>2 DEF Sign!TypeOK, Sign!Ids, SignInTypes, SignInGood, Known, Limiter, Challenge
<1>4. ASSUME NEW w \in 0..1
      PROVE  Sign!Cardinality({i \in Sign!Ids : challenges[i].window = w}) <= SendsPerWindow
  <2>1. Sign!Cardinality(Made(w)) = Cardinality(Made(w))
    BY <1>1, CountedFinite DEF Sign!Cardinality, Cardinality, IsFiniteSet
  <2>2. PICK a, b : a = Cardinality(Made(w)) /\ b = Cardinality(UnderWay(w))
    OBVIOUS
  <2>3. a \in Nat /\ b \in Nat /\ a + b <= Passed(w)
    BY <1>1, <2>2, CountedFinite DEF SignInGood, WindowsCounted
  <2>4. Passed(w) \in Nat /\ Passed(w) <= SendsPerWindow
    BY <1>1, Limits DEF Passed, SignInTypes, Limiter
  <2>5. a <= SendsPerWindow
    BY <2>3, <2>4, Limits
  <2>6. QED
    BY <2>1, <2>2, <2>5 DEF Made, Sign!Ids
<1>5. /\ \A m, n \in DOMAIN started : started[m] = started[n] => m = n
      /\ \A i \in verified \cup {started[n] : n \in DOMAIN started} : challenges[i].state = "consumed"
      /\ \A i, j \in Sign!Ids : i < j /\ challenges[i].state = "open" => i > challenges[j].seen
  BY DEF SignInGood, SpentOnce, SupersededIfSeen, Sign!Ids
<1>6. QED
  BY <1>3, <1>4, <1>5 DEF Sign!CodesAreSpent

-----------------------------------------------------------------------------
Dispositions == {"", "EXECUTED", "CANCELLED_AS_OBSOLETE"}
Action == [key: Thre!Keys, superseded: BOOLEAN, disposition: Dispositions]

ExecutedEscalations(rows) == {a \in rows : a.key = "ESCALATION" /\ a.disposition = "EXECUTED"}

\* The escalations of a threshold are those of the one action that was executed.
EscalationsOf(rows, made) == made = IF ExecutedEscalations(rows) = {} THEN 0 ELSE 1

ThresholdsGood ==
  /\ Thre!TypeOK
  /\ "state" \in DOMAIN obligation
  /\ actions \subseteq Action
  /\ \A a, b \in actions : a.key = b.key => a = b
  /\ passes \in [Schedulers -> SUBSET Thre!Keys]
  /\ escalations \in [{"ESCALATION", "manual"} -> [open: Nat, acknowledged: Nat]]
  /\ EscalationsOf(actions, escalations["ESCALATION"].open + escalations["ESCALATION"].acknowledged)

-----------------------------------------------------------------------------
(* Thresholds and escalations. *)

\* A recomputation supersedes actions, which keeps what they are about.
LEMMA Recomputed ==
  ASSUME ThresholdsGood, NEW pauses, Thre!Recompute(pauses), UNCHANGED <<passes, escalations>>
  PROVE  ThresholdsGood'
<1> DEFINE After(a) == IF a.disposition = "" THEN [a EXCEPT !.superseded = TRUE] ELSE a
           open == \E p \in pauses : p.until = Forever
<1>1. /\ actions' = {After(a) : a \in actions} /\ clockPauses' = pauses
      /\ obligation'.state = IF obligation.state \notin Thre!OpenStates THEN obligation.state
                             ELSE IF open THEN "PAUSED" ELSE "ACTIVE"
      /\ "state" \in DOMAIN obligation'
  BY DEF Thre!Recompute
<1>2. \A a \in Action : /\ After(a) \in Action /\ After(a).key = a.key
                        /\ After(a).disposition = a.disposition
  BY DEF Action
<1> HIDE DEF After
<1>3. actions' \subseteq Action
  BY <1>1, <1>2 DEF ThresholdsGood
<1>4. \A a, b \in actions' : a.key = b.key => a = b
  BY <1>1, <1>2 DEF ThresholdsGood
<1>5. (ExecutedEscalations(actions') = {}) = (ExecutedEscalations(actions) = {})
  BY <1>1, <1>2 DEF ThresholdsGood, ExecutedEscalations
<1>6. EscalationsOf(actions', escalations["ESCALATION"].open + escalations["ESCALATION"].acknowledged)
  BY <1>5 DEF ThresholdsGood, EscalationsOf
<1>7. Thre!TypeOK'
  <2>1. \A a \in actions' : a.disposition \in Dispositions
    BY <1>3 DEF Action
  <2>2. /\ obligation'.state \in Thre!OpenStates \cup {"CLOSED"}
        /\ obligation'.state = "PAUSED" => open
    <3>1. CASE obligation.state \notin Thre!OpenStates
      BY <1>1, <3>1 DEF ThresholdsGood, Thre!TypeOK, Thre!OpenStates
    <3>2. CASE obligation.state \in Thre!OpenStates
      BY <1>1, <3>2 DEF Thre!OpenStates
    <3>3. QED
      BY <3>1, <3>2
  <2>3. QED
    BY <1>1, <2>1, <2>2 DEF Thre!TypeOK, Dispositions
<1>8. QED
  BY <1>1, <1>3, <1>4, <1>6, <1>7 DEF ThresholdsGood

\* Schedulers, jobs, holds and supervisors: one action of a key and one escalation of it.
LEMMA ThresholdsKept == ThresholdsGood /\ [Thre!Next]_thresholdRows => ThresholdsGood'
<1> SUFFICES ASSUME ThresholdsGood, [Thre!Next]_thresholdRows PROVE ThresholdsGood'
  OBVIOUS
<1>1. ASSUME UNCHANGED <<obligation, clockPauses, actions, escalations>>,
             passes' \in [Schedulers -> SUBSET Thre!Keys]
      PROVE  ThresholdsGood'
  BY <1>1 DEF ThresholdsGood, Thre!TypeOK
<1>2. CASE Thre!PassTime
  BY <1>1, <1>2 DEF Thre!PassTime, ThresholdsGood
<1>3. ASSUME NEW from, NEW until, Thre!CreateHold(from, until)
      PROVE  ThresholdsGood'
  BY <1>3, Recomputed DEF Thre!CreateHold
<1>4. CASE Thre!ReleaseHold
  <2>1. UNCHANGED <<passes, escalations>> /\ (UNCHANGED <<obligation, clockPauses, actions>>
                                              \/ \E pauses : Thre!Recompute(pauses))
    BY <1>4 DEF Thre!ReleaseHold
  <2>2. QED
    BY <1>1, <2>1, Recomputed DEF ThresholdsGood
<1>5. CASE Thre!CloseObligation
  BY <1>5 DEF Thre!CloseObligation, ThresholdsGood, Thre!TypeOK, Thre!OpenStates
<1>6. ASSUME NEW s \in Schedulers, Thre!ScanDueObligations(s) \/ Thre!StopScheduler(s)
      PROVE  ThresholdsGood'
  <2>1. UNCHANGED <<obligation, clockPauses, actions, escalations>>
    BY <1>6 DEF Thre!ScanDueObligations, Thre!StopScheduler
  <2>2. \E K \in SUBSET Thre!Keys : passes' = [passes EXCEPT ![s] = K]
    <3>1. CASE Thre!ScanDueObligations(s)
      BY <3>1 DEF Thre!ScanDueObligations
    <3>2. CASE Thre!StopScheduler(s)
      BY <3>2 DEF Thre!StopScheduler
    <3>3. QED
      BY <1>6, <3>1, <3>2
  <2>3. QED
    BY <1>1, <2>1, <2>2 DEF ThresholdsGood
<1>7. ASSUME NEW s \in Schedulers, NEW k \in passes[s], Thre!CreateAction(s, k)
      PROVE  ThresholdsGood'
  <2> DEFINE new == [key |-> k, superseded |-> FALSE, disposition |-> ""]
  <2>1. /\ passes' = [passes EXCEPT ![s] = @ \ {k}]
        /\ actions' = IF Thre!Missing(k) THEN actions \cup {new} ELSE actions
        /\ UNCHANGED <<obligation, clockPauses, escalations>>
    BY <1>7 DEF Thre!CreateAction
  <2>2. passes' \in [Schedulers -> SUBSET Thre!Keys] /\ k \in Thre!Keys
    BY <2>1 DEF ThresholdsGood
  <2>3. CASE Thre!Missing(k)
    <3>1. new \in Action /\ new.key = k /\ new.disposition = ""
      BY <2>2 DEF Action, Dispositions
    <3> HIDE DEF new
    <3>2. actions' = actions \cup {new}
      BY <2>1, <2>3
    <3>3. \A a, b \in actions' : a.key = b.key => a = b
      BY <2>3, <3>1, <3>2 DEF ThresholdsGood, Thre!Missing
    <3>4. ExecutedEscalations(actions') = ExecutedEscalations(actions)
      BY <3>1, <3>2 DEF ExecutedEscalations
    <3>5. \A a \in actions' : a.disposition \in Dispositions
      BY <3>1, <3>2 DEF ThresholdsGood, Action
    <3>6. QED
      BY <2>1, <2>2, <3>1, <3>2, <3>3, <3>4, <3>5 DEF ThresholdsGood, Thre!TypeOK, EscalationsOf, Dispositions
  <2>4. CASE ~Thre!Missing(k)
    BY <1>1, <2>1, <2>2, <2>4
  <2>5. QED
    BY <2>3, <2>4
<1>8. ASSUME NEW a \in actions, Thre!RunThreshold(a)
      PROVE  ThresholdsGood'
  <2> DEFINE acts == obligation.state = "ACTIVE" /\ ~a.superseded
             done == [a EXCEPT !.disposition = IF acts THEN "EXECUTED" ELSE "CANCELLED_AS_OBSOLETE"]
             esc == escalations["ESCALATION"]
  <2>1. /\ a.disposition = "" /\ actions' = (actions \ {a}) \cup {done}
        /\ escalations' = IF acts /\ a.key = "ESCALATION"
                          THEN [escalations EXCEPT !["ESCALATION"].open = @ + 1] ELSE escalations
        /\ UNCHANGED <<obligation, clockPauses, passes>>
    BY <1>8 DEF Thre!RunThreshold
  <2>2. /\ a \in Action /\ done \in Action /\ done.key = a.key
        /\ done.disposition = IF acts THEN "EXECUTED" ELSE "CANCELLED_AS_OBSOLETE"
    BY DEF ThresholdsGood, Action, Dispositions
  <2> HIDE DEF done
  <2>3. /\ actions' \subseteq Action
        /\ \A x, y \in actions' : x.key = y.key => x = y
        /\ \A x \in actions' : x.disposition \in Dispositions
    <3>1. actions' \subseteq Action
      BY <2>1, <2>2 DEF ThresholdsGood
    <3>2. \A x \in actions \ {a} : x.key # a.key
      BY DEF ThresholdsGood
    <3>3. \A x, y \in actions' : x.key = y.key => x = y
      BY <2>1, <2>2, <3>2 DEF ThresholdsGood
    <3>4. QED
      BY <3>1, <3>3 DEF Action
  <2>4. CASE acts /\ a.key = "ESCALATION"
    <3>1. ExecutedEscalations(actions) = {}
      BY <2>1, <2>4 DEF ThresholdsGood, ExecutedEscalations
    <3>2. done \in ExecutedEscalations(actions')
      BY <2>1, <2>2, <2>4 DEF ExecutedEscalations
    <3>3. esc.open + esc.acknowledged = 0 /\ esc \in [open: Nat, acknowledged: Nat]
      BY <3>1 DEF ThresholdsGood, EscalationsOf
    <3>4. escalations' = [escalations EXCEPT !["ESCALATION"].open = @ + 1]
      BY <2>1, <2>4
    <3>5. /\ escalations' \in [{"ESCALATION", "manual"} -> [open: Nat, acknowledged: Nat]]
          /\ escalations'["ESCALATION"].open = esc.open + 1
          /\ escalations'["ESCALATION"].acknowledged = esc.acknowledged
      BY <3>4 DEF ThresholdsGood
    <3>6. escalations'["ESCALATION"].open + escalations'["ESCALATION"].acknowledged = 1
      BY <3>3, <3>5
    <3>7. EscalationsOf(actions', escalations'["ESCALATION"].open + escalations'["ESCALATION"].acknowledged)
      BY <3>2, <3>6 DEF EscalationsOf
    <3>8. QED
      BY <2>1, <2>3, <3>5, <3>7 DEF ThresholdsGood, Thre!TypeOK, Dispositions
  <2>5. CASE ~(acts /\ a.key = "ESCALATION")
    <3>1. ExecutedEscalations(actions') = ExecutedEscalations(actions)
      BY <2>1, <2>2, <2>5 DEF ExecutedEscalations
    <3>2. escalations' = escalations
      BY <2>1, <2>5
    <3>3. QED
      BY <2>1, <2>3, <3>1, <3>2 DEF ThresholdsGood, Thre!TypeOK, EscalationsOf, Dispositions
  <2>6. QED
    BY <2>4, <2>5
<1>9. CASE Thre!CreateEscalation
  <2>1. /\ escalations' = [escalations EXCEPT !["manual"].open = @ + 1]
        /\ UNCHANGED <<obligation, clockPauses, actions, passes>>
    BY <1>9 DEF Thre!CreateEscalation
  <2>2. /\ escalations' \in [{"ESCALATION", "manual"} -> [open: Nat, acknowledged: Nat]]
        /\ escalations'["ESCALATION"] = escalations["ESCALATION"]
    BY <2>1 DEF ThresholdsGood
  <2>3. QED
    BY <2>1, <2>2 DEF ThresholdsGood, Thre!TypeOK
<1>10. ASSUME NEW origin \in DOMAIN escalations, Thre!AcknowledgeEscalation(origin)
       PROVE  ThresholdsGood'
  <2>1. /\ escalations[origin].open > 0
        /\ escalations' = [escalations EXCEPT ![origin] = [open |-> escalations[origin].open - 1,
                                                           acknowledged |-> escalations[origin].acknowledged + 1]]
        /\ UNCHANGED <<obligation, clockPauses, actions, passes>>
    BY <1>10 DEF Thre!AcknowledgeEscalation
  <2>2. /\ escalations[origin] \in [open: Nat, acknowledged: Nat]
        /\ origin \in {"ESCALATION", "manual"}
    BY DEF ThresholdsGood
  <2>3. PICK n, m : n = escalations[origin].open /\ m = escalations[origin].acknowledged
    OBVIOUS
  <2>4. n \in Nat /\ m \in Nat /\ n - 1 \in Nat /\ (n - 1) + (m + 1) = n + m
    BY <2>1, <2>2, <2>3
  <2>5. escalations' \in [{"ESCALATION", "manual"} -> [open: Nat, acknowledged: Nat]]
    BY <2>1, <2>2, <2>3, <2>4 DEF ThresholdsGood
  <2>6. escalations'["ESCALATION"].open + escalations'["ESCALATION"].acknowledged
          = escalations["ESCALATION"].open + escalations["ESCALATION"].acknowledged
    <3>1. CASE origin = "ESCALATION"
      BY <2>1, <2>2, <2>3, <2>4, <3>1 DEF ThresholdsGood
    <3>2. CASE origin # "ESCALATION"
      BY <2>1, <2>2, <3>2 DEF ThresholdsGood
    <3>3. QED
      BY <3>1, <3>2
  <2>7. QED
    BY <2>1, <2>5, <2>6 DEF ThresholdsGood, Thre!TypeOK
<1>11. CASE UNCHANGED thresholdRows
  BY <1>1, <1>11 DEF thresholdRows, ThresholdsGood
<1>12. QED
  BY <1>2, <1>3, <1>4, <1>5, <1>6, <1>7, <1>8, <1>9, <1>10, <1>11 DEF Thre!Next

\* The clock starts with no action and no escalation.
LEMMA ThresholdsStart == Thre!Init => ThresholdsGood
BY DEF Thre!Init, ThresholdsGood, Thre!TypeOK, Thre!OpenStates, EscalationsOf, ExecutedEscalations

\* One action of a key at most, and one escalation of an executed action.
LEMMA OneOfAKey == ThresholdsGood => Thre!ThresholdOnce
<1> SUFFICES ASSUME ThresholdsGood PROVE Thre!ThresholdOnce
  OBVIOUS
<1>1. ASSUME NEW S, S \subseteq actions, \A a, b \in S : a = b
      PROVE  Thre!Cardinality(S) = IF S = {} THEN 0 ELSE 1
  <2>1. CASE S = {}
    <3>1. IsFiniteSet({}) /\ Cardinality({}) = 0
      BY FS_EmptySet
    <3>2. Thre!Cardinality({}) = Cardinality({})
      BY <3>1 DEF Thre!Cardinality, Cardinality, IsFiniteSet
    <3>3. QED
      BY <2>1, <3>1, <3>2
  <2>2. CASE S # {}
    <3>1. PICK a : S = {a}
      BY <1>1, <2>2
    <3>2. IsFiniteSet({a}) /\ Cardinality({a}) = 1
      BY FS_Singleton
    <3>3. Thre!Cardinality({a}) = Cardinality({a})
      BY <3>2 DEF Thre!Cardinality, Cardinality, IsFiniteSet
    <3>4. QED
      BY <2>2, <3>1, <3>2, <3>3
  <2>3. QED
    BY <2>1, <2>2
<1>2. ASSUME NEW k \in Thre!Keys
      PROVE  Thre!Cardinality({a \in actions : a.key = k}) <= 1
  <2>1. \A a, b \in {a \in actions : a.key = k} : a = b
    BY DEF ThresholdsGood
  <2>2. Thre!Cardinality({a \in actions : a.key = k}) \in {0, 1}
    BY <1>1, <2>1
  <2>3. QED
    BY <2>2
<1>3. escalations["ESCALATION"].open + escalations["ESCALATION"].acknowledged =
        Thre!Cardinality({a \in actions : a.key = "ESCALATION" /\ a.disposition = "EXECUTED"})
  <2>1. \A a, b \in ExecutedEscalations(actions) : a = b
    BY DEF ThresholdsGood, ExecutedEscalations
  <2>2. Thre!Cardinality(ExecutedEscalations(actions)) = IF ExecutedEscalations(actions) = {} THEN 0 ELSE 1
    BY <1>1, <2>1 DEF ExecutedEscalations
  <2>3. escalations["ESCALATION"].open + escalations["ESCALATION"].acknowledged
          = Thre!Cardinality(ExecutedEscalations(actions))
    BY <2>2 DEF ThresholdsGood, EscalationsOf
  <2>4. QED
    BY <2>3 DEF ExecutedEscalations
<1>4. QED
  BY <1>2, <1>3 DEF Thre!ThresholdOnce

-----------------------------------------------------------------------------
(* The clock of an obligation. *)

\* The pauses are finitely many spans, and the due instant is computed from them.
ClockGood ==
  /\ clockNow \in Nat /\ clockNow > 0
  /\ IsFiniteSet(clockPauses) /\ clockPauses \subseteq PauseRow
  /\ {"state", "due"} \subseteq DOMAIN obligation
  /\ obligation.due = Thre!DueInstant(StartedAt, Budget, clockPauses)

\* A recomputation computes the due instant anew.
LEMMA DueRecomputed ==
  ASSUME ClockGood, NEW pauses, IsFiniteSet(pauses), pauses \subseteq PauseRow, Thre!Recompute(pauses), UNCHANGED clockNow
  PROVE  ClockGood'
<1>1. /\ clockPauses' = pauses
      /\ obligation'.due = Thre!DueInstant(StartedAt, Budget, pauses)
      /\ {"state", "due"} \subseteq DOMAIN obligation'
  BY DEF Thre!Recompute
<1>2. QED
  BY <1>1 DEF ClockGood

\* Holds, their releases and everything else keep the due instant that of the pauses.
LEMMA ClockKept == ClockGood /\ [Thre!Next]_thresholdRows => ClockGood'
<1> SUFFICES ASSUME ClockGood, [Thre!Next]_thresholdRows PROVE ClockGood'
  OBVIOUS
<1>1. ASSUME UNCHANGED <<obligation, clockPauses>>, clockNow' \in Nat, clockNow' > 0
      PROVE  ClockGood'
  BY <1>1 DEF ClockGood
<1>2. CASE Thre!PassTime
  BY <1>1, <1>2 DEF Thre!PassTime, ClockGood
<1>3. ASSUME NEW from \in {clockNow - 1, clockNow} \ {0}, NEW until \in {clockNow + 1, Forever}, Thre!CreateHold(from, until)
      PROVE  ClockGood'
  <2>1. PICK p : p = [from |-> from, until |-> until]
    OBVIOUS
  <2>2. p \in PauseRow
    BY <1>3, <2>1, CalendarFacts DEF ClockGood, PauseRow
  <2>3. IsFiniteSet(clockPauses \cup {p}) /\ clockPauses \cup {p} \subseteq PauseRow
    BY <2>2, FS_AddElement DEF ClockGood
  <2>4. Thre!Recompute(clockPauses \cup {p}) /\ UNCHANGED clockNow
    BY <1>3, <2>1 DEF Thre!CreateHold
  <2>5. QED
    BY <2>3, <2>4, DueRecomputed
<1>4. CASE Thre!ReleaseHold
  <2>1. PICK open : open = {p \in clockPauses : p.until = Forever}
    OBVIOUS
  <2>2. CASE open = {}
    <3>1. UNCHANGED <<obligation, clockPauses, clockNow>>
      BY <1>4, <2>1, <2>2 DEF Thre!ReleaseHold
    <3>2. QED
      BY <1>1, <3>1 DEF ClockGood
  <2>3. CASE open # {}
    <3>1. PICK closed : closed = {[p EXCEPT !.until = clockNow] : p \in open}
      OBVIOUS
    <3>2. open \in SUBSET clockPauses
      BY <2>1
    <3>3. IsFiniteSet(open) /\ IsFiniteSet(clockPauses \ open)
      BY <3>2, FS_Subset, FS_Difference DEF ClockGood
    <3>4. closed \subseteq PauseRow
      BY <3>1, <3>2 DEF ClockGood, PauseRow
    <3>5. IsFiniteSet(closed)
      <4>1. PICK f : f = [p \in open |-> [p EXCEPT !.until = clockNow]]
        OBVIOUS
      <4>2. f \in [open -> closed] /\ \A e \in closed : \E p \in open : f[p] = e
        BY <3>1, <4>1
      <4>3. f \in Surjection(open, closed)
        BY <4>2, Fun_IsSurj
      <4>4. QED
        BY <3>3, <4>3, FS_Surjection
    <3>6. PICK left : left = clockPauses \ open
      OBVIOUS
    <3>7. IsFiniteSet(left \cup closed) /\ left \cup closed \subseteq PauseRow
      <4>1. IsFiniteSet(left)
        BY <3>3, <3>6
      <4>2. left \subseteq PauseRow
        BY <3>6 DEF ClockGood
      <4>3. QED
        BY <3>4, <3>5, <4>1, <4>2, FS_Union
    <3>8. Thre!Recompute(left \cup closed) /\ UNCHANGED clockNow
      BY <1>4, <2>1, <2>3, <3>1, <3>6 DEF Thre!ReleaseHold
    <3>9. QED
      BY <3>7, <3>8, DueRecomputed
  <2>4. QED
    BY <2>2, <2>3
<1>5. CASE Thre!CloseObligation
  BY <1>5 DEF Thre!CloseObligation, ClockGood
<1>6. ASSUME NEW s \in Schedulers, Thre!ScanDueObligations(s) \/ Thre!StopScheduler(s)
      PROVE  ClockGood'
  BY <1>1, <1>6 DEF Thre!ScanDueObligations, Thre!StopScheduler, ClockGood
<1>7. ASSUME NEW s \in Schedulers, NEW k \in passes[s], Thre!CreateAction(s, k)
      PROVE  ClockGood'
  BY <1>1, <1>7 DEF Thre!CreateAction, ClockGood
<1>8. ASSUME NEW a \in actions, Thre!RunThreshold(a)
      PROVE  ClockGood'
  BY <1>1, <1>8 DEF Thre!RunThreshold, ClockGood
<1>9. ASSUME NEW origin \in DOMAIN escalations, Thre!CreateEscalation \/ Thre!AcknowledgeEscalation(origin)
      PROVE  ClockGood'
  BY <1>1, <1>9 DEF Thre!CreateEscalation, Thre!AcknowledgeEscalation, ClockGood
<1>10. CASE Thre!CreateEscalation
  BY <1>1, <1>10 DEF Thre!CreateEscalation, ClockGood
<1>11. CASE UNCHANGED thresholdRows
  BY <1>1, <1>11 DEF thresholdRows, ClockGood
<1>12. QED
  BY <1>2, <1>3, <1>4, <1>5, <1>6, <1>7, <1>8, <1>9, <1>10, <1>11 DEF Thre!Next

\* What is assumed of the obligation.
LEMMA BudgetFacts == StartedAt \in Nat /\ StartedAt > 0 /\ Budget \in Nat /\ Budget > 0
<1>1. Thre!ThresholdsAssumption
  BY ServicesAssumption DEF ServicesAssumption
<1>2. QED
  BY <1>1 DEF Thre!ThresholdsAssumption

\* The clock starts without pauses.
LEMMA ClockStarts == Thre!Init => ClockGood
<1> SUFFICES ASSUME Thre!Init PROVE ClockGood
  OBVIOUS
<1>1. IsFiniteSet({})
  BY FS_EmptySet
<1>2. clockPauses = {} /\ clockNow = StartedAt
  BY DEF Thre!Init
<1>3. obligation.due = Thre!DueInstant(StartedAt, Budget, clockPauses) /\ {"state", "due"} \subseteq DOMAIN obligation
  BY DEF Thre!Init
<1>4. QED
  BY <1>1, <1>2, <1>3, BudgetFacts DEF ClockGood

\* The due instant is the earliest at which active time reaches the budget.
LEMMA DueStands == ClockGood => Thre!DueIsEarliest
<1> SUFFICES ASSUME ClockGood PROVE Thre!DueIsEarliest
  OBVIOUS
<1>1. PICK pauses : pauses = clockPauses /\ IsFiniteSet(pauses) /\ pauses \subseteq PauseRow
  BY DEF ClockGood
<1>2. Thre!DueInstant(StartedAt, Budget, pauses) = Thre!EarliestDue(StartedAt, Budget, pauses)
  BY <1>1, BudgetFacts, DueIsFirst
<1>3. QED
  BY <1>1, <1>2 DEF ClockGood, Thre!DueIsEarliest

-----------------------------------------------------------------------------
SaveRequest == [page: Pages, key: Nat, base: Nat, patch: Drft!Patches \ {Drft!Nothing}]
MaybeRequest == SaveRequest \cup {Drft!NoRequest}
Revision == [content: [Fields -> Values \cup {Blank}], request: MaybeRequest]
Page == [state: {"closed", "open", "blocked"}, pending: Drft!Patches, flight: MaybeRequest, typed: Drft!Patches,
         local: Drft!Patches, key: Nat, latest: 0..MaxRevision, failures: Nat, refused: BOOLEAN, edits: Nat]

DraftTypes ==
  /\ draft \in [status: {"DRAFT", "SUBMITTED"}, revisions: Seq(Revision)]
  /\ Drft!Current \in 1..MaxRevision
  /\ delegation \in {"none", "PROPOSED", "ACTIVE", "REVOKED"}
  /\ wire \subseteq SaveRequest
  /\ answers \subseteq [request: SaveRequest, kind: {"saved", "refused", "conflict"}, revision: 1..MaxRevision]
  /\ pages \in [Pages -> Page]

\* A page sends its own requests, and none while a conflict blocks it.
OwnFlights ==
  \A p \in Pages :
    /\ pages[p].flight # Drft!NoRequest => pages[p].flight.page = p
    /\ pages[p].state = "blocked" => pages[p].flight = Drft!NoRequest /\ pages[p].refused

\* An answer that reports a save names the revision it made.
AnswersTrue ==
  \A a \in answers : a.kind = "saved" =>
    a.revision \in 1..Drft!Current /\ draft.revisions[a.revision].request = a.request

DraftsGood == DraftTypes /\ OwnFlights /\ AnswersTrue /\ Drft!EachSaveOnce /\ Drft!TypedIsKept

-----------------------------------------------------------------------------
(* Drafts. *)

\* A revision a page saved has the value of a key.
SavedBy(p, k, v) ==
  \E n \in 1..Drft!Current :
    /\ draft.revisions[n].request.page = p
    /\ k \in DOMAIN draft.revisions[n].request.patch /\ draft.revisions[n].request.patch[k] = v

\* What was typed into a page that never failed is pending, under way or saved.
Remembers(p, page) ==
  page.failures = 0 /\ ~page.refused =>
    \A k \in DOMAIN page.typed :
      \/ k \in DOMAIN page.pending /\ page.pending[k] = page.typed[k]
      \/ page.flight # Drft!NoRequest /\ k \in DOMAIN page.flight.patch /\ page.flight.patch[k] = page.typed[k]
      \/ SavedBy(p, k, page.typed[k])

\* TypedIsKept says so of every page.
LEMMA AllRemember == Drft!TypedIsKept <=> \A p \in Pages : Remembers(p, pages[p])
BY DEF Drft!TypedIsKept, Remembers, SavedBy, Drft!Idle

\* A page remembers what is typed as long as its fields, its pending patch and the saved
\* rows do.
LEMMA StillRemember ==
  ASSUME \A p \in Pages : Remembers(p, pages[p])'
  PROVE  Drft!TypedIsKept'
BY DEF Drft!TypedIsKept, Remembers, SavedBy, Drft!Idle

\* What the constants are.
LEMMA DraftBounds ==
  MaxRevision \in Nat /\ MaxRevision > 0 /\ "none" \notin Pages
BY ServicesAssumption DEF ServicesAssumption, Drft!DraftsAssumption

\* No edits at all, and some.
LEMMA NoEdits ==
  /\ Drft!Nothing \in Drft!Patches /\ DOMAIN Drft!Nothing = {}
  /\ \A f \in Drft!Patches : f = Drft!Nothing \/ DOMAIN f # {}
  /\ Drft!NoRequest \notin SaveRequest /\ Drft!NoRequest.page = "none"
<1>1. Drft!Nothing \in [{} -> Values] /\ DOMAIN Drft!Nothing = {}
  BY DEF Drft!Nothing
<1>2. Drft!Nothing \in Drft!Patches
  <2>1. {} \in SUBSET Fields
    OBVIOUS
  <2>2. QED
    BY <1>1, <2>1 DEF Drft!Patches
<1>3. ASSUME NEW f \in Drft!Patches, DOMAIN f = {}
      PROVE  f = Drft!Nothing
  <2>1. PICK K \in SUBSET Fields : f \in [K -> Values]
    BY DEF Drft!Patches
  <2>2. f \in [{} -> Values]
    BY <1>3, <2>1
  <2>3. f = [k \in {} |-> f[k]]
    BY <2>2
  <2>4. QED
    BY <2>3 DEF Drft!Nothing
<1>4. Drft!NoRequest.page = "none"
  BY DEF Drft!NoRequest
<1>5. QED
  BY <1>1, <1>2, <1>3, <1>4, DraftBounds DEF SaveRequest

\* Edits over edits are edits, and edits over a content are a content.
LEMMA OverTyped ==
  ASSUME NEW new \in Drft!Patches, NEW old
  PROVE  /\ DOMAIN Drft!Over(new, old) = DOMAIN new \cup DOMAIN old
         /\ \A k \in DOMAIN new : Drft!Over(new, old)[k] = new[k]
         /\ \A k \in DOMAIN old \ DOMAIN new : Drft!Over(new, old)[k] = old[k]
         /\ old \in Drft!Patches => Drft!Over(new, old) \in Drft!Patches
         /\ old \in [Fields -> Values \cup {Blank}] => Drft!Over(new, old) \in [Fields -> Values \cup {Blank}]
<1> DEFINE o == Drft!Over(new, old)
<1>1. /\ DOMAIN o = DOMAIN new \cup DOMAIN old
      /\ \A k \in DOMAIN new : o[k] = new[k]
      /\ \A k \in DOMAIN old \ DOMAIN new : o[k] = old[k]
      /\ o = [k \in DOMAIN new \cup DOMAIN old |-> o[k]]
  BY DEF Drft!Over
<1> HIDE DEF o
<1>2. PICK K \in SUBSET Fields : new \in [K -> Values]
  BY DEF Drft!Patches
<1>3. ASSUME old \in Drft!Patches
      PROVE  o \in Drft!Patches
  <2>1. PICK L \in SUBSET Fields : old \in [L -> Values]
    BY <1>3 DEF Drft!Patches
  <2>2. \A k \in K \cup L : o[k] \in Values
    BY <1>1, <1>2, <2>1
  <2>3. o \in [K \cup L -> Values]
    BY <1>1, <1>2, <2>1, <2>2
  <2>4. K \cup L \in SUBSET Fields
    OBVIOUS
  <2>5. QED
    BY <2>3, <2>4 DEF Drft!Patches
<1>4. ASSUME old \in [Fields -> Values \cup {Blank}]
      PROVE  o \in [Fields -> Values \cup {Blank}]
  <2>1. DOMAIN o = Fields
    BY <1>1, <1>2, <1>4
  <2>2. \A k \in Fields : o[k] \in Values \cup {Blank}
    BY <1>1, <1>2, <1>4
  <2>3. QED
    BY <1>1, <2>1, <2>2
<1>5. QED
  BY <1>1, <1>3, <1>4 DEF o

\* The revisions.
LEMMA Revisions ==
  ASSUME DraftTypes
  PROVE  /\ Drft!Current \in Nat /\ Drft!Current >= 1 /\ Drft!Current <= MaxRevision
         /\ Drft!Current = Len(draft.revisions) /\ draft.revisions \in Seq(Revision)
         /\ DOMAIN draft.revisions = 1..Drft!Current
         /\ \A n \in 1..Drft!Current : draft.revisions[n] \in Revision
         /\ Drft!Content \in [Fields -> Values \cup {Blank}]
<1>1. draft.revisions \in Seq(Revision) /\ Drft!Current \in 1..MaxRevision /\ Drft!Current = Len(draft.revisions)
  BY DEF DraftTypes, Drft!Current
<1>2. Drft!Current \in Nat /\ Drft!Current >= 1 /\ Drft!Current <= MaxRevision
  BY <1>1, DraftBounds
<1>3. DOMAIN draft.revisions = 1..Drft!Current /\ \A n \in 1..Drft!Current : draft.revisions[n] \in Revision
  BY <1>1
<1>4. Drft!Content \in [Fields -> Values \cup {Blank}]
  BY <1>2, <1>3 DEF Drft!Content, Revision
<1>5. QED
  BY <1>1, <1>2, <1>3, <1>4

\* A step of one page, with the request it sends and the answers it takes.
LEMMA PageMoves ==
  ASSUME DraftsGood, NEW p \in Pages, NEW q \in Page, pages' = [pages EXCEPT ![p] = q], UNCHANGED <<draft, delegation>>,
         answers' \subseteq answers, wire' \subseteq wire \cup ({q.flight} \ {Drft!NoRequest}),
         q.flight # Drft!NoRequest => q.flight.page = p,
         q.state = "blocked" => q.flight = Drft!NoRequest /\ q.refused,
         Remembers(p, q)
  PROVE  DraftsGood'
<1>1. /\ pages' \in [Pages -> Page] /\ pages'[p] = q /\ \A x \in Pages \ {p} : pages'[x] = pages[x]
  BY DEF DraftsGood, DraftTypes
<1>2. q.flight \in MaybeRequest
  BY DEF Page
<1>3. wire' \subseteq SaveRequest
  BY <1>2 DEF DraftsGood, DraftTypes, MaybeRequest
<1>4. Drft!Current' = Drft!Current
  BY DEF Drft!Current
<1>5. DraftTypes'
  BY <1>1, <1>3, <1>4 DEF DraftsGood, DraftTypes
<1>6. OwnFlights'
  BY <1>1 DEF DraftsGood, OwnFlights
<1>7. AnswersTrue'
  BY <1>4 DEF DraftsGood, AnswersTrue
<1>8. Drft!EachSaveOnce'
  BY <1>4 DEF DraftsGood, Drft!EachSaveOnce, Drft!Receipts
<1>9. Drft!TypedIsKept'
  <2>1. ASSUME NEW x \in Pages
        PROVE  Remembers(x, pages[x])'
    <3>1. \A k, v : SavedBy(x, k, v)' = SavedBy(x, k, v)
      BY <1>4 DEF SavedBy
    <3>2. CASE x = p
      BY <1>1, <1>4, <3>2 DEF Remembers, SavedBy
    <3>3. CASE x # p
      <4>1. Remembers(x, pages[x])
        BY AllRemember DEF DraftsGood
      <4>2. QED
        BY <1>1, <1>4, <3>3, <4>1 DEF Remembers, SavedBy
    <3>4. QED
      BY <3>2, <3>3
  <2>2. QED
    BY <2>1 DEF Drft!TypedIsKept, Remembers, SavedBy, Drft!Idle
<1>10. QED
  BY <1>5, <1>6, <1>7, <1>8, <1>9 DEF DraftsGood

\* A revision is written on the one before it, by a request that wrote none yet or by another command.
LEMMA RevisionSaved ==
  ASSUME DraftsGood, UNCHANGED <<pages, delegation>>, Drft!Current < MaxRevision,
         NEW c \in [Fields -> Values \cup {Blank}], NEW r \in MaybeRequest,
         draft' = [draft EXCEPT !.revisions = Append(@, [content |-> c, request |-> r])],
         r # Drft!NoRequest => r.base = Drft!Current /\ Drft!Receipts(r) = {} /\ c = Drft!Over(r.patch, Drft!Content),
         wire' \subseteq wire,
         answers' \subseteq answers \cup {[request |-> r, kind |-> "saved", revision |-> Drft!Current + 1]},
         r = Drft!NoRequest => answers' \subseteq answers
  PROVE  DraftsGood'
<1> DEFINE n == Drft!Current
           w == [content |-> c, request |-> r]
<1>1. /\ n \in Nat /\ n >= 1 /\ n = Len(draft.revisions) /\ draft.revisions \in Seq(Revision)
      /\ DOMAIN draft.revisions = 1..n /\ MaxRevision \in Nat
      /\ \A m \in 1..n : draft.revisions[m] \in Revision
      /\ draft \in [status: {"DRAFT", "SUBMITTED"}, revisions: Seq(Revision)]
  BY Revisions, DraftBounds DEF DraftsGood, DraftTypes
<1>2. w \in Revision /\ w.content = c /\ w.request = r
  BY DEF Revision
<1>3. draft'.status = draft.status /\ draft'.revisions = Append(draft.revisions, w)
      /\ draft' \in [status: {"DRAFT", "SUBMITTED"}, revisions: Seq(Revision)]
  <2>1. Append(draft.revisions, w) \in Seq(Revision)
    BY <1>1, <1>2
  <2>2. QED
    BY <1>1, <2>1
<1>4. Drft!Current' = n + 1
  BY <1>1, <1>3 DEF Drft!Current
<1> HIDE DEF n, w
<1>5. /\ \A m \in 1..n : m \in 1..(n + 1) /\ draft'.revisions[m] = draft.revisions[m]
      /\ draft'.revisions[n + 1] = w
      /\ \A m \in 1..(n + 1) : m \in 1..n \/ m = n + 1
      /\ n + 1 \in 1..(n + 1) /\ n + 1 \notin 1..n
  BY <1>1, <1>3
<1>6. DraftTypes'
  <2>1. Drft!Current' \in 1..MaxRevision
    BY <1>1, <1>4 DEF n
  <2>2. answers' \subseteq [request: SaveRequest, kind: {"saved", "refused", "conflict"}, revision: 1..MaxRevision]
    <3>1. CASE r = Drft!NoRequest
      BY <3>1 DEF DraftsGood, DraftTypes
    <3>2. CASE r # Drft!NoRequest
      <4>1. r \in SaveRequest
        BY <3>2 DEF MaybeRequest
      <4>2. n + 1 \in 1..MaxRevision
        BY <1>1 DEF n
      <4>3. QED
        BY <4>1, <4>2 DEF DraftsGood, DraftTypes, n
    <3>3. QED
      BY <3>1, <3>2
  <2>3. QED
    BY <1>3, <2>1, <2>2 DEF DraftsGood, DraftTypes
<1>7. OwnFlights'
  BY DEF DraftsGood, OwnFlights
<1>8. AnswersTrue'
  <2>1. ASSUME NEW a \in answers', a.kind = "saved"
        PROVE  a.revision \in 1..(n + 1) /\ draft'.revisions[a.revision].request = a.request
    <3>1. CASE a \in answers
      <4>1. a.revision \in 1..n /\ draft.revisions[a.revision].request = a.request
        BY <2>1, <3>1 DEF DraftsGood, AnswersTrue, n
      <4>2. QED
        BY <1>5, <4>1
    <3>2. CASE a \notin answers
      <4>1. a = [request |-> r, kind |-> "saved", revision |-> n + 1]
        BY <3>2 DEF n
      <4>2. a.request = r /\ a.revision = n + 1
        BY <4>1
      <4>3. QED
        BY <1>2, <1>5, <4>2
    <3>3. QED
      BY <3>1, <3>2
  <2>2. QED
    BY <1>4, <2>1 DEF AnswersTrue
<1>9. Drft!EachSaveOnce'
  <2>1. ASSUME NEW m \in 2..(n + 1), draft'.revisions[m].request # Drft!NoRequest
        PROVE  /\ draft'.revisions[m].request.base = m - 1
               /\ Drft!Receipts(draft.revisions[m].request)' = {m}
               /\ draft'.revisions[m].content = Drft!Over(draft'.revisions[m].request.patch, draft'.revisions[m - 1].content)
    <3>1. PICK s : s = draft'.revisions[m].request
      OBVIOUS
    <3>2. Drft!Receipts(draft.revisions[m].request)'
            = {k \in 1..(n + 1) : draft'.revisions[k].request.page = s.page /\ draft'.revisions[k].request.key = s.key}
      BY <1>4, <3>1 DEF Drft!Receipts
    <3>3. CASE m = n + 1
      <4>1. s = r /\ r # Drft!NoRequest
        BY <1>2, <1>5, <2>1, <3>1, <3>3
      <4>2. \A k \in 1..n : ~(draft.revisions[k].request.page = r.page /\ draft.revisions[k].request.key = r.key)
        BY <4>1 DEF Drft!Receipts, n
      <4>3. Drft!Receipts(draft.revisions[m].request)' = {m}
        <5>1. \A k \in 1..n : draft'.revisions[k].request = draft.revisions[k].request
          BY <1>5
        <5>2. draft'.revisions[n + 1].request = s /\ s = r
          BY <1>2, <1>5, <4>1
        <5>3. \A k \in 1..(n + 1) :
                (draft'.revisions[k].request.page = s.page /\ draft'.revisions[k].request.key = s.key) <=> k = n + 1
          BY <1>5, <4>2, <5>1, <5>2
        <5>4. {k \in 1..(n + 1) : draft'.revisions[k].request.page = s.page /\ draft'.revisions[k].request.key = s.key}
                = {n + 1}
          BY <1>5, <5>3
        <5>5. QED
          BY <3>2, <3>3, <5>4
      <4>4. m - 1 = n /\ n \in 1..n
        BY <1>1, <3>3
      <4>5. draft'.revisions[m - 1] = draft.revisions[n]
        BY <1>5, <3>3, <4>4
      <4>6. draft.revisions[n].content = Drft!Content
        BY DEF Drft!Content, n
      <4>7. draft'.revisions[m].content = Drft!Over(s.patch, draft'.revisions[m - 1].content)
        BY <1>2, <1>5, <3>3, <4>1, <4>5, <4>6
      <4>8. s.base = m - 1
        BY <3>3, <4>1, <4>4 DEF n
      <4>9. QED
        BY <3>1, <4>3, <4>7, <4>8
    <3>4. CASE m # n + 1
      <4>1. m \in 2..n /\ m \in 1..n /\ m - 1 \in 1..n
        BY <1>1, <2>1, <3>4
      <4>2. draft'.revisions[m] = draft.revisions[m] /\ draft'.revisions[m - 1] = draft.revisions[m - 1]
            /\ s = draft.revisions[m].request /\ s # Drft!NoRequest
        BY <1>5, <2>1, <3>1, <4>1
      <4>3. /\ s.base = m - 1 /\ Drft!Receipts(s) = {m}
            /\ draft.revisions[m].content = Drft!Over(s.patch, draft.revisions[m - 1].content)
        BY <4>1, <4>2 DEF DraftsGood, Drft!EachSaveOnce, n
      <4>4. {k \in 1..n : draft.revisions[k].request.page = s.page /\ draft.revisions[k].request.key = s.key} = {m}
        BY <4>3 DEF Drft!Receipts, n
      <4>5. ~(r.page = s.page /\ r.key = s.key)
        <5>1. CASE r = Drft!NoRequest
          <6>1. s \in SaveRequest
            BY <1>1, <4>1, <4>2 DEF Revision, MaybeRequest
          <6>2. QED
            BY <5>1, <6>1, NoEdits, DraftBounds DEF SaveRequest
        <5>2. CASE r # Drft!NoRequest
          <6>1. m \notin Drft!Receipts(r)
            BY <5>2
          <6>2. QED
            BY <4>1, <4>2, <6>1 DEF Drft!Receipts, n
        <5>3. QED
          BY <5>1, <5>2
      <4>6. Drft!Receipts(draft.revisions[m].request)' = {m}
        BY <1>2, <1>5, <3>2, <4>1, <4>4, <4>5
      <4>7. QED
        BY <3>1, <4>2, <4>3, <4>6
    <3>5. QED
      BY <3>3, <3>4
  <2>2. QED
    BY <1>4, <2>1 DEF Drft!EachSaveOnce
<1>10. Drft!TypedIsKept'
  <2>1. ASSUME NEW p, NEW k, NEW v, SavedBy(p, k, v)
        PROVE  SavedBy(p, k, v)'
    BY <1>4, <1>5, <2>1 DEF SavedBy, n
  <2>2. ASSUME NEW p \in Pages
        PROVE  Remembers(p, pages[p])'
    <3>1. Remembers(p, pages[p])
      BY AllRemember DEF DraftsGood
    <3>2. PICK page : page = pages[p]
      OBVIOUS
    <3>3. \A k : SavedBy(p, k, page.typed[k]) => SavedBy(p, k, page.typed[k])'
      BY <2>1
    <3>4. QED
      BY <3>1, <3>2, <3>3 DEF Remembers
  <2>3. QED
    BY <2>2, StillRemember
<1>11. QED
  BY <1>6, <1>7, <1>8, <1>9, <1>10 DEF DraftsGood

\* A step of the server that answers without writing.
LEMMA Answered ==
  ASSUME DraftsGood, UNCHANGED <<pages, delegation>>, NEW status \in {"DRAFT", "SUBMITTED"},
         draft' = [draft EXCEPT !.status = status],
         wire' \subseteq wire, NEW r \in SaveRequest, NEW kind \in {"saved", "refused", "conflict"}, NEW m \in 1..Drft!Current,
         kind = "saved" => draft.revisions[m].request = r,
         answers' \subseteq answers \cup {[request |-> r, kind |-> kind, revision |-> m]}
  PROVE  DraftsGood'
<1>1. /\ draft \in [status: {"DRAFT", "SUBMITTED"}, revisions: Seq(Revision)]
      /\ Drft!Current \in Nat /\ Drft!Current <= MaxRevision /\ MaxRevision \in Nat
  BY Revisions, DraftBounds DEF DraftsGood, DraftTypes
<1>2. draft'.revisions = draft.revisions /\ draft' \in [status: {"DRAFT", "SUBMITTED"}, revisions: Seq(Revision)]
  BY <1>1
<1>3. Drft!Current' = Drft!Current
  BY <1>2 DEF Drft!Current
<1>4. DraftTypes'
  <2>1. m \in 1..MaxRevision
    BY <1>1
  <2>2. answers' \subseteq [request: SaveRequest, kind: {"saved", "refused", "conflict"}, revision: 1..MaxRevision]
    BY <2>1 DEF DraftsGood, DraftTypes
  <2>3. QED
    BY <1>2, <1>3, <2>2 DEF DraftsGood, DraftTypes
<1>5. OwnFlights' /\ AnswersTrue'
  BY <1>2, <1>3 DEF DraftsGood, OwnFlights, AnswersTrue
<1>6. Drft!EachSaveOnce' /\ Drft!TypedIsKept'
  BY <1>2, <1>3 DEF DraftsGood, Drft!EachSaveOnce, Drft!Receipts, Drft!TypedIsKept, Drft!Idle
<1>7. QED
  BY <1>4, <1>5, <1>6 DEF DraftsGood

\* A page that takes up its pending edits sends all of them and forgets none.
LEMMA FlushedPage ==
  ASSUME NEW p \in Pages, NEW page \in Page, page.state = "blocked" => page.refused,
         page.failures = 0 /\ ~page.refused =>
           \A k \in DOMAIN page.typed :
             \/ k \in DOMAIN page.pending /\ page.pending[k] = page.typed[k]
             \/ SavedBy(p, k, page.typed[k])
  PROVE  LET q == Drft!Flushed(p, page)
         IN /\ q \in Page /\ q.state = page.state
            /\ q.flight # Drft!NoRequest => q.flight.page = p
            /\ q.state = "blocked" => q.flight = Drft!NoRequest /\ q.refused
            /\ page.pending # Drft!Nothing /\ page.state # "blocked" => q.flight \in SaveRequest
            /\ Remembers(p, q)
<1> DEFINE q == Drft!Flushed(p, page)
           r == [page |-> p, key |-> page.key, base |-> page.latest, patch |-> page.pending]
<1>1. CASE page.pending = Drft!Nothing \/ page.state = "blocked"
  <2>1. q = [page EXCEPT !.flight = Drft!NoRequest]
    BY <1>1 DEF Drft!Flushed
  <2>2. /\ q \in Page /\ q.flight = Drft!NoRequest /\ q.state = page.state /\ q.refused = page.refused
        /\ q.failures = page.failures /\ q.typed = page.typed /\ q.pending = page.pending
    BY <2>1 DEF Page, MaybeRequest
  <2>3. QED
    BY <1>1, <2>2 DEF Remembers
<1>2. CASE ~(page.pending = Drft!Nothing \/ page.state = "blocked")
  <2>1. q = [page EXCEPT !.pending = Drft!Nothing, !.flight = r]
    BY <1>2 DEF Drft!Flushed
  <2>2. r \in SaveRequest /\ r.page = p /\ r.patch = page.pending
    <3>1. page.latest \in Nat /\ page.key \in Nat /\ page.pending \in Drft!Patches
      BY DraftBounds DEF Page
    <3>2. QED
      BY <1>2, <3>1 DEF SaveRequest
  <2> HIDE DEF r
  <2>3. /\ q \in Page /\ q.flight = r /\ q.state = page.state /\ q.refused = page.refused
        /\ q.failures = page.failures /\ q.typed = page.typed
    BY <2>1, <2>2, NoEdits DEF Page, MaybeRequest
  <2>4. r # Drft!NoRequest
    BY <2>2, NoEdits
  <2>5. Remembers(p, q)
    BY <2>2, <2>3, <2>4 DEF Remembers
  <2>6. QED
    BY <1>2, <2>2, <2>3, <2>5
<1>3. QED
  BY <1>1, <1>2

\* A page becomes what it is once it has flushed, and its request goes out.
LEMMA Flushes ==
  ASSUME DraftsGood, NEW p \in Pages, NEW page \in Page, page.state = "blocked" => page.refused,
         page.failures = 0 /\ ~page.refused =>
           \A k \in DOMAIN page.typed :
             \/ k \in DOMAIN page.pending /\ page.pending[k] = page.typed[k]
             \/ SavedBy(p, k, page.typed[k]),
         NEW s, s = Drft!Flushed(p, page) \/ s = [Drft!Flushed(p, page) EXCEPT !.state = "closed"],
         UNCHANGED <<draft, delegation>>, answers' \subseteq answers,
         pages' = [pages EXCEPT ![p] = s],
         wire' \subseteq wire \cup ({s.flight} \ {Drft!NoRequest})
  PROVE  DraftsGood'
<1>1. PICK q : q = Drft!Flushed(p, page)
  OBVIOUS
<1>2. /\ q \in Page
      /\ q.flight # Drft!NoRequest => q.flight.page = p
      /\ q.state = "blocked" => q.flight = Drft!NoRequest /\ q.refused
      /\ Remembers(p, q)
  BY <1>1, FlushedPage
<1>3. /\ s \in Page /\ s.flight = q.flight /\ s.refused = q.refused /\ s.failures = q.failures
      /\ s.typed = q.typed /\ s.pending = q.pending /\ s.state \in {"closed", q.state}
  BY <1>1, <1>2 DEF Page
<1>4. Remembers(p, s)
  BY <1>2, <1>3 DEF Remembers
<1>5. QED
  BY <1>2, <1>3, <1>4, PageMoves

\* Commands, delegations and pages keep a draft and what was typed into it.
LEMMA DraftsKept == DraftsGood /\ [Drft!Next]_draftRows => DraftsGood'
<1> SUFFICES ASSUME DraftsGood, [Drft!Next]_draftRows PROVE DraftsGood'
  OBVIOUS
<1>a. \A p \in Pages : pages[p] \in Page /\ Remembers(p, pages[p])
  BY AllRemember DEF DraftsGood, DraftTypes
<1>b. Drft!Current \in Nat /\ Drft!Current >= 1 /\ Drft!Current \in 1..Drft!Current /\ Drft!Current \in 1..MaxRevision
  BY Revisions, DraftBounds DEF DraftsGood
<1>1. CASE Drft!ProposeDelegation \/ Drft!ConfirmDelegation \/ Drft!RevokeDelegation \/ Drft!PassDay
  <2>1. UNCHANGED <<draft, pages, wire, answers>> /\ delegation' \in {"none", "PROPOSED", "ACTIVE", "REVOKED"}
    BY <1>1 DEF Drft!ProposeDelegation, Drft!ConfirmDelegation, Drft!RevokeDelegation, Drft!PassDay, DraftsGood, DraftTypes
  <2>2. Drft!Current' = Drft!Current
    BY <2>1 DEF Drft!Current
  <2>3. DraftTypes' /\ OwnFlights' /\ AnswersTrue'
    BY <2>1, <2>2 DEF DraftsGood, DraftTypes, OwnFlights, AnswersTrue
  <2>4. Drft!EachSaveOnce' /\ Drft!TypedIsKept'
    BY <2>1, <2>2 DEF DraftsGood, Drft!EachSaveOnce, Drft!Receipts, Drft!TypedIsKept, Drft!Idle
  <2>5. QED
    BY <2>3, <2>4 DEF DraftsGood
<1>2. ASSUME NEW r \in wire, Drft!PatchDraft(r)
      PROVE  DraftsGood'
  <2>1. /\ r \in SaveRequest /\ wire' \subseteq wire /\ UNCHANGED <<pages, delegation>>
    BY <1>2 DEF Drft!PatchDraft, DraftsGood, DraftTypes
  <2>2. \A kind, m : Drft!Answer(r, kind, m) => answers' \subseteq answers \cup {[request |-> r, kind |-> kind, revision |-> m]}
    BY DEF Drft!Answer
  <2>3. draft.status \in {"DRAFT", "SUBMITTED"} /\ (UNCHANGED draft => draft' = [draft EXCEPT !.status = draft.status])
    BY DEF DraftsGood, DraftTypes
  <2>4. CASE UNCHANGED draft
    <3>1. PICK kind \in {"saved", "refused", "conflict"}, m \in 1..Drft!Current :
            Drft!Answer(r, kind, m) /\ (kind = "saved" => draft.revisions[m].request = r)
      <4>1. CASE \E n \in Drft!Receipts(r) :
                   Drft!Answer(r, IF draft.revisions[n].request = r THEN "saved" ELSE "refused", n)
        <5>1. PICK n \in Drft!Receipts(r) :
                Drft!Answer(r, IF draft.revisions[n].request = r THEN "saved" ELSE "refused", n)
          BY <4>1
        <5>2. n \in 1..Drft!Current
          BY <5>1 DEF Drft!Receipts
        <5>3. CASE draft.revisions[n].request = r
          BY <5>1, <5>2, <5>3
        <5>4. CASE draft.revisions[n].request # r
          BY <5>1, <5>2, <5>4
        <5>5. QED
          BY <5>3, <5>4
      <4>2. CASE Drft!Answer(r, "refused", Drft!Current)
        BY <1>b, <4>2
      <4>3. CASE Drft!Answer(r, "conflict", Drft!Current)
        BY <1>b, <4>3
      <4>4. CASE Drft!Current < MaxRevision /\ Drft!SaveRevision(Drft!Over(r.patch, Drft!Content), r)
        <5>1. draft'.revisions = Append(draft.revisions, [content |-> Drft!Over(r.patch, Drft!Content), request |-> r])
          BY <4>4 DEF Drft!SaveRevision, DraftsGood, DraftTypes
        <5>2. Len(draft'.revisions) = Len(draft.revisions) + 1 /\ Len(draft.revisions) \in Nat
          BY <5>1 DEF DraftsGood, DraftTypes
        <5>3. QED
          BY <2>4, <5>2
      <4>5. QED
        BY <1>2, <4>1, <4>2, <4>3, <4>4 DEF Drft!PatchDraft
    <3>2. QED
      BY <2>1, <2>2, <2>3, <2>4, <3>1, Answered
  <2>5. CASE ~UNCHANGED draft
    <3>1. /\ Drft!Receipts(r) = {} /\ ~Drft!ConflictsWith(r) /\ Drft!Current < MaxRevision
          /\ Drft!SaveRevision(Drft!Over(r.patch, Drft!Content), r) /\ Drft!Answer(r, "saved", Drft!Current + 1)
      BY <1>2, <2>5 DEF Drft!PatchDraft
    <3>2. Drft!Over(r.patch, Drft!Content) \in [Fields -> Values \cup {Blank}]
      BY <2>1, OverTyped, Revisions DEF DraftsGood, SaveRequest
    <3>3. r.base = Drft!Current
      BY <3>1 DEF Drft!ConflictsWith
    <3>4. r \in MaybeRequest /\ r # Drft!NoRequest
      BY <2>1, NoEdits DEF MaybeRequest
    <3>5. draft' = [draft EXCEPT !.revisions = Append(@, [content |-> Drft!Over(r.patch, Drft!Content), request |-> r])]
      BY <3>1 DEF Drft!SaveRevision
    <3>6. QED
      BY <2>1, <2>2, <3>1, <3>2, <3>3, <3>4, <3>5, RevisionSaved
  <2>6. QED
    BY <2>4, <2>5
<1>3. ASSUME NEW k \in Fields, Drft!DetachDraftDocument(k)
      PROVE  DraftsGood'
  <2>1. [Drft!Content EXCEPT ![k] = Blank] \in [Fields -> Values \cup {Blank}]
    BY Revisions DEF DraftsGood
  <2>2. draft' = [draft EXCEPT !.revisions = Append(@, [content |-> [Drft!Content EXCEPT ![k] = Blank], request |-> Drft!NoRequest])]
    BY <1>3 DEF Drft!DetachDraftDocument, Drft!SaveRevision
  <2>3. UNCHANGED <<pages, wire, answers, delegation>> /\ Drft!Current < MaxRevision
    BY <1>3 DEF Drft!DetachDraftDocument
  <2>4. Drft!NoRequest \in MaybeRequest
    BY DEF MaybeRequest
  <2>5. QED
    BY <2>1, <2>2, <2>3, <2>4, RevisionSaved
<1>4. ASSUME NEW p \in Pages, Drft!OpenPage(p)
      PROVE  DraftsGood'
  <2>1. PICK page : page = [pages[p] EXCEPT !.state = "open", !.latest = Drft!Current]
    OBVIOUS
  <2>2. /\ page \in Page /\ page.flight = pages[p].flight /\ page.state = "open" /\ page.typed = pages[p].typed
        /\ page.pending = pages[p].pending /\ page.failures = pages[p].failures /\ page.refused = pages[p].refused
    <3>1. Drft!Current \in 0..MaxRevision
      BY <1>b, DraftBounds
    <3>2. QED
      BY <1>a, <2>1, <3>1 DEF Page
  <2>3. pages' = [pages EXCEPT ![p] = page] /\ UNCHANGED <<draft, wire, answers, delegation>>
    BY <1>4, <2>1 DEF Drft!OpenPage, DraftsGood, DraftTypes
  <2>4. Remembers(p, page)
    BY <1>a, <2>2 DEF Remembers
  <2>5. page.flight # Drft!NoRequest => page.flight.page = p
    BY <2>2 DEF DraftsGood, OwnFlights
  <2>6. QED
    BY <2>2, <2>3, <2>4, <2>5, PageMoves
<1>5. ASSUME NEW p \in Pages, NEW k \in Fields, NEW v \in Values, Drft!Edit(p, k, v)
      PROVE  DraftsGood'
  <2>1. PICK e : e = [x \in {k} |-> v]
    OBVIOUS
  <2>2. e \in Drft!Patches /\ DOMAIN e = {k} /\ e[k] = v
    <3>1. e \in [{k} -> Values] /\ {k} \in SUBSET Fields
      BY <2>1
    <3>2. QED
      BY <2>1, <3>1 DEF Drft!Patches
  <2>3. PICK pending, typed : pending = Drft!Over(e, pages[p].pending) /\ typed = Drft!Over(e, pages[p].typed)
    OBVIOUS
  <2>4. /\ pending \in Drft!Patches /\ typed \in Drft!Patches
        /\ DOMAIN typed = {k} \cup DOMAIN pages[p].typed /\ typed[k] = v
        /\ \A x \in DOMAIN pages[p].typed \ {k} : typed[x] = pages[p].typed[x]
        /\ DOMAIN pending = {k} \cup DOMAIN pages[p].pending /\ pending[k] = v
        /\ \A x \in DOMAIN pages[p].pending \ {k} : pending[x] = pages[p].pending[x]
    <3>1. pages[p].pending \in Drft!Patches /\ pages[p].typed \in Drft!Patches
      BY <1>a DEF Page
    <3>2. \A old \in Drft!Patches :
            /\ Drft!Over(e, old) \in Drft!Patches /\ DOMAIN Drft!Over(e, old) = {k} \cup DOMAIN old
            /\ Drft!Over(e, old)[k] = v
            /\ \A x \in DOMAIN old \ {k} : Drft!Over(e, old)[x] = old[x]
      <4>1. SUFFICES ASSUME NEW old \in Drft!Patches
                     PROVE  /\ Drft!Over(e, old) \in Drft!Patches /\ DOMAIN Drft!Over(e, old) = {k} \cup DOMAIN old
                            /\ Drft!Over(e, old)[k] = v
                            /\ \A x \in DOMAIN old \ {k} : Drft!Over(e, old)[x] = old[x]
        OBVIOUS
      <4>2. PICK over : over = Drft!Over(e, old)
        OBVIOUS
      <4>3. /\ over \in Drft!Patches /\ DOMAIN over = DOMAIN e \cup DOMAIN old
            /\ \A x \in DOMAIN e : over[x] = e[x]
            /\ \A x \in DOMAIN old \ DOMAIN e : over[x] = old[x]
        <5>1. e \in Drft!Patches
          BY <2>2
        <5>2. QED
          BY <4>2, <5>1, OverTyped
      <4>4. QED
        BY <2>2, <4>2, <4>3
    <3>3. QED
      BY <2>3, <3>1, <3>2
  <2>5. PICK page : page = [pages[p] EXCEPT !.pending = pending, !.typed = typed, !.edits = @ + 1]
    OBVIOUS
  <2>6. pages[p].edits + 1 \in Nat /\ pages[p] \in Page
    BY <1>a DEF Page
  <2>7. /\ page \in Page /\ page.flight = pages[p].flight /\ page.state = pages[p].state /\ page.typed = typed
        /\ page.pending = pending /\ page.failures = pages[p].failures /\ page.refused = pages[p].refused
    <3>1. PICK old, more : old = pages[p] /\ more = pages[p].edits + 1
      OBVIOUS
    <3>2. old \in Page /\ more \in Nat /\ pending \in Drft!Patches /\ typed \in Drft!Patches
      BY <2>4, <2>6, <3>1
    <3>3. page = [old EXCEPT !.pending = pending, !.typed = typed, !.edits = more]
      BY <2>5, <3>1
    <3>4. /\ page \in Page /\ page.flight = old.flight /\ page.state = old.state /\ page.typed = typed
          /\ page.pending = pending /\ page.failures = old.failures /\ page.refused = old.refused
      BY <3>2, <3>3 DEF Page
    <3>5. QED
      BY <3>1, <3>4
  <2>8. pages' = [pages EXCEPT ![p] = page] /\ UNCHANGED <<draft, wire, answers, delegation>>
    BY <1>5, <2>1, <2>3, <2>5 DEF Drft!Edit, DraftsGood, DraftTypes
  <2>9. Remembers(p, page)
    <3>1. SUFFICES ASSUME page.failures = 0, ~page.refused, NEW x \in DOMAIN typed
                   PROVE  \/ x \in DOMAIN pending /\ pending[x] = typed[x]
                          \/ /\ pages[p].flight # Drft!NoRequest /\ x \in DOMAIN pages[p].flight.patch
                             /\ pages[p].flight.patch[x] = typed[x]
                          \/ SavedBy(p, x, typed[x])
      BY <2>7 DEF Remembers
    <3>2. CASE x = k
      BY <2>4, <3>2
    <3>3. CASE x # k
      <4>1. x \in DOMAIN pages[p].typed /\ typed[x] = pages[p].typed[x]
        BY <2>4, <3>1, <3>3
      <4>2. x \in DOMAIN pages[p].pending => x \in DOMAIN pending /\ pending[x] = pages[p].pending[x]
        BY <2>4, <3>3
      <4>3. QED
        BY <1>a, <2>7, <3>1, <4>1, <4>2 DEF Remembers
    <3>4. QED
      BY <3>2, <3>3
  <2>10. /\ page.flight # Drft!NoRequest => page.flight.page = p
         /\ page.state = "blocked" => page.flight = Drft!NoRequest /\ page.refused
    BY <2>7 DEF DraftsGood, OwnFlights
  <2>11. QED
    BY <2>7, <2>8, <2>9, <2>10, PageMoves
<1>6. ASSUME NEW p \in Pages, Drft!FlushPage(p)
      PROVE  DraftsGood'
  <2>1. /\ pages[p].state = "open" /\ pages[p].flight = Drft!NoRequest /\ UNCHANGED <<draft, answers, delegation>>
        /\ pages' = [pages EXCEPT ![p] = Drft!Flushed(p, pages[p])]
        /\ wire' \subseteq wire \cup ({Drft!Flushed(p, pages[p]).flight} \ {Drft!NoRequest})
    BY <1>6 DEF Drft!FlushPage, Drft!Become, Drft!Idle
  <2>2. pages[p].failures = 0 /\ ~pages[p].refused =>
           \A k \in DOMAIN pages[p].typed :
             \/ k \in DOMAIN pages[p].pending /\ pages[p].pending[k] = pages[p].typed[k]
             \/ SavedBy(p, k, pages[p].typed[k])
    BY <1>a, <2>1 DEF Remembers
  <2>3. PICK page, s : page = pages[p] /\ s = Drft!Flushed(p, page)
    OBVIOUS
  <2>4. QED
    BY <1>a, <2>1, <2>2, <2>3, Flushes
<1>7. ASSUME NEW p \in Pages, Drft!ClosePage(p)
      PROVE  DraftsGood'
  <2>1. UNCHANGED <<draft, answers, delegation>>
    BY <1>7 DEF Drft!ClosePage
  <2>2. CASE Drft!Idle(p)
    <3>1. PICK page, s : page = pages[p] /\ s = [Drft!Flushed(p, page) EXCEPT !.state = "closed"]
      OBVIOUS
    <3>2. /\ pages[p].flight = Drft!NoRequest /\ pages' = [pages EXCEPT ![p] = s]
          /\ wire' \subseteq wire \cup ({s.flight} \ {Drft!NoRequest})
      BY <1>7, <2>2, <3>1 DEF Drft!ClosePage, Drft!Become, Drft!Idle
    <3>3. pages[p].state = "blocked" => pages[p].refused
      BY DEF DraftsGood, OwnFlights
    <3>4. pages[p].failures = 0 /\ ~pages[p].refused =>
             \A k \in DOMAIN pages[p].typed :
               \/ k \in DOMAIN pages[p].pending /\ pages[p].pending[k] = pages[p].typed[k]
               \/ SavedBy(p, k, pages[p].typed[k])
      BY <1>a, <3>2 DEF Remembers
    <3>5. QED
      BY <1>a, <2>1, <3>1, <3>2, <3>3, <3>4, Flushes
  <2>3. CASE ~Drft!Idle(p)
    <3>1. PICK page : page = [pages[p] EXCEPT !.state = "closed"]
      OBVIOUS
    <3>2. /\ page \in Page /\ page.flight = pages[p].flight /\ page.state = "closed" /\ page.typed = pages[p].typed
          /\ page.pending = pages[p].pending /\ page.failures = pages[p].failures /\ page.refused = pages[p].refused
      BY <1>a, <3>1 DEF Page
    <3>3. pages' = [pages EXCEPT ![p] = page] /\ wire' \subseteq wire \cup ({page.flight} \ {Drft!NoRequest})
      BY <1>7, <2>3, <3>1 DEF Drft!ClosePage, Drft!Become
    <3>4. Remembers(p, page)
      BY <1>a, <3>2 DEF Remembers
    <3>5. page.flight # Drft!NoRequest => page.flight.page = p
      BY <3>2 DEF DraftsGood, OwnFlights
    <3>6. QED
      BY <2>1, <3>2, <3>3, <3>4, <3>5, PageMoves
  <2>4. QED
    BY <2>2, <2>3
<1>8. ASSUME NEW p \in Pages, NEW a \in answers, Drft!Saved(p, a)
      PROVE  DraftsGood'
  <2>1. PICK page : page = [pages[p] EXCEPT !.key = @ + 1, !.latest = a.revision]
    OBVIOUS
  <2>2. /\ a.request = pages[p].flight /\ a.kind = "saved" /\ a.request \in SaveRequest /\ a.revision \in 1..MaxRevision
        /\ UNCHANGED <<draft, delegation>> /\ answers' \subseteq answers
    BY <1>8 DEF Drft!Saved, Drft!AwaitedAnswer, DraftsGood, DraftTypes
  <2>3. a.revision \in 1..Drft!Current /\ draft.revisions[a.revision].request = pages[p].flight
    BY <2>2 DEF DraftsGood, AnswersTrue
  <2>4. /\ pages[p].flight # Drft!NoRequest
        /\ pages[p].flight.page = p /\ pages[p].state # "blocked"
    BY <2>2, NoEdits DEF DraftsGood, OwnFlights
  <2>5. /\ page \in Page /\ page.state = pages[p].state /\ page.typed = pages[p].typed
        /\ page.pending = pages[p].pending /\ page.failures = pages[p].failures /\ page.refused = pages[p].refused
    <3>1. pages[p].key + 1 \in Nat /\ a.revision \in 0..MaxRevision
      BY <1>a, <2>2, DraftBounds DEF Page
    <3>2. QED
      BY <1>a, <2>1, <3>1 DEF Page
  <2>6. page.failures = 0 /\ ~page.refused =>
           \A k \in DOMAIN page.typed :
             \/ k \in DOMAIN page.pending /\ page.pending[k] = page.typed[k]
             \/ SavedBy(p, k, page.typed[k])
    <3>1. \A k, v : k \in DOMAIN pages[p].flight.patch /\ pages[p].flight.patch[k] = v => SavedBy(p, k, v)
      BY <2>3, <2>4 DEF SavedBy
    <3>2. QED
      BY <1>a, <2>5, <3>1 DEF Remembers
  <2>7. PICK s : s = Drft!Flushed(p, page)
    OBVIOUS
  <2>8. pages' = [pages EXCEPT ![p] = s] /\ wire' \subseteq wire \cup ({s.flight} \ {Drft!NoRequest})
    BY <1>8, <2>1, <2>7 DEF Drft!Saved, Drft!Become
  <2>9. QED
    BY <2>2, <2>4, <2>5, <2>6, <2>7, <2>8, Flushes
<1>9. ASSUME NEW p \in Pages, NEW a \in answers, Drft!Conflicted(p, a)
      PROVE  DraftsGood'
  <2>1. PICK page : page = [pages[p] EXCEPT !.state = IF @ = "closed" THEN @ ELSE "blocked", !.flight = Drft!NoRequest,
                                            !.pending = Drft!Nothing, !.local = pages[p].flight.patch, !.refused = TRUE]
    OBVIOUS
  <2>2. /\ a.request = pages[p].flight /\ a.request \in SaveRequest
        /\ UNCHANGED <<draft, wire, delegation>> /\ answers' \subseteq answers
    BY <1>9 DEF Drft!Conflicted, Drft!AwaitedAnswer, DraftsGood, DraftTypes
  <2>3. page \in Page /\ page.flight = Drft!NoRequest /\ page.refused
    <3>1. pages[p].flight.patch \in Drft!Patches
      BY <2>2 DEF SaveRequest
    <3>2. QED
      BY <1>a, <2>1, <3>1, NoEdits DEF Page, MaybeRequest
  <2>4. pages' = [pages EXCEPT ![p] = page]
    BY <1>9, <2>1 DEF Drft!Conflicted, DraftsGood, DraftTypes
  <2>5. Remembers(p, page)
    BY <2>3 DEF Remembers
  <2>6. QED
    BY <2>2, <2>3, <2>4, <2>5, PageMoves
<1>10. ASSUME NEW p \in Pages, Drft!Fails(p)
       PROVE  DraftsGood'
  <2>1. PICK page : page = [pages[p] EXCEPT !.failures = @ + 1, !.pending = Drft!Over(pages[p].flight.patch, @)]
    OBVIOUS
  <2>2. PICK s : s = Drft!Flushed(p, page)
    OBVIOUS
  <2>3. /\ pages' = [pages EXCEPT ![p] = s] /\ wire' = wire \cup {s.flight} /\ pages[p].flight # Drft!NoRequest
        /\ UNCHANGED <<draft, delegation>> /\ answers' \subseteq answers
    BY <1>10, <2>1, <2>2 DEF Drft!Fails, Drft!Idle
  <2>4. pages[p].flight \in SaveRequest /\ pages[p].state # "blocked"
    <3>1. pages[p].flight \in MaybeRequest
      BY <1>a DEF Page
    <3>2. QED
      BY <2>3, <3>1 DEF DraftsGood, OwnFlights, MaybeRequest
  <2>5. /\ Drft!Over(pages[p].flight.patch, pages[p].pending) \in Drft!Patches
        /\ Drft!Over(pages[p].flight.patch, pages[p].pending) # Drft!Nothing
    <3>1. pages[p].flight.patch \in Drft!Patches /\ pages[p].flight.patch # Drft!Nothing /\ pages[p].pending \in Drft!Patches
      BY <1>a, <2>4 DEF SaveRequest, Page
    <3>2. DOMAIN pages[p].flight.patch # {}
      BY <3>1, NoEdits
    <3>3. PICK new, old, over : new = pages[p].flight.patch /\ old = pages[p].pending /\ over = Drft!Over(new, old)
      OBVIOUS
    <3>4. over \in Drft!Patches /\ DOMAIN over = DOMAIN new \cup DOMAIN old
      BY <3>1, <3>3, OverTyped
    <3>5. DOMAIN over # {}
      BY <3>2, <3>3, <3>4
    <3>6. QED
      BY <3>3, <3>4, <3>5, NoEdits
  <2>6. page \in Page /\ page.failures # 0 /\ page.state # "blocked" /\ page.pending # Drft!Nothing
    <3>1. pages[p].failures \in Nat /\ pages[p].failures + 1 \in Nat /\ pages[p].failures + 1 # 0
      BY <1>a DEF Page
    <3>2. QED
      BY <1>a, <2>1, <2>4, <2>5, <3>1 DEF Page
  <2>7. s.flight \in SaveRequest
    BY <2>2, <2>6, FlushedPage
  <2>8. wire' \subseteq wire \cup ({s.flight} \ {Drft!NoRequest})
    BY <2>3, <2>7, NoEdits
  <2>9. QED
    BY <2>2, <2>3, <2>6, <2>8, Flushes
<1>11. ASSUME NEW p \in Pages, NEW keep \in {"server", "mine"}, Drft!ResolveConflict(p, keep)
       PROVE  DraftsGood'
  <2>1. PICK open : open = [pages[p] EXCEPT !.state = "open", !.latest = Drft!Current, !.key = @ + 1, !.local = Drft!Nothing]
    OBVIOUS
  <2>2. PICK page : page = IF keep = "mine" THEN [open EXCEPT !.pending = pages[p].local] ELSE open
    OBVIOUS
  <2>3. PICK s : s = Drft!Flushed(p, page)
    OBVIOUS
  <2>4. /\ pages' = [pages EXCEPT ![p] = s] /\ wire' \subseteq wire \cup ({s.flight} \ {Drft!NoRequest})
        /\ UNCHANGED <<draft, answers, delegation>> /\ pages[p].state = "blocked"
    BY <1>11, <2>1, <2>2, <2>3 DEF Drft!ResolveConflict, Drft!Become
  <2>5. open \in Page /\ open.refused /\ open.state = "open"
    <3>1. pages[p].key + 1 \in Nat /\ Drft!Current \in 0..MaxRevision
      BY <1>a, <1>b, DraftBounds DEF Page
    <3>2. pages[p].refused
      BY <2>4 DEF DraftsGood, OwnFlights
    <3>3. QED
      BY <1>a, <2>1, <3>1, <3>2, NoEdits DEF Page
  <2>6. page \in Page /\ page.refused /\ page.state = "open"
    BY <1>a, <2>2, <2>5 DEF Page
  <2>7. QED
    BY <2>3, <2>4, <2>6, Flushes
<1>12. ASSUME NEW p \in Pages, Drft!SubmitDraft(p)
       PROVE  DraftsGood'
  <2>1. draft' = [draft EXCEPT !.status = "SUBMITTED"] /\ UNCHANGED <<pages, wire, answers, delegation>>
    BY <1>12 DEF Drft!SubmitDraft
  <2>2. draft' \in [status: {"DRAFT", "SUBMITTED"}, revisions: Seq(Revision)] /\ draft'.revisions = draft.revisions
    BY <2>1 DEF DraftsGood, DraftTypes
  <2>3. Drft!Current' = Drft!Current
    BY <2>2 DEF Drft!Current
  <2>4. DraftTypes' /\ OwnFlights' /\ AnswersTrue'
    BY <2>1, <2>2, <2>3 DEF DraftsGood, DraftTypes, OwnFlights, AnswersTrue
  <2>5. Drft!EachSaveOnce' /\ Drft!TypedIsKept'
    BY <2>1, <2>2, <2>3 DEF DraftsGood, Drft!EachSaveOnce, Drft!Receipts, Drft!TypedIsKept, Drft!Idle
  <2>6. QED
    BY <2>4, <2>5 DEF DraftsGood
<1>13. CASE UNCHANGED draftRows
  <2>1. UNCHANGED <<draft, pages, wire, answers, delegation>>
    BY <1>13 DEF draftRows
  <2>2. Drft!Current' = Drft!Current
    BY <2>1 DEF Drft!Current
  <2>3. DraftTypes' /\ OwnFlights' /\ AnswersTrue'
    BY <2>1, <2>2 DEF DraftsGood, DraftTypes, OwnFlights, AnswersTrue
  <2>4. Drft!EachSaveOnce' /\ Drft!TypedIsKept'
    BY <2>1, <2>2 DEF DraftsGood, Drft!EachSaveOnce, Drft!Receipts, Drft!TypedIsKept, Drft!Idle
  <2>5. QED
    BY <2>3, <2>4 DEF DraftsGood
<1>14. QED
  BY <1>1, <1>2, <1>3, <1>4, <1>5, <1>6, <1>7, <1>8, <1>9, <1>10, <1>11, <1>12, <1>13 DEF Drft!Next

\* A draft begins with its first revision and no page.
LEMMA DraftsStart == Drft!Init => DraftsGood
<1> SUFFICES ASSUME Drft!Init PROVE DraftsGood
  OBVIOUS
<1> DEFINE blank == [k \in Fields |-> Blank]
           first == [content |-> blank, request |-> Drft!NoRequest]
<1>1. first \in Revision
  BY DEF Revision, MaybeRequest
<1>2. draft.status = "DRAFT" /\ draft.revisions = <<first>> /\ draft = [status |-> "DRAFT", revisions |-> <<first>>]
  BY DEF Drft!Init
<1> HIDE DEF first
<1>3. <<first>> \in Seq(Revision) /\ Len(<<first>>) = 1
  BY <1>1
<1>4. draft \in [status: {"DRAFT", "SUBMITTED"}, revisions: Seq(Revision)] /\ Drft!Current = 1
  BY <1>2, <1>3 DEF Drft!Current
<1>5. pages \in [Pages -> Page]
  <2>1. 0 \in 0..MaxRevision
    BY DraftBounds
  <2>2. QED
    BY <2>1, NoEdits DEF Drft!Init, Page, MaybeRequest
<1>6. \A p \in Pages : pages[p].flight = Drft!NoRequest /\ pages[p].state = "closed" /\ pages[p].typed = Drft!Nothing
  BY DEF Drft!Init
<1>7. DraftTypes
  <2>1. Drft!Current \in 1..MaxRevision
    BY <1>4, DraftBounds
  <2>2. wire = {} /\ answers = {} /\ delegation = "none"
    BY DEF Drft!Init
  <2>3. QED
    BY <1>4, <1>5, <2>1, <2>2 DEF DraftTypes
<1>8. OwnFlights /\ AnswersTrue
  BY <1>6 DEF OwnFlights, AnswersTrue, Drft!Init
<1>9. Drft!EachSaveOnce
  BY <1>4 DEF Drft!EachSaveOnce
<1>10. Drft!TypedIsKept
  BY <1>6, NoEdits DEF Drft!TypedIsKept
<1>11. QED
  BY <1>7, <1>8, <1>9, <1>10 DEF DraftsGood

\* The rows of a draft have values the code can give them.
LEMMA DraftsTyped == DraftsGood => Drft!TypeOK
<1> SUFFICES ASSUME DraftsGood PROVE Drft!TypeOK
  OBVIOUS
<1>1. \A p \in Pages : pages[p].pending \in Drft!Patches /\ pages[p].latest \in 0..MaxRevision
  BY DEF DraftsGood, DraftTypes, Page
<1>2. QED
  BY <1>1 DEF DraftsGood, DraftTypes, Drft!TypeOK

-----------------------------------------------------------------------------
Booking == [visit: Attempts, officer: People, at: Book!Times,
            state: {"ACTIVE", "SUPERSEDED", "REVOKED", "FULFILLED"}]

\* A transaction of the calendar; the interval it is about was asked for.
Transaction == [step: {"none", "locked", "booking", "recording"}, visit: Attempts \cup {"none"},
                officer: People \cup {"none"}, at: Book!Times, seen: SUBSET Nat]

FencesApart ==
  \A p, q \in People, o \in People : Book!HoldsFence(p, o) /\ Book!HoldsFence(q, o) => p = q

\* What a transaction found under the fence of its officer stays true while it
\* holds that fence, since every booking and every absence of his needs it.
CheckedUnderFence ==
  /\ \A p \in People : working[p].step = "booking" =>
       /\ \A k \in DOMAIN absences : absences[k].officer = working[p].officer =>
                                       ~Book!Overlap(absences[k].at, working[p].at)
       /\ \A n \in DOMAIN assignments :
            assignments[n].state = "ACTIVE" /\ assignments[n].officer = working[p].officer
              /\ assignments[n].visit # working[p].visit => ~Book!Overlap(assignments[n].at, working[p].at)
  /\ \A p \in People : working[p].step = "recording" =>
       \A n \in DOMAIN assignments :
         assignments[n].state = "ACTIVE" /\ assignments[n].officer = working[p].officer
           /\ Book!Overlap(assignments[n].at, working[p].at) => n \in working[p].seen

\* The bookings in force: one of a visit at most, and those of an officer apart.
BookedApart ==
  \A m, n \in DOMAIN assignments :
    m # n /\ assignments[m].state = "ACTIVE" /\ assignments[n].state = "ACTIVE" =>
      /\ assignments[m].visit # assignments[n].visit
      /\ assignments[m].officer = assignments[n].officer => ~Book!Overlap(assignments[m].at, assignments[n].at)

BookedAsTold ==
  \A v \in Attempts : visits[v].status \in {"SCHEDULED", "IN_PROGRESS"} =>
    \E n \in DOMAIN assignments :
      assignments[n].state = "ACTIVE" /\ assignments[n].visit = v /\ assignments[n].at = visits[v].at

AbsencesReported ==
  \A n \in DOMAIN assignments, k \in DOMAIN absences :
    assignments[n].state = "ACTIVE" /\ assignments[n].officer = absences[k].officer
      /\ Book!Overlap(assignments[n].at, absences[k].at) => n \in absences[k].affected

VisitStates == Book!Unstarted \cup {"IN_PROGRESS", "CANCELLED", "FAILED"}

BookingTypes ==
  /\ eligible \subseteq People
  /\ visits \in [Attempts -> [status: VisitStates, at: Book!Times]]
  /\ assignments \in Seq(Booking)
  /\ absences \in Seq([officer: People, at: Book!Times, affected: SUBSET Nat])
  /\ working \in [People -> Transaction]
  /\ \A p \in People : LET t == working[p] IN
       /\ t.step = "none" => t = Book!Idle
       /\ t.step # "none" => t.officer \in People
       /\ t.step \in {"locked", "booking"} => t.visit \in Attempts

BookingsGood ==
  BookingTypes /\ FencesApart /\ CheckedUnderFence /\ BookedApart /\ BookedAsTold /\ AbsencesReported

-----------------------------------------------------------------------------
(* The calendar of the officers. *)

\* Intervals are pairs of instants.
LEMMA Moments ==
  /\ Book!NoInterval \in Book!Times
  /\ \A i \in Book!Times : i.from \in Nat /\ i.until \in Nat
  /\ \A t, o \in Book!Times : Book!Given(t, o) \in Book!Times
  /\ Intervals \subseteq Book!Times
<1>1. \A i \in Intervals : i.from \in Nat /\ i.until \in Nat
  BY ServicesAssumption DEF ServicesAssumption, Book!BookingsAssumption
<1> DEFINE F == {0} \cup {i.from : i \in Intervals}
           U == {0} \cup {i.until : i \in Intervals}
<1>2. F \subseteq Nat /\ U \subseteq Nat
  BY <1>1
<1>3. Book!Times = Intervals \cup [from: F, until: U]
  BY DEF Book!Times
<1>4. \A i \in Book!Times : i.from \in F /\ i.until \in U
  BY <1>3
<1>5. 0 \in F /\ 0 \in U
  OBVIOUS
<1> HIDE DEF F, U
<1>6. Book!NoInterval \in Book!Times
  BY <1>3, <1>5 DEF Book!NoInterval
<1>7. \A t, o \in Book!Times : Book!Given(t, o) \in Book!Times
  BY <1>3, <1>4 DEF Book!Given
<1>8. \A i \in Book!Times : i.from \in Nat /\ i.until \in Nat
  BY <1>2, <1>4
<1>9. QED
  BY <1>3, <1>6, <1>7, <1>8

\* Intervals that do not overlap have no instant in common.
LEMMA Disjoint ==
  ASSUME NEW i \in Book!Times, NEW j \in Book!Times, ~Book!Overlap(i, j)
  PROVE  Book!Instants(i) \cap Book!Instants(j) = {}
<1>1. PICK a, b, c, d : a = i.from /\ b = i.until /\ c = j.from /\ d = j.until
  OBVIOUS
<1>2. a \in Nat /\ b \in Nat /\ c \in Nat /\ d \in Nat
  BY <1>1, Moments
<1>3. ~(a < d /\ c < b)
  BY <1>1 DEF Book!Overlap
<1>4. (a..(b - 1)) \cap (c..(d - 1)) = {}
  BY <1>2, <1>3
<1>5. QED
  BY <1>1, <1>4 DEF Book!Instants

\* Overlapping is symmetric.
LEMMA OverlapSymmetric == \A i, j : Book!Overlap(i, j) = Book!Overlap(j, i)
BY DEF Book!Overlap

\* A transaction that begins, goes on or ends holds fences nobody else holds.
LEMMA FencesTaken ==
  ASSUME BookingTypes, FencesApart, NEW p \in People, NEW w,
         working' = [working EXCEPT ![p] = w],
         w = Book!Idle \/ Book!FenceFree(p, p) \/ working[p] # Book!Idle,
         w # Book!Idle /\ w.step \in {"booking", "recording"} => Book!FenceFree(p, w.officer)
  PROVE  FencesApart'
<1>1. /\ working'[p] = w
      /\ \A q \in People \ {p} : working'[q] = working[q]
  BY DEF BookingTypes
<1>2. \A q \in People \ {p}, o \in People : Book!HoldsFence(q, o)' <=> Book!HoldsFence(q, o)
  BY <1>1 DEF Book!HoldsFence
<1>3. ASSUME NEW q \in People \ {p}, NEW o \in People, Book!HoldsFence(q, o), Book!HoldsFence(p, o)'
      PROVE  FALSE
  <2>1. w # Book!Idle /\ (p = o \/ (w.step \in {"booking", "recording"} /\ w.officer = o))
    BY <1>1, <1>3 DEF Book!HoldsFence
  <2>2. CASE p = o
    <3>1. CASE Book!FenceFree(p, p)
      BY <1>3, <2>2, <3>1 DEF Book!FenceFree
    <3>2. CASE working[p] # Book!Idle
      <4>1. Book!HoldsFence(p, p)
        BY <3>2 DEF Book!HoldsFence
      <4>2. QED
        BY <1>3, <2>2, <4>1 DEF FencesApart
    <3>3. QED
      BY <2>1, <3>1, <3>2
  <2>3. CASE w.step \in {"booking", "recording"} /\ w.officer = o
    BY <1>3, <2>1, <2>3 DEF Book!FenceFree
  <2>4. QED
    BY <2>1, <2>2, <2>3
<1>4. QED
  BY <1>2, <1>3 DEF FencesApart

\* Only a transaction changes, into one that has checked what it should have.
LEMMA WorkingMoves ==
  ASSUME BookingsGood, NEW p \in People, NEW w \in Transaction,
         working' = [working EXCEPT ![p] = w],
         UNCHANGED <<eligible, visits, assignments, absences>>,
         w = Book!Idle \/ Book!FenceFree(p, p) \/ working[p] # Book!Idle,
         w # Book!Idle /\ w.step \in {"booking", "recording"} => Book!FenceFree(p, w.officer),
         /\ w.step = "none" => w = Book!Idle
         /\ w.step # "none" => w.officer \in People
         /\ w.step \in {"locked", "booking"} => w.visit \in Attempts,
         w.step = "booking" => /\ ~Book!UnavailableBetween(w.officer, w.at)
                               /\ Book!OverlappingBookings(w.officer, w.at, w.visit) = {},
         w.step = "recording" => w.seen = Book!OverlappingBookings(w.officer, w.at, "none")
  PROVE  BookingsGood'
<1>1. /\ working' \in [People -> Transaction] /\ working'[p] = w
      /\ \A q \in People \ {p} : working'[q] = working[q]
  BY DEF BookingsGood, BookingTypes
<1>2. BookingTypes'
  BY <1>1 DEF BookingsGood, BookingTypes
<1>3. FencesApart'
  BY FencesTaken DEF BookingsGood
<1>4. w.step = "booking" =>
       /\ \A k \in DOMAIN absences : absences[k].officer = w.officer => ~Book!Overlap(absences[k].at, w.at)
       /\ \A n \in DOMAIN assignments :
            assignments[n].state = "ACTIVE" /\ assignments[n].officer = w.officer
              /\ assignments[n].visit # w.visit => ~Book!Overlap(w.at, assignments[n].at)
  BY OverlapSymmetric DEF Book!UnavailableBetween, Book!OverlappingBookings
<1>5. w.step = "recording" =>
       \A n \in DOMAIN assignments :
         assignments[n].state = "ACTIVE" /\ assignments[n].officer = w.officer
           /\ Book!Overlap(w.at, assignments[n].at) => n \in w.seen
  <2>1. \A n \in DOMAIN assignments : assignments[n].visit # "none"
    <3>1. "none" \notin Attempts
      BY ServicesAssumption DEF ServicesAssumption, Book!BookingsAssumption
    <3>2. \A n \in DOMAIN assignments : assignments[n] \in Booking
      BY DEF BookingsGood, BookingTypes
    <3>3. QED
      BY <3>1, <3>2 DEF Booking
  <2>2. QED
    BY <2>1, OverlapSymmetric DEF Book!OverlappingBookings
<1>6. CheckedUnderFence'
  BY <1>1, <1>4, <1>5, OverlapSymmetric DEF BookingsGood, CheckedUnderFence
<1>7. QED
  BY <1>2, <1>3, <1>6 DEF BookingsGood, BookedApart, BookedAsTold, AbsencesReported

\* Bookings that are superseded, revoked or fulfilled: nothing else of them changes.
LEMMA Retired ==
  ASSUME BookingTypes, NEW v \in Attempts, NEW s \in {"SUPERSEDED", "REVOKED", "FULFILLED"},
         NEW rows, rows = Book!RetireCurrent(v, s)
  PROVE  /\ rows \in Seq(Booking) /\ Len(rows) = Len(assignments) /\ DOMAIN rows = DOMAIN assignments
         /\ \A n \in DOMAIN assignments :
              /\ rows[n].visit = assignments[n].visit /\ rows[n].officer = assignments[n].officer
              /\ rows[n].at = assignments[n].at
              /\ rows[n].state = "ACTIVE" <=> assignments[n].state = "ACTIVE" /\ assignments[n].visit # v
<1>1. \A n \in DOMAIN assignments : assignments[n] \in Booking
  BY DEF BookingTypes
<1>2. rows = [n \in DOMAIN assignments |-> IF assignments[n].visit = v /\ assignments[n].state = "ACTIVE"
                                           THEN [assignments[n] EXCEPT !.state = s] ELSE assignments[n]]
  BY DEF Book!RetireCurrent, Book!Current
<1>3. \A n \in DOMAIN assignments : [assignments[n] EXCEPT !.state = s] \in Booking
  BY <1>1 DEF Booking
<1>4. \A n \in DOMAIN assignments :
              /\ rows[n] \in Booking
              /\ rows[n].visit = assignments[n].visit /\ rows[n].officer = assignments[n].officer
              /\ rows[n].at = assignments[n].at
              /\ rows[n].state = "ACTIVE" <=> assignments[n].state = "ACTIVE" /\ assignments[n].visit # v
  BY <1>1, <1>2, <1>3 DEF Booking
<1>5. DOMAIN assignments = 1..Len(assignments) /\ Len(assignments) \in Nat
  BY DEF BookingTypes
<1>6. rows \in [1..Len(assignments) -> Booking]
  BY <1>2, <1>4, <1>5
<1>7. rows \in Seq(Booking) /\ Len(rows) = Len(assignments)
  BY <1>5, <1>6
<1>8. QED
  BY <1>2, <1>4, <1>7

\* Ending a visit, or the attempt at it, ends its booking.
LEMMA VisitEnds ==
  ASSUME BookingsGood, NEW p \in People, NEW v \in Attempts,
         NEW status \in {"CANCELLED", "FAILED"}, NEW s \in {"REVOKED", "FULFILLED"},
         Book!EndVisit(p, v, status, s)
  PROVE  BookingsGood'
<1>1. /\ visits' = [visits EXCEPT ![v].status = status]
      /\ assignments' = Book!RetireCurrent(v, s)
      /\ working[p] = Book!Idle /\ working' = [working EXCEPT ![p] = Book!Idle]
      /\ UNCHANGED <<eligible, absences>>
  BY DEF Book!EndVisit, Book!Starts, Book!End
<1>2. BookingTypes
  BY DEF BookingsGood
<1>3. /\ assignments' \in Seq(Booking) /\ DOMAIN assignments' = DOMAIN assignments
      /\ \A n \in DOMAIN assignments :
              /\ assignments'[n].visit = assignments[n].visit /\ assignments'[n].officer = assignments[n].officer
              /\ assignments'[n].at = assignments[n].at
              /\ assignments'[n].state = "ACTIVE" <=> assignments[n].state = "ACTIVE" /\ assignments[n].visit # v
  BY <1>1, <1>2, Retired
<1>4. working' = working
  BY <1>1, <1>2 DEF BookingTypes
<1>5. /\ visits' \in [Attempts -> [status: VisitStates, at: Book!Times]]
      /\ visits'[v].status = status
      /\ \A x \in Attempts \ {v} : visits'[x] = visits[x]
  BY <1>1, <1>2 DEF BookingTypes, VisitStates
<1>6. BookingTypes'
  BY <1>1, <1>2, <1>3, <1>4, <1>5 DEF BookingTypes
<1>7. FencesApart' /\ CheckedUnderFence'
  BY <1>1, <1>3, <1>4 DEF BookingsGood, FencesApart, CheckedUnderFence, Book!HoldsFence
<1>8. BookedApart' /\ AbsencesReported'
  BY <1>1, <1>3 DEF BookingsGood, BookedApart, AbsencesReported
<1>9. BookedAsTold'
  <2>1. ASSUME NEW x \in Attempts, visits'[x].status \in {"SCHEDULED", "IN_PROGRESS"}
        PROVE  \E n \in DOMAIN assignments' :
                 /\ assignments'[n].state = "ACTIVE" /\ assignments'[n].visit = x
                 /\ assignments'[n].at = visits'[x].at
    <3>1. x # v /\ visits'[x] = visits[x]
      BY <1>5, <2>1
    <3>2. PICK n \in DOMAIN assignments :
            assignments[n].state = "ACTIVE" /\ assignments[n].visit = x /\ assignments[n].at = visits[x].at
      BY <2>1, <3>1 DEF BookingsGood, BookedAsTold
    <3>3. /\ n \in DOMAIN assignments' /\ assignments'[n].state = "ACTIVE" /\ assignments'[n].visit = x
          /\ assignments'[n].at = visits'[x].at
      BY <1>3, <3>1, <3>2
    <3>4. QED
      BY <3>3
  <2>2. QED
    BY <2>1 DEF BookedAsTold
<1>10. QED
  BY <1>6, <1>7, <1>8, <1>9 DEF BookingsGood

\* A booking is made by the one transaction that holds the fence of its officer.
LEMMA Booked ==
  ASSUME BookingsGood, NEW p \in People, Book!Book(p)
  PROVE  BookingsGood'
<1> DEFINE t == working[p]
           rows == Book!RetireCurrent(t.visit, "SUPERSEDED")
           new == [visit |-> t.visit, officer |-> t.officer, at |-> t.at, state |-> "ACTIVE"]
           last == Len(assignments) + 1
<1>1. /\ t.step = "booking"
      /\ assignments' = Append(rows, new)
      /\ visits' = [visits EXCEPT ![t.visit] = [status |-> "SCHEDULED", at |-> t.at]]
      /\ working' = [working EXCEPT ![p] = Book!Idle]
      /\ UNCHANGED <<eligible, absences>>
  BY DEF Book!Book, Book!End
<1>2. BookingTypes
  BY DEF BookingsGood
<1>3. t \in Transaction /\ t.visit \in Attempts /\ t.officer \in People /\ t.at \in Book!Times /\ t # Book!Idle
  BY <1>1, <1>2 DEF BookingTypes, Transaction, Book!Idle
<1>4. new \in Booking
  BY <1>3 DEF Booking
<1>5. /\ rows \in Seq(Booking) /\ Len(rows) = Len(assignments) /\ DOMAIN rows = DOMAIN assignments
      /\ \A n \in DOMAIN assignments :
           /\ rows[n].visit = assignments[n].visit /\ rows[n].officer = assignments[n].officer
           /\ rows[n].at = assignments[n].at
           /\ rows[n].state = "ACTIVE" <=> assignments[n].state = "ACTIVE" /\ assignments[n].visit # t.visit
  BY <1>2, <1>3, Retired
<1> HIDE DEF rows
<1>6. /\ assignments' \in Seq(Booking) /\ DOMAIN assignments' = DOMAIN assignments \cup {last}
      /\ last \notin DOMAIN assignments
      /\ assignments'[last] = new
      /\ \A n \in DOMAIN assignments : assignments'[n] = rows[n]
  <2>1. DOMAIN assignments = 1..Len(assignments) /\ Len(assignments) \in Nat
    BY <1>2 DEF BookingTypes
  <2>2. /\ assignments' \in Seq(Booking) /\ DOMAIN assignments' = 1..(Len(assignments) + 1)
        /\ assignments'[last] = new
        /\ \A n \in 1..Len(assignments) : assignments'[n] = rows[n]
    BY <1>1, <1>4, <1>5, <2>1
  <2>3. QED
    BY <2>1, <2>2
<1> HIDE DEF new, last
<1>7. /\ new.visit = t.visit /\ new.officer = t.officer /\ new.at = t.at /\ new.state = "ACTIVE"
  BY DEF new
<1>8. \A n \in DOMAIN assignments :
           /\ assignments'[n].visit = assignments[n].visit /\ assignments'[n].officer = assignments[n].officer
           /\ assignments'[n].at = assignments[n].at
           /\ assignments'[n].state = "ACTIVE" <=> assignments[n].state = "ACTIVE" /\ assignments[n].visit # t.visit
  BY <1>5, <1>6
<1>9. /\ \A k \in DOMAIN absences : absences[k].officer = t.officer => ~Book!Overlap(absences[k].at, t.at)
      /\ \A n \in DOMAIN assignments :
            assignments[n].state = "ACTIVE" /\ assignments[n].officer = t.officer
              /\ assignments[n].visit # t.visit => ~Book!Overlap(assignments[n].at, t.at)
  BY <1>1 DEF BookingsGood, CheckedUnderFence
<1>10. /\ working' \in [People -> Transaction] /\ working'[p] = Book!Idle
       /\ \A q \in People \ {p} : working'[q] = working[q]
  <2>1. Book!Idle \in Transaction
    BY Moments DEF Book!Idle, Transaction
  <2>2. QED
    BY <1>1, <1>2, <2>1 DEF BookingTypes
<1>11. /\ visits' \in [Attempts -> [status: VisitStates, at: Book!Times]]
       /\ visits'[t.visit].at = t.at
       /\ \A x \in Attempts \ {t.visit} : visits'[x] = visits[x]
  BY <1>1, <1>2, <1>3 DEF BookingTypes, VisitStates, Book!Unstarted
<1>12. BookingTypes'
  BY <1>1, <1>2, <1>6, <1>10, <1>11 DEF BookingTypes, Book!Idle
<1>13. FencesApart'
  BY <1>1, <1>2, FencesTaken DEF BookingsGood
<1>14. \A q \in People \ {p} : working[q].step \in {"booking", "recording"} => working[q].officer # t.officer
  <2>1. Book!HoldsFence(p, t.officer)
    BY <1>1, <1>3 DEF Book!HoldsFence
  <2>2. ASSUME NEW q \in People \ {p}, working[q].step \in {"booking", "recording"}, working[q].officer = t.officer
        PROVE  FALSE
    <3>1. Book!HoldsFence(q, t.officer)
      BY <2>2 DEF Book!HoldsFence, Book!Idle
    <3>2. QED
      BY <1>3, <2>1, <3>1 DEF BookingsGood, FencesApart
  <2>3. QED
    BY <2>2
<1>15. CheckedUnderFence'
  <2>1. working'[p].step = "none"
    BY <1>10 DEF Book!Idle
  <2>2. ASSUME NEW q \in People, working'[q].step = "booking"
        PROVE  /\ \A k \in DOMAIN absences' : absences'[k].officer = working'[q].officer =>
                                       ~Book!Overlap(absences'[k].at, working'[q].at)
               /\ \A n \in DOMAIN assignments' :
                    assignments'[n].state = "ACTIVE" /\ assignments'[n].officer = working'[q].officer
                      /\ assignments'[n].visit # working'[q].visit => ~Book!Overlap(assignments'[n].at, working'[q].at)
    <3>1. q # p /\ working'[q] = working[q] /\ working[q].officer # t.officer
      BY <1>10, <1>14, <2>1, <2>2
    <3>2. QED
      BY <1>1, <1>6, <1>7, <1>8, <2>2, <3>1 DEF BookingsGood, CheckedUnderFence
  <2>3. ASSUME NEW q \in People, working'[q].step = "recording"
        PROVE  \A n \in DOMAIN assignments' :
                 assignments'[n].state = "ACTIVE" /\ assignments'[n].officer = working'[q].officer
                   /\ Book!Overlap(assignments'[n].at, working'[q].at) => n \in working'[q].seen
    <3>1. q # p /\ working'[q] = working[q] /\ working[q].officer # t.officer
      BY <1>10, <1>14, <2>1, <2>3
    <3>2. \A n \in DOMAIN assignments :
            assignments[n].state = "ACTIVE" /\ assignments[n].officer = working[q].officer
              /\ Book!Overlap(assignments[n].at, working[q].at) => n \in working[q].seen
      BY <2>3, <3>1 DEF BookingsGood, CheckedUnderFence
    <3>3. SUFFICES ASSUME NEW n \in DOMAIN assignments', assignments'[n].state = "ACTIVE",
                          assignments'[n].officer = working[q].officer,
                          Book!Overlap(assignments'[n].at, working[q].at)
                   PROVE  n \in working[q].seen
      BY <3>1
    <3>4. n \in DOMAIN assignments
      BY <1>6, <1>7, <3>1, <3>3
    <3>5. assignments[n].state = "ACTIVE" /\ assignments[n].officer = assignments'[n].officer
          /\ assignments[n].at = assignments'[n].at
      BY <1>8, <3>3, <3>4
    <3>6. QED
      BY <3>2, <3>3, <3>4, <3>5
  <2>4. QED
    BY <2>2, <2>3 DEF CheckedUnderFence
<1>16. BookedApart'
  <2>1. \A n \in DOMAIN assignments : assignments'[n].state = "ACTIVE" =>
          /\ assignments'[n].visit # new.visit
          /\ assignments'[n].officer = new.officer => ~Book!Overlap(assignments'[n].at, new.at)
    BY <1>7, <1>8, <1>9
  <2>2. \A n \in DOMAIN assignments : assignments'[n].state = "ACTIVE" /\ assignments'[n].officer = new.officer =>
          ~Book!Overlap(new.at, assignments'[n].at)
    BY <2>1, OverlapSymmetric
  <2>3. \A m, n \in DOMAIN assignments :
           m # n /\ assignments'[m].state = "ACTIVE" /\ assignments'[n].state = "ACTIVE" =>
             /\ assignments'[m].visit # assignments'[n].visit
             /\ assignments'[m].officer = assignments'[n].officer =>
                  ~Book!Overlap(assignments'[m].at, assignments'[n].at)
    BY <1>8 DEF BookingsGood, BookedApart
  <2>4. QED
    BY <1>6, <2>1, <2>2, <2>3 DEF BookedApart
<1>17. BookedAsTold'
  <2>1. ASSUME NEW x \in Attempts, visits'[x].status \in {"SCHEDULED", "IN_PROGRESS"}
        PROVE  \E n \in DOMAIN assignments' :
                 assignments'[n].state = "ACTIVE" /\ assignments'[n].visit = x /\ assignments'[n].at = visits'[x].at
    <3>1. CASE x = t.visit
      <4>1. last \in DOMAIN assignments' /\ assignments'[last] = new
        BY <1>6
      <4>2. QED
        BY <1>7, <1>11, <3>1, <4>1
    <3>2. CASE x # t.visit
      BY <1>6, <1>8, <1>11, <2>1, <3>2 DEF BookingsGood, BookedAsTold
    <3>3. QED
      BY <3>1, <3>2
  <2>2. QED
    BY <2>1 DEF BookedAsTold
<1>18. AbsencesReported'
  <2>1. \A k \in DOMAIN absences : absences[k].officer = new.officer => ~Book!Overlap(new.at, absences[k].at)
    BY <1>7, <1>9, OverlapSymmetric
  <2>2. QED
    BY <1>1, <1>6, <1>8, <2>1 DEF BookingsGood, AbsencesReported
<1>19. QED
  BY <1>12, <1>13, <1>15, <1>16, <1>17, <1>18 DEF BookingsGood

\* An absence is recorded by the one transaction that holds the fence of its officer.
LEMMA AbsenceRecorded ==
  ASSUME BookingsGood, NEW p \in People, Book!RecordAvailability(p)
  PROVE  BookingsGood'
<1> DEFINE t == working[p]
           new == [officer |-> t.officer, at |-> t.at, affected |-> t.seen]
           last == Len(absences) + 1
<1>1. /\ t.step = "recording" /\ absences' = Append(absences, new)
      /\ working' = [working EXCEPT ![p] = Book!Idle]
      /\ UNCHANGED <<eligible, visits, assignments>>
  BY DEF Book!RecordAvailability, Book!End
<1>2. BookingTypes
  BY DEF BookingsGood
<1>3. t \in Transaction /\ t.officer \in People /\ t.at \in Book!Times /\ t.seen \in SUBSET Nat /\ t # Book!Idle
  BY <1>1, <1>2 DEF BookingTypes, Transaction, Book!Idle
<1>4. new \in [officer: People, at: Book!Times, affected: SUBSET Nat]
  BY <1>3
<1>5. new.officer = t.officer /\ new.at = t.at /\ new.affected = t.seen
  OBVIOUS
<1> HIDE DEF new
<1>6. /\ absences' \in Seq([officer: People, at: Book!Times, affected: SUBSET Nat])
      /\ DOMAIN absences' = DOMAIN absences \cup {last} /\ absences'[last] = new
      /\ \A k \in DOMAIN absences : absences'[k] = absences[k]
  <2>1. DOMAIN absences = 1..Len(absences) /\ Len(absences) \in Nat
    BY <1>2 DEF BookingTypes
  <2>2. /\ absences' \in Seq([officer: People, at: Book!Times, affected: SUBSET Nat])
        /\ DOMAIN absences' = 1..(Len(absences) + 1)
        /\ absences'[last] = new
        /\ \A n \in 1..Len(absences) : absences'[n] = absences[n]
    BY <1>1, <1>2, <1>4 DEF BookingTypes
  <2>3. QED
    BY <2>1, <2>2
<1> HIDE DEF last
<1>7. /\ working' \in [People -> Transaction] /\ working'[p] = Book!Idle
      /\ \A q \in People \ {p} : working'[q] = working[q]
  <2>1. Book!Idle \in Transaction
    BY Moments DEF Book!Idle, Transaction
  <2>2. QED
    BY <1>1, <1>2, <2>1 DEF BookingTypes
<1>8. BookingTypes'
  BY <1>1, <1>2, <1>6, <1>7 DEF BookingTypes, Book!Idle
<1>9. FencesApart'
  BY <1>1, <1>2, FencesTaken DEF BookingsGood
<1>10. \A q \in People \ {p} : working[q].step \in {"booking", "recording"} => working[q].officer # t.officer
  <2>1. Book!HoldsFence(p, t.officer)
    BY <1>1, <1>3 DEF Book!HoldsFence
  <2>2. ASSUME NEW q \in People \ {p}, working[q].step \in {"booking", "recording"}, working[q].officer = t.officer
        PROVE  FALSE
    <3>1. Book!HoldsFence(q, t.officer)
      BY <2>2 DEF Book!HoldsFence, Book!Idle
    <3>2. QED
      BY <1>3, <2>1, <3>1 DEF BookingsGood, FencesApart
  <2>3. QED
    BY <2>2
<1>11. CheckedUnderFence'
  <2>1. working'[p].step = "none"
    BY <1>7 DEF Book!Idle
  <2>2. ASSUME NEW q \in People, working'[q].step = "booking"
        PROVE  \A k \in DOMAIN absences' : absences'[k].officer = working'[q].officer =>
                                             ~Book!Overlap(absences'[k].at, working'[q].at)
    <3>1. q # p /\ working'[q] = working[q] /\ working[q].officer # t.officer
      BY <1>7, <1>10, <2>1, <2>2
    <3>2. QED
      BY <1>5, <1>6, <2>2, <3>1 DEF BookingsGood, CheckedUnderFence
  <2>3. \A q \in People : working'[q].step # "none" => working'[q] = working[q]
    BY <1>7, <2>1
  <2>4. QED
    BY <1>1, <2>2, <2>3 DEF BookingsGood, CheckedUnderFence
<1>12. AbsencesReported'
  <2>1. \A n \in DOMAIN assignments :
          assignments[n].state = "ACTIVE" /\ assignments[n].officer = new.officer
            /\ Book!Overlap(assignments[n].at, new.at) => n \in new.affected
    BY <1>1, <1>5 DEF BookingsGood, CheckedUnderFence
  <2>2. QED
    BY <1>1, <1>6, <2>1 DEF BookingsGood, AbsencesReported
<1>13. QED
  BY <1>1, <1>8, <1>9, <1>11, <1>12 DEF BookingsGood, BookedApart, BookedAsTold

\* Every command about the calendar keeps the invariant, whatever it races.
LEMMA BookingsKept == BookingsGood /\ [Book!Next]_bookingRows => BookingsGood'
<1> SUFFICES ASSUME BookingsGood, [Book!Next]_bookingRows PROVE BookingsGood'
  OBVIOUS
<1>1. BookingTypes /\ Supervisors \subseteq People
  BY ServicesAssumption DEF BookingsGood, ServicesAssumption, Book!BookingsAssumption
<1>2. ASSUME UNCHANGED <<assignments, absences, working>>, eligible' \subseteq People,
             visits' \in [Attempts -> [status: VisitStates, at: Book!Times]],
             \A v \in Attempts : visits'[v].at = visits[v].at,
             \A v \in Attempts : visits'[v].status \in {"SCHEDULED", "IN_PROGRESS"} =>
                                   visits[v].status \in {"SCHEDULED", "IN_PROGRESS"}
      PROVE  BookingsGood'
  <2>1. BookingTypes' /\ FencesApart' /\ CheckedUnderFence'
    BY <1>2 DEF BookingsGood, BookingTypes, FencesApart, CheckedUnderFence, Book!HoldsFence
  <2>2. BookedApart' /\ AbsencesReported'
    BY <1>2 DEF BookingsGood, BookedApart, AbsencesReported
  <2>3. BookedAsTold'
    <3>1. ASSUME NEW v \in Attempts, visits'[v].status \in {"SCHEDULED", "IN_PROGRESS"}
          PROVE  \E n \in DOMAIN assignments :
                   assignments[n].state = "ACTIVE" /\ assignments[n].visit = v /\ assignments[n].at = visits'[v].at
      <4>1. visits[v].status \in {"SCHEDULED", "IN_PROGRESS"} /\ visits'[v].at = visits[v].at
        BY <1>2, <3>1
      <4>2. QED
        BY <4>1 DEF BookingsGood, BookedAsTold
    <3>2. QED
      BY <1>2, <3>1 DEF BookedAsTold
  <2>4. QED
    BY <2>1, <2>2, <2>3 DEF BookingsGood
<1>3. ASSUME NEW p \in People, Book!RollBack(p)
      PROVE  BookingsGood'
  <2>1. /\ working' = [working EXCEPT ![p] = Book!Idle]
        /\ UNCHANGED <<eligible, visits, assignments, absences>>
    BY <1>3 DEF Book!RollBack, Book!End
  <2>2. Book!Idle \in Transaction /\ Book!Idle.step = "none"
    BY Moments DEF Book!Idle, Transaction
  <2>3. QED
    BY <2>1, <2>2, WorkingMoves
<1>4. ASSUME NEW p \in People, Book!CheckOfficer(p)
      PROVE  BookingsGood'
  <2> DEFINE t == working[p]
             w == [t EXCEPT !.step = "booking"]
  <2>1. /\ t.step = "locked" /\ Book!FenceFree(p, t.officer)
        /\ ~Book!UnavailableBetween(t.officer, t.at) /\ Book!OverlappingBookings(t.officer, t.at, t.visit) = {}
        /\ working' = [working EXCEPT ![p].step = "booking"]
        /\ UNCHANGED <<eligible, visits, assignments, absences>>
    BY <1>4 DEF Book!CheckOfficer
  <2>2. t \in Transaction /\ t # Book!Idle /\ t.officer \in People /\ t.visit \in Attempts
    BY <1>1, <2>1 DEF BookingTypes, Book!Idle
  <2>3. /\ w \in Transaction /\ w.step = "booking" /\ w.officer = t.officer /\ w.at = t.at /\ w.visit = t.visit
        /\ working' = [working EXCEPT ![p] = w]
    BY <2>1, <2>2 DEF Transaction
  <2>4. /\ w # Book!Idle /\ w.step \in {"booking", "recording"} => Book!FenceFree(p, w.officer)
        /\ w.step = "booking" => /\ ~Book!UnavailableBetween(w.officer, w.at)
                                 /\ Book!OverlappingBookings(w.officer, w.at, w.visit) = {}
    BY <2>1, <2>3
  <2>5. /\ w.step = "none" => w = Book!Idle
        /\ w.step # "none" => w.officer \in People
        /\ w.step \in {"locked", "booking"} => w.visit \in Attempts
    BY <2>2, <2>3
  <2>6. w.step # "recording" /\ working[p] # Book!Idle /\ w \in Transaction
        /\ working' = [working EXCEPT ![p] = w]
    BY <2>2, <2>3
  <2> HIDE DEF t, w
  <2>7. QED
    BY <2>1, <2>4, <2>5, <2>6, WorkingMoves
<1>5. ASSUME NEW p \in People, Book!LoseEligibility(p)
      PROVE  BookingsGood'
  <2>1. UNCHANGED <<visits, assignments, absences, working>> /\ eligible' \subseteq People
    BY <1>1, <1>5 DEF Book!LoseEligibility, BookingTypes
  <2>2. QED
    BY <1>1, <1>2, <2>1 DEF BookingTypes
<1>6. ASSUME NEW p \in People, NEW v \in Attempts, NEW o \in People, NEW at \in Book!Times,
             Book!LockVisit(p, v, o, at)
      PROVE  BookingsGood'
  <2> DEFINE w == [step |-> "locked", visit |-> v, officer |-> o, at |-> at, seen |-> {}]
  <2>1. /\ Book!FenceFree(p, p) /\ working' = [working EXCEPT ![p] = w]
        /\ UNCHANGED <<eligible, visits, assignments, absences>>
    BY <1>6 DEF Book!LockVisit, Book!Starts
  <2>2. w \in Transaction /\ w.step = "locked" /\ w.officer \in People /\ w.visit \in Attempts
    BY DEF Transaction
  <2> HIDE DEF w
  <2>3. QED
    BY <2>1, <2>2, WorkingMoves
<1>7. ASSUME NEW p \in People, NEW o \in People, NEW i \in Intervals, Book!FindAffected(p, o, i)
      PROVE  BookingsGood'
  <2> DEFINE w == [step |-> "recording", visit |-> "none", officer |-> o, at |-> i,
                   seen |-> Book!OverlappingBookings(o, i, "none")]
  <2>1. /\ Book!FenceFree(p, p) /\ Book!FenceFree(p, o) /\ working' = [working EXCEPT ![p] = w]
        /\ UNCHANGED <<eligible, visits, assignments, absences>>
    BY <1>7 DEF Book!FindAffected, Book!Starts
  <2>2. Book!OverlappingBookings(o, i, "none") \subseteq Nat
    <3>1. DOMAIN assignments \subseteq Nat
      BY <1>1 DEF BookingTypes
    <3>2. QED
      BY <3>1 DEF Book!OverlappingBookings
  <2>3. /\ w \in Transaction /\ w.step = "recording" /\ w.officer = o /\ w.at = i
        /\ w.seen = Book!OverlappingBookings(o, i, "none")
    BY <2>2, Moments DEF Transaction
  <2> HIDE DEF w
  <2>4. QED
    BY <2>1, <2>3, WorkingMoves
<1>8. ASSUME NEW p \in People, NEW v \in Attempts, Book!CheckIn(p, v)
      PROVE  BookingsGood'
  <2>1. /\ visits[v].status = "SCHEDULED" /\ visits' = [visits EXCEPT ![v].status = "IN_PROGRESS"]
        /\ UNCHANGED <<eligible, assignments, absences, working>>
    BY <1>8 DEF Book!CheckIn
  <2>2. /\ visits' \in [Attempts -> [status: VisitStates, at: Book!Times]]
        /\ \A x \in Attempts : visits'[x].at = visits[x].at /\ (x # v => visits'[x] = visits[x])
    BY <1>1, <2>1 DEF BookingTypes, VisitStates
  <2>3. QED
    BY <1>1, <1>2, <2>1, <2>2 DEF BookingTypes
<1>9. ASSUME NEW p \in People, NEW v \in Attempts, Book!CancelInspection(p, v) \/ Book!FailVisit(p, v)
      PROVE  BookingsGood'
  BY <1>9, VisitEnds DEF Book!CancelInspection, Book!FailVisit
<1>10. ASSUME NEW p \in Supervisors, NEW v \in Attempts, NEW o \in People,
              \/ \E i \in Intervals : Book!ScheduleInspection(p, v, o, i)
              \/ Book!ReassignInspection(p, v, o)
       PROVE  BookingsGood'
  <2>1. CASE \E i \in Intervals : Book!ScheduleInspection(p, v, o, i)
    BY <1>1, <1>6, <2>1, Moments DEF Book!ScheduleInspection
  <2>2. CASE Book!ReassignInspection(p, v, o)
    <3>1. PICK t \in Book!Times : Book!LockVisit(p, v, o, Book!Given(t, visits[v].at))
      BY <2>2 DEF Book!ReassignInspection
    <3>2. visits[v].at \in Book!Times
      BY <1>1 DEF BookingTypes
    <3>3. QED
      BY <1>1, <1>6, <3>1, <3>2, Moments
  <2>3. QED
    BY <1>10, <2>1, <2>2
<1>11. CASE UNCHANGED bookingRows
  BY <1>1, <1>2, <1>11 DEF bookingRows, BookingTypes
<1>12. ASSUME NEW p \in People, Book!RecordAvailability(p) \/ Book!Book(p)
       PROVE  BookingsGood'
  BY <1>12, AbsenceRecorded, Booked
<1>13. QED
  BY <1>3, <1>4, <1>5, <1>7, <1>8, <1>9, <1>10, <1>11, <1>12 DEF Book!Next

\* Nothing is booked at the beginning.
LEMMA BookingsStart == Book!Init => BookingsGood
<1> SUFFICES ASSUME Book!Init PROVE BookingsGood
  OBVIOUS
<1>1. Book!Idle \in Transaction /\ Book!Idle.step = "none"
  BY Moments DEF Book!Idle, Transaction
<1>2. \A p \in People : working[p] = Book!Idle
  BY DEF Book!Init
<1>3. assignments = <<>> /\ absences = <<>>
  BY DEF Book!Init
<1>4. BookingTypes
  BY <1>1, <1>2, <1>3, Moments DEF Book!Init, BookingTypes, VisitStates, Book!Unstarted
<1>5. FencesApart /\ CheckedUnderFence
  BY <1>1, <1>2 DEF FencesApart, CheckedUnderFence, Book!HoldsFence
<1>6. BookedApart /\ BookedAsTold /\ AbsencesReported
  BY <1>3 DEF Book!Init, BookedApart, BookedAsTold, AbsencesReported
<1>7. QED
  BY <1>4, <1>5, <1>6 DEF BookingsGood

\* What the invariant says of the bookings and the absences.
LEMMA CalendarAgrees == BookingsGood => Book!TypeOK /\ Book!NoDoubleBooking /\ Book!AbsenceIsKnown
<1> SUFFICES ASSUME BookingsGood PROVE Book!TypeOK /\ Book!NoDoubleBooking /\ Book!AbsenceIsKnown
  OBVIOUS
<1>1. \A n \in DOMAIN assignments : assignments[n] \in Booking
  BY DEF BookingsGood, BookingTypes
<1>2. \A k \in DOMAIN absences : absences[k].at \in Book!Times
  <2>1. absences \in Seq([officer: People, at: Book!Times, affected: SUBSET Nat])
    BY DEF BookingsGood, BookingTypes
  <2>2. \A k \in DOMAIN absences : absences[k] \in [officer: People, at: Book!Times, affected: SUBSET Nat]
    BY <2>1, RowsOf
  <2>3. QED
    BY <2>2
<1>3. Book!TypeOK
  BY <1>1 DEF Book!TypeOK, BookingsGood, BookingTypes, VisitStates, Booking
<1>4. ASSUME NEW m \in DOMAIN assignments, NEW n \in DOMAIN assignments, m # n,
             assignments[m].state = "ACTIVE", assignments[n].state = "ACTIVE",
             assignments[m].officer = assignments[n].officer
      PROVE  /\ assignments[m].visit # assignments[n].visit
             /\ Book!Instants(assignments[m].at) \cap Book!Instants(assignments[n].at) = {}
  <2>1. assignments[m].visit # assignments[n].visit /\ ~Book!Overlap(assignments[m].at, assignments[n].at)
    BY <1>4 DEF BookingsGood, BookedApart
  <2>2. assignments[m].at \in Book!Times /\ assignments[n].at \in Book!Times
    BY <1>1 DEF Booking
  <2>3. QED
    BY <2>1, <2>2, Disjoint
<1>5. ASSUME NEW v \in Attempts, visits[v].status \in {"SCHEDULED", "IN_PROGRESS"}
      PROVE  \E n \in Book!Current(v) : Book!Current(v) = {n} /\ assignments[n].at = visits[v].at
  <2>1. PICK n \in DOMAIN assignments :
               assignments[n].state = "ACTIVE" /\ assignments[n].visit = v /\ assignments[n].at = visits[v].at
    BY <1>5 DEF BookingsGood, BookedAsTold
  <2>2. \A m \in Book!Current(v) : m = n
    BY <2>1 DEF Book!Current, BookingsGood, BookedApart
  <2>3. QED
    BY <2>1, <2>2 DEF Book!Current
<1>6. Book!NoDoubleBooking
  BY <1>4, <1>5 DEF Book!NoDoubleBooking
<1>7. ASSUME NEW n \in DOMAIN assignments, NEW k \in DOMAIN absences,
             assignments[n].state = "ACTIVE", assignments[n].officer = absences[k].officer,
             Book!Instants(assignments[n].at) \cap Book!Instants(absences[k].at) # {}
      PROVE  n \in absences[k].affected
  <2>1. Book!Overlap(assignments[n].at, absences[k].at)
    BY <1>1, <1>2, <1>7, Disjoint DEF Booking
  <2>2. QED
    BY <1>7, <2>1 DEF BookingsGood, AbsencesReported
<1>8. QED
  BY <1>3, <1>6, <1>7 DEF Book!AbsenceIsKnown

-----------------------------------------------------------------------------
Statuses == {"DRAFT", "SUBMITTED", "UNDER_SCRUTINY"}
IntakeFiling == [at: Nat, tries: 0..Tries, candidate: Nat, held: BOOLEAN]
IntakeCase == [status: Statuses, at: Nat, queue: Queues \cup {"none"}, exception: {"none", "OPEN", "RESOLVED"}, number: Nat]

\* The cases with a number of the sequence below a bound.
NumberedBelow(bound) == {y \in Intk!Submitted : cases[y].number > 0 /\ cases[y].number < bound}
Numbered == {y \in Intk!Submitted : cases[y].number > 0}

\* The number a submission tries, or the least its next count can give.
LeastNext(x) ==
  IF filings[x].candidate > 0 THEN filings[x].candidate
  ELSE Cardinality(Intk!Submitted) + 1 + filings[x].tries

IntakeTypes ==
  /\ table \subseteq Entries
  /\ filings \in [Applications -> IntakeFiling]
  /\ cases \in [Applications -> IntakeCase]
  /\ IsFiniteSet(Intk!Submitted)
  /\ \A x \in Applications : filings[x] # Intk!NotFiling => cases[x].status = "DRAFT"
  /\ \A x \in Applications : cases[x].status = "DRAFT" => cases[x].number = 0

\* A number that is tried is at most the count of a moment ago and the tries.
CandidatesCounted ==
  \A x \in Applications :
    /\ filings[x].held => filings[x].candidate > 0
    /\ filings[x].candidate > 0 =>
         /\ filings[x].tries < Tries
         /\ filings[x].candidate <= Cardinality(Intk!Submitted) + 1 + filings[x].tries

\* Nobody else has or holds a number that is held.
HeldApart ==
  \A x \in Applications : filings[x].held =>
    /\ \A y \in Intk!Submitted : cases[y].number # filings[x].candidate
    /\ \A y \in Applications \ {x} : filings[y].held => filings[y].candidate # filings[x].candidate

\* Each try that failed met another number below the next to be tried.
TriesMet == \A x \in Applications : Cardinality(NumberedBelow(LeastNext(x))) >= filings[x].tries

NumbersGood ==
  \A x \in Intk!Submitted :
    /\ cases[x].queue \in Queues
    /\ cases[x].number < Cardinality(Intk!Submitted) + Tries
    /\ cases[x].number = 0 => Cardinality(Numbered) >= Tries
    /\ cases[x].number > 0 => \A y \in Intk!Submitted \ {x} : cases[y].number # cases[x].number

IntakeGood ==
  IntakeTypes /\ CandidatesCounted /\ HeldApart /\ TriesMet /\ NumbersGood /\ Intk!RoutedOrOwned

-----------------------------------------------------------------------------
(* Intake. *)

\* The active queues of the entry that beats all others in force.
Matching(x, at) ==
  {e \in table : e.ward = WardOf[x] /\ e.category \in {"", CategoryOf[x]} /\ at \in e.from .. e.until - 1}
Winners(x, at) == {e \in Matching(x, at) : \A f \in Matching(x, at) \ {e} : Intk!Beats(e, f)}
Target(x, at) == {e.queue : e \in Winners(x, at)} \cap ActiveQueues

\* A case sits where its route sent it, or as an exception that is open or was resolved.
Owned(x) ==
  IF Target(x, cases[x].at) # {}
  THEN cases[x].queue \in Target(x, cases[x].at) /\ cases[x].exception = "none"
  ELSE \/ cases[x].exception = "RESOLVED" /\ cases[x].queue \in ActiveQueues
       \/ cases[x].exception = "OPEN" /\ cases[x].queue = CentralOf[ServiceOf[x]]
          /\ cases[x].status = "SUBMITTED"

\* RoutedOrOwned says of each submitted case that it is owned or in the queue it matches.
LEMMA OwnedIsRouted == Intk!RoutedOrOwned <=> \A x \in Intk!Submitted : Owned(x)
BY DEF Intk!RoutedOrOwned, Owned, Target, Winners, Matching

\* What the entries and the queues are.
LEMMA Entered ==
  /\ IsFiniteSet(Entries) /\ Readings \subseteq Nat
  /\ \A e \in Entries : e.priority \in Int /\ e.from \in Nat /\ e.until \in Nat /\ e.queue \in Queues
  /\ \A x \in Applications : CategoryOf[x] # "" /\ CentralOf[ServiceOf[x]] \in Queues
  /\ ActiveQueues \subseteq Queues /\ Queues \cap Intk!Codes = {} /\ Tries \in Nat /\ Tries > 0
<1>1. Intk!IntakeAssumption
  BY ServicesAssumption DEF ServicesAssumption
<1>2. IsFiniteSet(Entries)
  BY <1>1 DEF Intk!IntakeAssumption, Intk!IsFiniteSet, IsFiniteSet
<1>3. \A e \in Entries : e.priority \in Int /\ e.from \in Nat /\ e.until \in Nat /\ e.queue \in Queues
  BY <1>1 DEF Intk!IntakeAssumption
<1>4. Tries \in Nat /\ Tries > 0
  <2>1. Tries \in Nat \ {0}
    BY <1>1 DEF Intk!IntakeAssumption
  <2>2. QED
    BY <2>1
<1>5. /\ Readings \subseteq Nat /\ ActiveQueues \subseteq Queues /\ Queues \cap Intk!Codes = {}
      /\ \A x \in Applications : CategoryOf[x] # "" /\ CentralOf[ServiceOf[x]] \in Queues
  BY <1>1 DEF Intk!IntakeAssumption
<1>6. QED
  BY <1>2, <1>3, <1>4, <1>5

\* The best entries of resolve_route are one only if one beats all others.
LEMMA OneWinner ==
  ASSUME table \subseteq Entries, NEW x \in Applications, NEW at \in Nat
  PROVE  /\ \A e : Winners(x, at) = {e} <=> Intk!Best(x, at) = {e}
         /\ Winners(x, at) = {} \/ \E e : Winners(x, at) = {e}
<1>1. Matching(x, at) = Intk!Candidates(x, at)
  <2>1. ASSUME NEW e \in table
        PROVE  at \in e.from .. e.until - 1 <=> e.from <= at /\ at < e.until
    <3>1. e.from \in Nat /\ e.until \in Nat
      BY Entered
    <3>2. QED
      BY <3>1
  <2>2. QED
    BY <2>1 DEF Matching, Intk!Candidates
<1>2. \A e \in Matching(x, at) : e.priority \in Int
  BY Entered DEF Matching
<1> DEFINE C == Matching(x, at)
           S == {e \in C : e.category # ""}
           P == Intk!Pool(x, at)
           B == Intk!Best(x, at)
           W == Winners(x, at)
<1>3. P = IF S = {} THEN C ELSE S
  BY <1>1 DEF Intk!Pool
<1>4. \A e : e \in B <=> e \in P /\ \A f \in P : f.priority <= e.priority
  BY DEF Intk!Best
<1>5. \A e : e \in W <=> e \in C /\ \A f \in C \ {e} :
                \/ (e.category = "" <=> f.category = "") /\ e.priority > f.priority
                \/ e.category # "" /\ f.category = ""
  <2>1. ASSUME NEW e, NEW f
        PROVE  Intk!Beats(e, f) <=> \/ (e.category = "" <=> f.category = "") /\ e.priority > f.priority
                                    \/ e.category # "" /\ f.category = ""
    <3>1. CASE e.category = "" /\ f.category = ""
      BY <3>1 DEF Intk!Beats
    <3>2. CASE e.category # "" /\ f.category # ""
      BY <3>2 DEF Intk!Beats
    <3>3. CASE e.category = "" /\ f.category # ""
      BY <3>3 DEF Intk!Beats
    <3>4. CASE e.category # "" /\ f.category = ""
      BY <3>4 DEF Intk!Beats
    <3>5. QED
      BY <3>1, <3>2, <3>3, <3>4
  <2>2. QED
    BY <2>1 DEF Winners
<1> HIDE DEF C, P, B, W
<1>6. \A e \in C : e.priority \in Int
  BY <1>2 DEF C
<1>7. ASSUME NEW e \in W
      PROVE  W = {e} /\ B = {e}
  <2>1. e \in C /\ e \in P
    <3>1. e \in C /\ \A f \in S : f # e => f.category = "" \/ e.category # ""
      BY <1>5, <1>7
    <3>2. S # {} => e \in S
      BY <3>1
    <3>3. QED
      BY <1>3, <3>1, <3>2
  <2>2. \A f \in P \ {e} : e.priority > f.priority
    BY <1>3, <1>5
  <2>3. P \subseteq C
    BY <1>3
  <2>4. e \in B
    BY <1>4, <1>6, <2>1, <2>2, <2>3
  <2>5. \A f \in B : f = e
    BY <1>4, <1>6, <2>1, <2>2, <2>3
  <2>6. ASSUME NEW f \in W, f # e
        PROVE  FALSE
    <3>1. f \in C
      BY <1>5
    <3>2. CASE e.category = "" <=> f.category = ""
      <4>1. e.priority > f.priority /\ f.priority > e.priority
        BY <1>5, <2>1, <2>6, <3>1, <3>2
      <4>2. QED
        BY <1>6, <2>1, <3>1, <4>1
    <3>3. CASE ~(e.category = "" <=> f.category = "")
      <4>1. f.category = "" /\ e.category = ""
        BY <1>5, <2>1, <2>6, <3>1, <3>3
      <4>2. QED
        BY <3>3, <4>1
    <3>4. QED
      BY <3>2, <3>3
  <2>7. QED
    BY <2>4, <2>5, <2>6
<1>8. ASSUME NEW e, B = {e}
      PROVE  e \in W
  <2>1. e \in P /\ e \in C /\ \A f \in P : f.priority <= e.priority
    BY <1>3, <1>4, <1>8
  <2>2. ASSUME NEW f \in C, f # e
        PROVE  \/ (e.category = "" <=> f.category = "") /\ e.priority > f.priority
               \/ e.category # "" /\ f.category = ""
    <3>1. CASE f \in P
      <4>1. ~(\A g \in P : g.priority <= f.priority)
        BY <1>4, <1>8, <2>2, <3>1
      <4>2. f.priority # e.priority
        BY <2>1, <4>1
      <4>3. e.priority > f.priority
        BY <1>6, <2>1, <3>1, <4>2
      <4>4. e.category = "" <=> f.category = ""
        BY <1>3, <2>1, <3>1
      <4>5. QED
        BY <4>3, <4>4
    <3>2. CASE f \notin P
      <4>1. f.category = "" /\ e.category # ""
        BY <1>3, <2>1, <2>2, <3>2
      <4>2. QED
        BY <4>1
    <3>3. QED
      BY <3>1, <3>2
  <2>3. QED
    BY <1>5, <2>1, <2>2
<1>9. QED
  BY <1>7, <1>8 DEF W, B

\* resolve_route gives the target, or the code of its failure when there is none.
LEMMA RouteTaken ==
  ASSUME table \subseteq Entries, NEW x \in Applications, NEW at \in Nat
  PROVE  IF Target(x, at) # {}
         THEN Intk!ResolveRoute(x, at) \in Target(x, at) /\ Intk!ResolveRoute(x, at) \notin Intk!Codes
         ELSE Intk!ResolveRoute(x, at) \in Intk!Codes
<1> DEFINE B == Intk!Best(x, at)
<1>1. B \subseteq Entries /\ IsFiniteSet(B)
  <2>1. B \subseteq Entries
    BY DEF Intk!Best, Intk!Pool, Intk!Candidates
  <2>2. QED
    BY <2>1, Entered, FS_Subset
<1>2. Intk!Cardinality(B) = Cardinality(B)
  BY <1>1 DEF Intk!Cardinality, Cardinality, IsFiniteSet
<1> HIDE DEF B
<1>3. CASE \E e : B = {e}
  <2>1. PICK e : B = {e}
    BY <1>3
  <2>2. Winners(x, at) = {e}
    BY <2>1, OneWinner DEF B
  <2>3. Cardinality(B) = 1
    BY <2>1, FS_Singleton
  <2>4. (CHOOSE f \in B : TRUE) = e
    BY <2>1
  <2>5. Target(x, at) = {e.queue} \cap ActiveQueues
    BY <2>2 DEF Target
  <2>6. e.queue \in Queues /\ e.queue \notin Intk!Codes
    BY <1>1, <2>1, Entered
  <2>7. B # {} /\ ~(Cardinality(B) > 1)
    BY <2>1, <2>3
  <2>8. Intk!ResolveRoute(x, at) = IF e.queue \notin ActiveQueues THEN "INACTIVE_TARGET" ELSE e.queue
    <3>1. Intk!Best(x, at) # {} /\ ~(Intk!Cardinality(Intk!Best(x, at)) > 1)
      BY <1>2, <2>7 DEF B
    <3>2. (CHOOSE f \in Intk!Best(x, at) : TRUE).queue = e.queue
      BY <2>4 DEF B
    <3>3. QED
      BY <3>1, <3>2 DEF Intk!ResolveRoute
  <2>9. QED
    BY <2>5, <2>6, <2>8 DEF Intk!Codes
<1>4. CASE ~ \E e : B = {e}
  <2>1. Winners(x, at) = {}
    <3>1. \A e : Winners(x, at) = {e} => B = {e}
      BY OneWinner DEF B
    <3>2. Winners(x, at) = {} \/ \E e : Winners(x, at) = {e}
      BY OneWinner
    <3>3. QED
      BY <1>4, <3>1, <3>2
  <2>2. Target(x, at) = {}
    BY <2>1 DEF Target
  <2>3. CASE B = {}
    <3>1. Intk!ResolveRoute(x, at) = "NO_MATCH"
      BY <2>3 DEF Intk!ResolveRoute, B
    <3>2. QED
      BY <2>2, <3>1 DEF Intk!Codes
  <2>4. CASE B # {}
    <3>1. Cardinality(B) \in Nat /\ Cardinality(B) # 0 /\ Cardinality(B) # 1
      <4>1. Cardinality(B) \in Nat
        BY <1>1, FS_CardinalityType
      <4>2. Cardinality(B) # 0
        BY <1>1, <2>4, FS_EmptySet
      <4>3. Cardinality(B) # 1
        BY <1>1, <1>4, FS_Singleton
      <4>4. QED
        BY <4>1, <4>2, <4>3
    <3>2. Cardinality(B) > 1
      BY <3>1
    <3>3. Intk!ResolveRoute(x, at) = "MULTIPLE_MATCH"
      BY <1>2, <2>4, <3>2 DEF Intk!ResolveRoute, B
    <3>4. QED
      BY <2>2, <3>3 DEF Intk!Codes
  <2>5. QED
    BY <2>3, <2>4
<1>5. QED
  BY <1>3, <1>4

\* The sets of numbered cases are finite, and grow with their bound.
LEMMA NumberedFinite ==
  ASSUME IntakeTypes
  PROVE  /\ Cardinality(Intk!Submitted) \in Nat /\ Intk!Submitted \subseteq Applications
         /\ IsFiniteSet(Numbered) /\ Cardinality(Numbered) \in Nat
         /\ \A b \in Nat : IsFiniteSet(NumberedBelow(b)) /\ Cardinality(NumberedBelow(b)) \in Nat
                           /\ Cardinality(NumberedBelow(b)) <= Cardinality(Numbered)
         /\ \A b, c \in Nat : b <= c => Cardinality(NumberedBelow(b)) <= Cardinality(NumberedBelow(c))
<1>1. IsFiniteSet(Intk!Submitted) /\ Intk!Submitted \subseteq Applications
  BY DEF IntakeTypes, Intk!Submitted
<1>2. Numbered \subseteq Intk!Submitted
  BY DEF Numbered
<1>3. \A b \in Nat : NumberedBelow(b) \subseteq Numbered
  BY DEF Numbered, NumberedBelow
<1>4. IsFiniteSet(Numbered) /\ Cardinality(Numbered) \in Nat /\ Cardinality(Intk!Submitted) \in Nat
  BY <1>1, <1>2, FS_Subset, FS_CardinalityType
<1>5. ASSUME NEW b \in Nat
      PROVE  /\ IsFiniteSet(NumberedBelow(b)) /\ Cardinality(NumberedBelow(b)) \in Nat
             /\ Cardinality(NumberedBelow(b)) <= Cardinality(Numbered)
  BY <1>3, <1>4, FS_Subset, FS_CardinalityType
<1>6. ASSUME NEW b \in Nat, NEW c \in Nat, b <= c
      PROVE  Cardinality(NumberedBelow(b)) <= Cardinality(NumberedBelow(c))
  <2>1. \A y \in Intk!Submitted : cases[y].number \in Nat
    BY <1>1 DEF IntakeTypes, IntakeCase
  <2>2. NumberedBelow(b) \subseteq NumberedBelow(c)
    BY <1>6, <2>1 DEF NumberedBelow
  <2>3. QED
    BY <1>5, <2>2, FS_Subset
<1>7. QED
  BY <1>1, <1>4, <1>5, <1>6

\* The fields of a submission and of a case.
LEMMA FiledTypes ==
  ASSUME IntakeTypes, NEW x \in Applications
  PROVE  /\ filings[x] \in IntakeFiling /\ cases[x] \in IntakeCase
         /\ filings[x].at \in Nat /\ filings[x].tries \in Nat /\ filings[x].tries <= Tries
         /\ filings[x].candidate \in Nat /\ filings[x].held \in BOOLEAN
         /\ cases[x].at \in Nat /\ cases[x].number \in Nat /\ cases[x].status \in Statuses
         /\ LeastNext(x) \in Nat /\ Tries \in Nat
<1>1. filings[x] \in IntakeFiling /\ cases[x] \in IntakeCase
  BY DEF IntakeTypes
<1>2. /\ filings[x].at \in Nat /\ filings[x].tries \in 0..Tries
      /\ filings[x].candidate \in Nat /\ filings[x].held \in BOOLEAN
  BY <1>1 DEF IntakeFiling
<1>3. cases[x].at \in Nat /\ cases[x].number \in Nat /\ cases[x].status \in Statuses
  BY <1>1 DEF IntakeCase
<1>4. filings[x].tries \in Nat /\ filings[x].tries <= Tries
  <2>1. Tries \in Nat
    BY Entered
  <2>2. QED
    BY <1>2, <2>1
<1>5. LeastNext(x) \in Nat
  BY <1>2, <1>4, NumberedFinite DEF LeastNext
<1>6. QED
  BY <1>1, <1>2, <1>3, <1>4, <1>5, Entered

\* A step that changes one submission and no case.
LEMMA FilingMoves ==
  ASSUME IntakeGood, UNCHANGED <<table, cases>>, NEW x \in Applications, NEW f \in IntakeFiling,
         filings' = [filings EXCEPT ![x] = f],
         f # Intk!NotFiling => cases[x].status = "DRAFT",
         f.held => f.candidate > 0,
         f.candidate > 0 => f.tries < Tries /\ f.candidate <= Cardinality(Intk!Submitted) + 1 + f.tries,
         f.held => /\ \A y \in Intk!Submitted : cases[y].number # f.candidate
                   /\ \A y \in Applications \ {x} : filings[y].held => filings[y].candidate # f.candidate,
         Cardinality(NumberedBelow(IF f.candidate > 0 THEN f.candidate
                                   ELSE Cardinality(Intk!Submitted) + 1 + f.tries)) >= f.tries
  PROVE  IntakeGood'
<1>1. /\ filings'[x] = f /\ \A y \in Applications \ {x} : filings'[y] = filings[y]
      /\ filings' \in [Applications -> IntakeFiling]
  BY DEF IntakeGood, IntakeTypes
<1>2. Intk!Submitted' = Intk!Submitted /\ Numbered' = Numbered
  BY DEF Intk!Submitted, Numbered
<1>3. \A b : NumberedBelow(b)' = NumberedBelow(b)
  BY <1>2 DEF NumberedBelow
<1>4. IntakeTypes'
  BY <1>1, <1>2 DEF IntakeGood, IntakeTypes
<1>5. CandidatesCounted'
  BY <1>1, <1>2 DEF IntakeGood, CandidatesCounted
<1>6. HeldApart'
  BY <1>1, <1>2 DEF IntakeGood, HeldApart
<1>7. TriesMet'
  <2>1. ASSUME NEW y \in Applications
        PROVE  Cardinality(NumberedBelow(LeastNext(y)))' >= filings'[y].tries
    <3>1. CASE y = x
      <4>1. LeastNext(y)' = IF f.candidate > 0 THEN f.candidate ELSE Cardinality(Intk!Submitted) + 1 + f.tries
        BY <1>1, <1>2, <3>1 DEF LeastNext
      <4>2. PICK b : b = LeastNext(y)'
        OBVIOUS
      <4>3. NumberedBelow(LeastNext(y))' = NumberedBelow(b)'
        BY <4>2 DEF NumberedBelow
      <4>4. QED
        BY <1>1, <1>3, <3>1, <4>1, <4>2, <4>3
    <3>2. CASE y # x
      <4>1. LeastNext(y)' = LeastNext(y)
        BY <1>1, <1>2, <3>2 DEF LeastNext
      <4>2. NumberedBelow(LeastNext(y))' = NumberedBelow(LeastNext(y))
        BY <1>2, <4>1 DEF NumberedBelow
      <4>3. QED
        BY <1>1, <3>2, <4>2 DEF IntakeGood, TriesMet
    <3>3. QED
      BY <3>1, <3>2
  <2>2. QED
    BY <2>1 DEF TriesMet
<1>8. NumbersGood'
  BY <1>2 DEF IntakeGood, NumbersGood
<1>9. Intk!RoutedOrOwned'
  <2>1. \A y \in Intk!Submitted : Owned(y)' = Owned(y)
    BY DEF Owned, Target, Winners, Matching
  <2>2. (\A y \in Intk!Submitted : Owned(y))'
    BY <1>2, <2>1, OwnedIsRouted DEF IntakeGood
  <2>3. QED
    BY <2>2 DEF Intk!RoutedOrOwned, Owned, Target, Winners, Matching
<1>10. QED
  BY <1>4, <1>5, <1>6, <1>7, <1>8, <1>9 DEF IntakeGood

\* A step on one submitted case that leaves its number and its instant.
LEMMA CaseMoves ==
  ASSUME IntakeGood, UNCHANGED <<table, filings>>, NEW x \in Applications, NEW c \in IntakeCase,
         cases' = [cases EXCEPT ![x] = c], c.number = cases[x].number,
         c.status = "DRAFT" <=> cases[x].status = "DRAFT",
         x \in Intk!Submitted => c.queue \in Queues /\ Owned(x)'
  PROVE  IntakeGood'
<1>1. /\ cases'[x] = c /\ \A y \in Applications \ {x} : cases'[y] = cases[y]
      /\ cases' \in [Applications -> IntakeCase]
  BY DEF IntakeGood, IntakeTypes
<1>2. Intk!Submitted' = Intk!Submitted /\ Intk!Submitted \subseteq Applications
  BY <1>1 DEF Intk!Submitted
<1>3. \A y \in Applications : cases'[y].number = cases[y].number
  BY <1>1
<1>4. Numbered' = Numbered
  BY <1>2, <1>3 DEF Numbered
<1>5. IntakeTypes'
  BY <1>1, <1>2 DEF IntakeGood, IntakeTypes
<1>6. CandidatesCounted'
  BY <1>2 DEF IntakeGood, CandidatesCounted
<1>7. HeldApart'
  BY <1>2, <1>3 DEF IntakeGood, HeldApart
<1>8. TriesMet'
  <2>1. ASSUME NEW y \in Applications
        PROVE  Cardinality(NumberedBelow(LeastNext(y)))' = Cardinality(NumberedBelow(LeastNext(y)))
    <3>1. LeastNext(y)' = LeastNext(y)
      BY <1>2 DEF LeastNext
    <3>2. QED
      BY <1>2, <1>3, <3>1 DEF NumberedBelow
  <2>2. QED
    BY <2>1 DEF IntakeGood, TriesMet
<1>9. NumbersGood'
  <2>1. \A y \in Intk!Submitted : cases'[y].queue \in Queues
    BY <1>1, <1>2 DEF IntakeGood, NumbersGood
  <2>2. QED
    BY <1>2, <1>3, <1>4, <2>1 DEF IntakeGood, NumbersGood
<1>10. Intk!RoutedOrOwned'
  <2>1. ASSUME NEW y \in Intk!Submitted
        PROVE  Owned(y)'
    <3>1. CASE y # x
      <4>1. cases'[y] = cases[y]
        BY <1>1, <1>2, <3>1
      <4>2. Owned(y)
        BY OwnedIsRouted DEF IntakeGood
      <4>3. PICK a : a = cases[y].at
        OBVIOUS
      <4>4. Target(y, a)' = Target(y, a)
        BY DEF Target, Winners, Matching
      <4>5. (cases[y].at)' = a
        BY <4>1, <4>3
      <4>6. Target(y, cases[y].at)' = Target(y, a)
        BY <4>4, <4>5 DEF Target, Winners, Matching
      <4>7. QED
        BY <4>1, <4>2, <4>3, <4>6 DEF Owned
    <3>2. CASE y = x
      BY <3>2
    <3>3. QED
      BY <3>1, <3>2
  <2>2. (\A y \in Intk!Submitted : Owned(y))'
    BY <1>2, <2>1
  <2>3. QED
    BY <2>2 DEF Intk!RoutedOrOwned, Owned, Target, Winners, Matching
<1>11. QED
  BY <1>5, <1>6, <1>7, <1>8, <1>9, <1>10 DEF IntakeGood

\* What no submission is under way has.
LEMMA NotFilingTyped == Intk!NotFiling \in IntakeFiling
<1>1. Tries \in Nat
  BY Entered
<1>2. QED
  BY <1>1 DEF Intk!NotFiling, IntakeFiling

\* The commit of a submission.
LEMMA Committed ==
  ASSUME IntakeGood, NEW x \in Applications, Intk!Submit(x)
  PROVE  IntakeGood'
<1> DEFINE c == cases'[x]
           n == Cardinality(Intk!Submitted)
<1>1. /\ IntakeTypes /\ (filings[x].held \/ filings[x].tries = Tries)
      /\ cases' = [cases EXCEPT ![x] = c] /\ c.status = "SUBMITTED" /\ c.at = filings[x].at
      /\ c.number = filings[x].candidate /\ filings' = [filings EXCEPT ![x] = Intk!NotFiling] /\ table' = table
      /\ LET route == Intk!ResolveRoute(x, filings[x].at) IN
         /\ c.queue = IF route \in Intk!Codes THEN CentralOf[ServiceOf[x]] ELSE route
         /\ c.exception = IF route \in Intk!Codes THEN "OPEN" ELSE "none"
  <2>1. cases \in [Applications -> IntakeCase]
    BY DEF IntakeGood, IntakeTypes
  <2>2. c = [status |-> "SUBMITTED", at |-> filings[x].at, number |-> filings[x].candidate,
             queue |-> IF Intk!ResolveRoute(x, filings[x].at) \in Intk!Codes
                       THEN CentralOf[ServiceOf[x]] ELSE Intk!ResolveRoute(x, filings[x].at),
             exception |-> IF Intk!ResolveRoute(x, filings[x].at) \in Intk!Codes THEN "OPEN" ELSE "none"]
    BY <2>1 DEF Intk!Submit
  <2>3. cases' = [cases EXCEPT ![x] = c]
    BY <2>2 DEF Intk!Submit
  <2>4. QED
    BY <2>2, <2>3 DEF Intk!Submit, IntakeGood
<1>2. table \subseteq Entries /\ filings[x].at \in Nat
  BY FiledTypes DEF IntakeGood, IntakeTypes
<1>3. c.queue \in Queues /\ Owned(x)'
  <2>1. PICK a : a = filings[x].at
    OBVIOUS
  <2>2. Target(x, a)' = Target(x, a)
    BY <1>1 DEF Target, Winners, Matching
  <2>3. Owned(x)' <=> IF Target(x, a) # {} THEN c.queue \in Target(x, a) /\ c.exception = "none"
                      ELSE \/ c.exception = "RESOLVED" /\ c.queue \in ActiveQueues
                           \/ c.exception = "OPEN" /\ c.queue = CentralOf[ServiceOf[x]] /\ c.status = "SUBMITTED"
    <3>1. (cases[x].at)' = a
      BY <1>1, <2>1
    <3>2. Target(x, cases[x].at)' = Target(x, a)'
      BY <3>1 DEF Target, Winners, Matching
    <3>3. QED
      BY <2>2, <3>2 DEF Owned
  <2>4. CASE Target(x, a) # {}
    <3>1. Intk!ResolveRoute(x, a) \in Target(x, a) /\ Intk!ResolveRoute(x, a) \notin Intk!Codes
      BY <1>2, <2>1, <2>4, RouteTaken
    <3>2. c.queue \in Target(x, a) /\ c.exception = "none"
      BY <1>1, <2>1, <3>1
    <3>3. c.queue \in Queues
      BY <3>2, Entered DEF Target
    <3>4. QED
      BY <2>3, <2>4, <3>2, <3>3
  <2>5. CASE Target(x, a) = {}
    <3>1. Intk!ResolveRoute(x, a) \in Intk!Codes
      BY <1>2, <2>1, <2>5, RouteTaken
    <3>2. c.queue = CentralOf[ServiceOf[x]] /\ c.exception = "OPEN"
      BY <1>1, <2>1, <3>1
    <3>3. c.queue \in Queues
      BY <3>2, Entered
    <3>4. QED
      BY <1>1, <2>3, <2>5, <3>2, <3>3
  <2>6. QED
    BY <2>4, <2>5
<1>4. c \in IntakeCase
  <2>1. /\ filings[x].candidate \in Nat
        /\ IF Intk!ResolveRoute(x, filings[x].at) \in Intk!Codes THEN c.exception = "OPEN" ELSE c.exception = "none"
    BY <1>1, FiledTypes
  <2>2. c.exception \in {"none", "OPEN", "RESOLVED"}
    BY <2>1
  <2>3. c = [status |-> c.status, at |-> c.at, queue |-> c.queue, exception |-> c.exception, number |-> c.number]
    BY DEF Intk!Submit, IntakeGood, IntakeTypes
  <2>4. QED
    BY <1>1, <1>2, <1>3, <2>1, <2>2, <2>3 DEF IntakeCase, Statuses
<1> HIDE DEF c
<1>5. /\ filings[x] # Intk!NotFiling /\ cases[x].status = "DRAFT" /\ x \notin Intk!Submitted
  <2>1. filings[x] # Intk!NotFiling
    <3>1. Tries > 0 /\ Tries \in Nat
      BY Entered
    <3>2. Intk!NotFiling.held = FALSE /\ Intk!NotFiling.tries = 0
      BY DEF Intk!NotFiling
    <3>3. QED
      BY <1>1, <3>1, <3>2
  <2>2. QED
    BY <2>1 DEF IntakeGood, IntakeTypes, Intk!Submitted
<1>6. /\ cases' \in [Applications -> IntakeCase] /\ cases'[x] = c
      /\ \A y \in Applications \ {x} : cases'[y] = cases[y]
  BY <1>1, <1>4 DEF IntakeTypes
<1>7. Intk!Submitted' = Intk!Submitted \cup {x}
  BY <1>1, <1>6 DEF Intk!Submitted
<1>8. n \in Nat /\ IsFiniteSet(Intk!Submitted') /\ Cardinality(Intk!Submitted') = n + 1
  <2>1. IsFiniteSet(Intk!Submitted)
    BY <1>1 DEF IntakeTypes
  <2>2. QED
    BY <1>5, <1>7, <2>1, FS_AddElement, FS_CardinalityType
<1> HIDE DEF n
<1>9. /\ Intk!NotFiling \in IntakeFiling
      /\ filings' \in [Applications -> IntakeFiling] /\ filings'[x] = Intk!NotFiling
      /\ \A y \in Applications \ {x} : filings'[y] = filings[y]
  <2>1. Intk!NotFiling \in IntakeFiling
    BY NotFilingTyped
  <2>2. QED
    BY <1>1, <2>1 DEF IntakeTypes
<1>10. IntakeTypes'
  <2>1. ASSUME NEW y \in Applications, filings'[y] # Intk!NotFiling
        PROVE  cases'[y].status = "DRAFT"
    BY <1>6, <1>9, <2>1 DEF IntakeGood, IntakeTypes
  <2>2. QED
    BY <1>1, <1>2, <1>6, <1>8, <1>9, <2>1 DEF IntakeTypes
<1>11. CandidatesCounted'
  <2>1. ASSUME NEW y \in Applications
        PROVE  /\ filings'[y].held => filings'[y].candidate > 0
               /\ filings'[y].candidate > 0 =>
                    filings'[y].tries < Tries /\ filings'[y].candidate <= Cardinality(Intk!Submitted') + 1 + filings'[y].tries
    <3>1. CASE y = x
      BY <1>9, <3>1 DEF Intk!NotFiling
    <3>2. CASE y # x
      <4>1. /\ filings[y].held => filings[y].candidate > 0
            /\ filings[y].candidate > 0 => filings[y].tries < Tries /\ filings[y].candidate <= n + 1 + filings[y].tries
        BY DEF IntakeGood, CandidatesCounted, n
      <4>2. filings[y].candidate \in Nat /\ filings[y].tries \in Nat
        BY <1>1, FiledTypes
      <4>3. filings'[y] = filings[y]
        BY <1>9, <3>2
      <4>4. QED
        BY <1>8, <4>1, <4>2, <4>3
    <3>3. QED
      BY <3>1, <3>2
  <2>2. QED
    BY <2>1 DEF CandidatesCounted
<1>12. HeldApart'
  <2>1. ASSUME NEW y \in Applications, filings'[y].held
        PROVE  /\ y # x /\ filings'[y] = filings[y] /\ filings[y].held /\ filings[y].candidate > 0
               /\ \A z \in Intk!Submitted : cases[z].number # filings[y].candidate
               /\ \A z \in Applications \ {y} : filings[z].held => filings[z].candidate # filings[y].candidate
    <3>1. y # x
      BY <1>9, <2>1 DEF Intk!NotFiling
    <3>2. filings'[y] = filings[y]
      BY <1>9, <3>1
    <3>3. QED
      BY <2>1, <3>1, <3>2 DEF IntakeGood, HeldApart, CandidatesCounted
  <2>2. ASSUME NEW y \in Applications, filings'[y].held, NEW z \in Intk!Submitted'
        PROVE  cases'[z].number # filings'[y].candidate
    <3>1. CASE z = x
      <4>1. CASE filings[x].held
        BY <1>1, <1>6, <2>1, <2>2, <3>1, <4>1
      <4>2. CASE ~filings[x].held
        <5>1. filings[x].tries = Tries /\ Tries \in Nat /\ filings[x].candidate \in Nat
          BY <1>1, <4>2, FiledTypes
        <5>2. filings[x].candidate = 0
          BY <5>1 DEF IntakeGood, CandidatesCounted
        <5>3. filings'[y].candidate > 0
          BY <2>1, <2>2
        <5>4. QED
          BY <1>1, <1>6, <3>1, <5>2, <5>3
      <4>3. QED
        BY <4>1, <4>2
    <3>2. CASE z # x
      BY <1>6, <1>7, <2>1, <2>2, <3>2 DEF Intk!Submitted
    <3>3. QED
      BY <3>1, <3>2
  <2>3. ASSUME NEW y \in Applications, filings'[y].held, NEW z \in Applications \ {y}, filings'[z].held
        PROVE  filings'[z].candidate # filings'[y].candidate
    <3>1. z # x /\ filings'[z] = filings[z] /\ filings'[y] = filings[y]
      BY <2>1, <2>3
    <3>2. QED
      BY <2>1, <2>3, <3>1
  <2>4. QED
    BY <2>2, <2>3 DEF HeldApart
<1>13. /\ Numbered \subseteq Numbered'
       /\ \A b \in Nat : NumberedBelow(b) \subseteq NumberedBelow(b)'
  <2>1. \A y \in Intk!Submitted : y \in Intk!Submitted' /\ cases'[y] = cases[y]
    BY <1>5, <1>6, <1>7 DEF Intk!Submitted
  <2>2. QED
    BY <2>1 DEF Numbered, NumberedBelow
<1>14. /\ IsFiniteSet(Numbered') /\ Cardinality(Numbered') \in Nat
       /\ \A b \in Nat : IsFiniteSet(NumberedBelow(b)') /\ Cardinality(NumberedBelow(b)') \in Nat
  <2>1. IsFiniteSet(Intk!Submitted')
    BY <1>8
  <2>2. Numbered' \subseteq Intk!Submitted' /\ \A b \in Nat : NumberedBelow(b)' \subseteq Intk!Submitted'
    BY DEF Numbered, NumberedBelow
  <2>3. QED
    BY <2>1, <2>2, FS_Subset, FS_CardinalityType
<1>15. TriesMet'
  <2>1. ASSUME NEW y \in Applications
        PROVE  Cardinality(NumberedBelow(LeastNext(y)))' >= filings'[y].tries
    <3>1. PICK b : b = LeastNext(y)'
      OBVIOUS
    <3>2. NumberedBelow(LeastNext(y))' = NumberedBelow(b)'
      BY <3>1 DEF NumberedBelow
    <3>3. filings'[y] \in IntakeFiling
      BY <1>9
    <3>4. filings'[y].candidate \in Nat /\ filings'[y].tries \in Nat
      <4>1. Tries \in Nat
        BY Entered
      <4>2. QED
        BY <3>3, <4>1 DEF IntakeFiling
    <3>5. b \in Nat
      BY <1>8, <3>1, <3>4 DEF LeastNext
    <3>6. CASE y = x
      <4>1. filings'[y].tries = 0
        BY <1>9, <3>6 DEF Intk!NotFiling
      <4>2. Cardinality(NumberedBelow(b)') \in Nat
        BY <1>14, <3>5
      <4>3. QED
        BY <3>2, <4>1, <4>2
    <3>7. CASE y # x
      <4>1. filings'[y] = filings[y]
        BY <1>9, <3>7
      <4>2. LeastNext(y) \in Nat /\ LeastNext(y) <= b
        <5>1. b = IF filings[y].candidate > 0 THEN filings[y].candidate ELSE n + 1 + 1 + filings[y].tries
          BY <1>8, <3>1, <4>1 DEF LeastNext
        <5>2. LeastNext(y) = IF filings[y].candidate > 0 THEN filings[y].candidate ELSE n + 1 + filings[y].tries
          BY DEF LeastNext, n
        <5>3. filings[y].candidate \in Nat /\ filings[y].tries \in Nat
          BY <3>4, <4>1
        <5>4. QED
          BY <1>8, <5>1, <5>2, <5>3
      <4>3. PICK a : a = LeastNext(y)
        OBVIOUS
      <4>4. Cardinality(NumberedBelow(a)) >= filings[y].tries /\ a \in Nat /\ a <= b
        BY <4>2, <4>3 DEF IntakeGood, TriesMet
      <4>5. /\ Cardinality(NumberedBelow(a)) <= Cardinality(NumberedBelow(b))
            /\ Cardinality(NumberedBelow(a)) \in Nat /\ Cardinality(NumberedBelow(b)) \in Nat
        BY <1>1, <3>5, <4>4, NumberedFinite
      <4>6. Cardinality(NumberedBelow(b)) <= Cardinality(NumberedBelow(b)') /\ Cardinality(NumberedBelow(b)') \in Nat
        BY <1>13, <1>14, <3>5, FS_Subset
      <4>7. QED
        BY <3>2, <3>4, <4>1, <4>4, <4>5, <4>6
    <3>8. QED
      BY <3>6, <3>7
  <2>2. QED
    BY <2>1 DEF TriesMet
<1>16. NumbersGood'
  <2>0. Tries \in Nat /\ Cardinality(Numbered) \in Nat /\ filings[x].candidate \in Nat /\ filings[x].tries \in Nat
    BY <1>1, FiledTypes, NumberedFinite
  <2>1. Cardinality(Numbered) <= Cardinality(Numbered')
    BY <1>13, <1>14, FS_Subset
  <2>2. ASSUME NEW y \in Intk!Submitted
        PROVE  /\ y # x /\ y \in Applications /\ cases'[y] = cases[y] /\ cases[y].number \in Nat
               /\ cases[y].queue \in Queues
               /\ cases[y].number < n + Tries
               /\ cases[y].number = 0 => Cardinality(Numbered) >= Tries
               /\ cases[y].number > 0 => \A z \in Intk!Submitted \ {y} : cases[z].number # cases[y].number
    <3>1. y # x /\ y \in Applications
      BY <1>5 DEF Intk!Submitted
    <3>2. cases'[y] = cases[y] /\ cases[y].number \in Nat
      BY <1>1, <1>6, <3>1, FiledTypes
    <3>3. QED
      BY <3>1, <3>2 DEF IntakeGood, NumbersGood, n
  <2>3. /\ c.number > 0 => \A z \in Intk!Submitted : cases[z].number # c.number
        /\ c.number < n + 1 + Tries
        /\ c.number = 0 => Cardinality(Numbered) >= Tries
    <3>1. CASE filings[x].held
      <4>1. /\ filings[x].candidate > 0 /\ filings[x].tries < Tries /\ filings[x].candidate <= n + 1 + filings[x].tries
            /\ \A z \in Intk!Submitted : cases[z].number # filings[x].candidate
        BY <3>1 DEF IntakeGood, CandidatesCounted, HeldApart, n
      <4>2. QED
        BY <1>1, <1>8, <2>0, <4>1
    <3>2. CASE ~filings[x].held
      <4>1. filings[x].tries = Tries
        BY <1>1, <3>2
      <4>2. filings[x].candidate = 0
        BY <2>0, <4>1 DEF IntakeGood, CandidatesCounted
      <4>3. PICK a : a = LeastNext(x)
        OBVIOUS
      <4>4. a \in Nat /\ Cardinality(NumberedBelow(a)) >= filings[x].tries
        BY <1>1, <4>3, FiledTypes DEF IntakeGood, TriesMet
      <4>5. Cardinality(NumberedBelow(a)) <= Cardinality(Numbered) /\ Cardinality(NumberedBelow(a)) \in Nat
        BY <1>1, <4>4, NumberedFinite
      <4>6. Cardinality(Numbered) >= Tries
        BY <2>0, <4>1, <4>4, <4>5
      <4>7. 0 < n + 1 + Tries
        BY <1>8, <2>0
      <4>8. QED
        BY <1>1, <4>2, <4>6, <4>7
    <3>3. QED
      BY <3>1, <3>2
  <2>4. Cardinality(Numbered') \in Nat
    BY <1>14
  <2>5. ASSUME NEW y \in Intk!Submitted'
        PROVE  /\ cases'[y].queue \in Queues
               /\ cases'[y].number < n + 1 + Tries
               /\ cases'[y].number = 0 => Cardinality(Numbered') >= Tries
               /\ cases'[y].number > 0 => \A z \in Intk!Submitted' \ {y} : cases'[z].number # cases'[y].number
    <3>1. CASE y = x
      <4>1. c.number > 0 => \A z \in Intk!Submitted' \ {x} : cases'[z].number # c.number
        BY <1>7, <2>2, <2>3
      <4>2. c.number = 0 => Cardinality(Numbered') >= Tries
        BY <2>0, <2>1, <2>3, <2>4
      <4>3. QED
        BY <1>3, <1>6, <2>3, <3>1, <4>1, <4>2 DEF c
    <3>2. CASE y \in Intk!Submitted
      <4>1. cases'[y].number = 0 => Cardinality(Numbered') >= Tries
        BY <2>0, <2>1, <2>2, <2>4, <3>2
      <4>2. cases'[y].number < n + 1 + Tries
        BY <1>8, <2>0, <2>2, <3>2
      <4>3. ASSUME cases'[y].number > 0, NEW z \in Intk!Submitted' \ {y}
            PROVE  cases'[z].number # cases'[y].number
        <5>1. CASE z = x
          BY <1>6, <2>2, <2>3, <3>2, <4>3, <5>1
        <5>2. CASE z # x
          BY <1>7, <2>2, <3>2, <4>3, <5>2
        <5>3. QED
          BY <5>1, <5>2
      <4>4. QED
        BY <2>2, <3>2, <4>1, <4>2, <4>3
    <3>3. QED
      BY <1>7, <3>1, <3>2
  <2>6. QED
    BY <1>8, <2>5 DEF NumbersGood
<1>17. Intk!RoutedOrOwned'
  <2>1. ASSUME NEW y \in Intk!Submitted
        PROVE  Owned(y)'
    <3>1. y # x /\ y \in Applications
      BY <1>5 DEF Intk!Submitted
    <3>2. cases'[y] = cases[y] /\ table' = table
      BY <1>1, <1>6, <3>1
    <3>3. Owned(y)
      BY OwnedIsRouted DEF IntakeGood
    <3>4. QED
      BY <3>2, <3>3 DEF Owned, Target, Winners, Matching
  <2>2. (\A y \in Intk!Submitted : Owned(y))'
    BY <1>3, <1>7, <2>1
  <2>3. QED
    BY <2>2 DEF Intk!RoutedOrOwned, Owned, Target, Winners, Matching
<1>18. QED
  BY <1>10, <1>11, <1>12, <1>15, <1>16, <1>17 DEF IntakeGood

\* Every step of a submission and of its case keeps the invariant.
LEMMA IntakeKept == IntakeGood /\ [Intk!Next]_intakeRows => IntakeGood'
<1> SUFFICES ASSUME IntakeGood, [Intk!Next]_intakeRows PROVE IntakeGood'
  OBVIOUS
<1>0. IntakeTypes /\ Cardinality(Intk!Submitted) \in Nat
  BY NumberedFinite DEF IntakeGood
<1>1. ASSUME NEW x \in Applications, NEW at \in Readings, Intk!BeginSubmit(x, at)
      PROVE  IntakeGood'
  <2> DEFINE f == [filings[x] EXCEPT !.at = at]
  <2>1. cases[x].status = "DRAFT" /\ filings' = [filings EXCEPT ![x] = f] /\ UNCHANGED <<table, cases>>
    BY <1>1 DEF Intk!BeginSubmit
  <2>2. f \in IntakeFiling /\ f.held = filings[x].held /\ f.candidate = filings[x].candidate /\ f.tries = filings[x].tries
    BY <1>0, FiledTypes, Entered DEF IntakeFiling
  <2>3. /\ filings[x].held => filings[x].candidate > 0
        /\ filings[x].candidate > 0 => filings[x].tries < Tries
                                       /\ filings[x].candidate <= Cardinality(Intk!Submitted) + 1 + filings[x].tries
        /\ filings[x].held => /\ \A y \in Intk!Submitted : cases[y].number # filings[x].candidate
                              /\ \A y \in Applications \ {x} : filings[y].held => filings[y].candidate # filings[x].candidate
        /\ Cardinality(NumberedBelow(LeastNext(x))) >= filings[x].tries
    BY DEF IntakeGood, CandidatesCounted, HeldApart, TriesMet
  <2> HIDE DEF f
  <2>4. QED
    BY <2>1, <2>2, <2>3, FilingMoves DEF LeastNext
<1>2. ASSUME NEW x \in Applications, Intk!CountReferences(x)
      PROVE  IntakeGood'
  <2> DEFINE f == [filings[x] EXCEPT !.candidate = Cardinality(Intk!Submitted) + 1 + filings[x].tries]
  <2>1. Intk!Cardinality(Intk!Submitted) = Cardinality(Intk!Submitted)
    BY <1>0 DEF IntakeTypes, Intk!Cardinality, Cardinality, IsFiniteSet
  <2>2. /\ filings[x] # Intk!NotFiling /\ ~filings[x].held /\ filings[x].candidate = 0 /\ filings[x].tries < Tries
        /\ filings' = [filings EXCEPT ![x] = f] /\ UNCHANGED <<table, cases>>
    BY <1>2, <2>1 DEF Intk!CountReferences, Intk!Filing
  <2>3. filings[x].tries \in Nat /\ filings[x] \in IntakeFiling
    BY <1>0, FiledTypes
  <2>4. /\ f \in IntakeFiling /\ f.held = filings[x].held /\ f.tries = filings[x].tries
        /\ f.candidate = Cardinality(Intk!Submitted) + 1 + filings[x].tries
    BY <1>0, <2>3 DEF IntakeFiling
  <2>5. Cardinality(NumberedBelow(Cardinality(Intk!Submitted) + 1 + filings[x].tries)) >= filings[x].tries
    BY <2>2, <2>3 DEF IntakeGood, TriesMet, LeastNext
  <2>6. cases[x].status = "DRAFT"
    BY <1>0, <2>2 DEF IntakeTypes
  <2> HIDE DEF f
  <2>7. f.candidate > 0 /\ f.candidate <= Cardinality(Intk!Submitted) + 1 + f.tries
    BY <1>0, <2>3, <2>4
  <2>8. QED
    BY <2>2, <2>4, <2>5, <2>6, <2>7, FilingMoves
<1>3. ASSUME NEW x \in Applications, Intk!TakeReference(x)
      PROVE  IntakeGood'
  <2>1. /\ filings[x].candidate > 0 /\ ~filings[x].held /\ UNCHANGED <<table, cases>>
        /\ \A y \in Applications : filings[y].held => filings[y].candidate # filings[x].candidate
    BY <1>3 DEF Intk!TakeReference
  <2>2. /\ filings[x] \in IntakeFiling /\ filings[x].tries \in Nat /\ filings[x].tries < Tries /\ Tries \in Nat
        /\ filings[x].candidate \in Nat /\ filings[x].candidate <= Cardinality(Intk!Submitted) + 1 + filings[x].tries
    BY <1>0, <2>1, FiledTypes DEF IntakeGood, CandidatesCounted
  <2>3. cases[x].status = "DRAFT"
    <3>1. Intk!NotFiling.candidate = 0
      BY DEF Intk!NotFiling
    <3>2. filings[x] # Intk!NotFiling
      BY <2>1, <3>1
    <3>3. QED
      BY <1>0, <3>2 DEF IntakeTypes
  <2>4. Cardinality(NumberedBelow(filings[x].candidate)) >= filings[x].tries
    BY <2>1 DEF IntakeGood, TriesMet, LeastNext
  <2>5. CASE \E y \in Applications : cases[y].number = filings[x].candidate
    <3> DEFINE f == [filings[x] EXCEPT !.candidate = 0, !.tries = filings[x].tries + 1]
               b == Cardinality(Intk!Submitted) + 1 + (filings[x].tries + 1)
    <3>1. filings' = [filings EXCEPT ![x] = f]
      BY <1>3, <2>5 DEF Intk!TakeReference
    <3>2. f \in IntakeFiling /\ f.held = filings[x].held /\ f.tries = filings[x].tries + 1 /\ f.candidate = 0
      <4>1. filings[x].tries + 1 \in 0..Tries
        BY <2>2
      <4>2. QED
        BY <2>2, <4>1 DEF IntakeFiling
    <3>3. PICK y \in Applications : cases[y].number = filings[x].candidate
      BY <2>5
    <3>4. y \in Intk!Submitted
      BY <1>0, <2>1, <3>3 DEF IntakeTypes, Intk!Submitted
    <3>5. b \in Nat /\ filings[x].candidate < b
      BY <1>0, <2>2
    <3> HIDE DEF b, f
    <3>6. /\ y \in NumberedBelow(b) /\ y \notin NumberedBelow(filings[x].candidate)
          /\ NumberedBelow(filings[x].candidate) \subseteq NumberedBelow(b)
      <4>1. \A z \in Intk!Submitted : cases[z].number \in Nat
        BY <1>0, FiledTypes, NumberedFinite
      <4>2. QED
        BY <2>1, <2>2, <3>3, <3>4, <3>5, <4>1 DEF NumberedBelow
    <3>7. /\ IsFiniteSet(NumberedBelow(b)) /\ IsFiniteSet(NumberedBelow(filings[x].candidate))
          /\ Cardinality(NumberedBelow(b)) \in Nat /\ Cardinality(NumberedBelow(filings[x].candidate)) \in Nat
      BY <1>0, <2>2, <3>5, NumberedFinite
    <3>8. Cardinality(NumberedBelow(filings[x].candidate) \cup {y}) = Cardinality(NumberedBelow(filings[x].candidate)) + 1
      BY <3>6, <3>7, FS_AddElement
    <3>9. Cardinality(NumberedBelow(filings[x].candidate) \cup {y}) <= Cardinality(NumberedBelow(b))
      <4>1. NumberedBelow(filings[x].candidate) \cup {y} \subseteq NumberedBelow(b)
        BY <3>6
      <4>2. QED
        BY <3>7, <4>1, FS_Subset
    <3>10. Cardinality(NumberedBelow(b)) >= f.tries
      BY <2>2, <2>4, <3>2, <3>7, <3>8, <3>9
    <3>11. b = Cardinality(Intk!Submitted) + 1 + f.tries
      BY <3>2 DEF b
    <3>12. ~f.held /\ ~(f.candidate > 0)
      BY <2>1, <3>2
    <3>13. QED
      BY <2>1, <2>3, <3>1, <3>2, <3>10, <3>11, <3>12, FilingMoves
  <2>6. CASE ~ \E y \in Applications : cases[y].number = filings[x].candidate
    <3> DEFINE f == [filings[x] EXCEPT !.held = TRUE]
    <3>1. filings' = [filings EXCEPT ![x] = f]
      BY <1>3, <2>6 DEF Intk!TakeReference
    <3>2. f \in IntakeFiling /\ f.held /\ f.tries = filings[x].tries /\ f.candidate = filings[x].candidate
      BY <2>2 DEF IntakeFiling
    <3> HIDE DEF f
    <3>3. \A y \in Intk!Submitted : cases[y].number # filings[x].candidate
      BY <2>6 DEF Intk!Submitted
    <3>4. (IF f.candidate > 0 THEN f.candidate ELSE Cardinality(Intk!Submitted) + 1 + f.tries) = filings[x].candidate
      BY <2>1, <3>2
    <3>5. \A y \in Applications \ {x} : filings[y].held => filings[y].candidate # f.candidate
      BY <2>1, <3>2
    <3>6. Cardinality(NumberedBelow(IF f.candidate > 0 THEN f.candidate
                                    ELSE Cardinality(Intk!Submitted) + 1 + f.tries)) >= f.tries
      BY <2>4, <3>2, <3>4
    <3>7. f.candidate > 0 /\ f.tries < Tries /\ f.candidate <= Cardinality(Intk!Submitted) + 1 + f.tries
      BY <2>1, <2>2, <3>2
    <3>8. \A y \in Intk!Submitted : cases[y].number # f.candidate
      BY <3>2, <3>3
    <3>9. QED
      BY <2>1, <2>3, <3>1, <3>2, <3>5, <3>6, <3>7, <3>8, FilingMoves
  <2>7. QED
    BY <2>5, <2>6
<1>4. ASSUME NEW x \in Applications, Intk!Submit(x)
      PROVE  IntakeGood'
  BY <1>4, Committed
<1>5. ASSUME NEW x \in Applications, Intk!RollBack(x)
      PROVE  IntakeGood'
  <2>1. filings' = [filings EXCEPT ![x] = Intk!NotFiling] /\ UNCHANGED <<table, cases>>
    BY <1>5 DEF Intk!RollBack
  <2>2. /\ Intk!NotFiling \in IntakeFiling /\ ~Intk!NotFiling.held /\ ~(Intk!NotFiling.candidate > 0)
        /\ Intk!NotFiling.tries = 0
    BY NotFilingTyped DEF Intk!NotFiling
  <2>3. Cardinality(NumberedBelow(Cardinality(Intk!Submitted) + 1 + 0)) >= 0
    BY <1>0, NumberedFinite
  <2>4. QED
    BY <2>1, <2>2, <2>3, FilingMoves
<1>6. ASSUME NEW x \in Applications, Intk!StartScrutiny(x)
      PROVE  IntakeGood'
  <2> DEFINE c == [cases[x] EXCEPT !.status = "UNDER_SCRUTINY"]
  <2>1. cases[x].status = "SUBMITTED" /\ cases[x].exception # "OPEN"
        /\ cases' = [cases EXCEPT ![x] = c] /\ UNCHANGED <<table, filings>>
    BY <1>6 DEF Intk!StartScrutiny
  <2>2. cases[x] \in IntakeCase /\ cases \in [Applications -> IntakeCase]
    BY <1>0 DEF IntakeTypes
  <2>3. /\ c \in IntakeCase /\ c.number = cases[x].number /\ c.status = "UNDER_SCRUTINY"
        /\ c.queue = cases[x].queue /\ c.exception = cases[x].exception /\ c.at = cases[x].at
    BY <2>2 DEF IntakeCase, Statuses
  <2> HIDE DEF c
  <2>4. x \in Intk!Submitted /\ Owned(x) /\ cases[x].queue \in Queues
    BY <2>1, OwnedIsRouted DEF IntakeGood, NumbersGood, Intk!Submitted
  <2>5. cases'[x] = c
    BY <2>1, <2>2
  <2>6. PICK a : a = cases[x].at
    OBVIOUS
  <2>7. Owned(x)'
    <3>1. Target(x, a)' = Target(x, a)
      BY <2>1 DEF Target, Winners, Matching
    <3>2. (cases[x].at)' = a
      BY <2>3, <2>5, <2>6
    <3>3. Target(x, cases[x].at)' = Target(x, a)
      BY <3>1, <3>2 DEF Target, Winners, Matching
    <3>4. IF Target(x, a) # {} THEN cases[x].queue \in Target(x, a) /\ cases[x].exception = "none"
          ELSE cases[x].exception = "RESOLVED" /\ cases[x].queue \in ActiveQueues
      BY <2>1, <2>4, <2>6 DEF Owned
    <3>5. QED
      BY <2>3, <2>5, <3>3, <3>4 DEF Owned
  <2>8. QED
    BY <2>1, <2>3, <2>4, <2>7, CaseMoves
<1>7. ASSUME NEW x \in Applications, NEW q \in Queues, Intk!ResolveRoutingException(x, q)
      PROVE  IntakeGood'
  <2> DEFINE c == [cases[x] EXCEPT !.queue = q, !.exception = "RESOLVED"]
  <2>1. /\ cases[x].exception = "OPEN" /\ q \in ActiveQueues
        /\ cases' = [cases EXCEPT ![x].queue = q, ![x].exception = "RESOLVED"] /\ UNCHANGED <<table, filings>>
    BY <1>7 DEF Intk!ResolveRoutingException
  <2>2. cases[x] \in IntakeCase /\ cases \in [Applications -> IntakeCase]
    BY <1>0 DEF IntakeTypes
  <2>3. /\ c \in IntakeCase /\ c.number = cases[x].number /\ c.status = cases[x].status
        /\ c.queue = q /\ c.exception = "RESOLVED" /\ c.at = cases[x].at
    BY <2>2 DEF IntakeCase
  <2>4. cases' = [cases EXCEPT ![x] = c]
    BY <2>1, <2>2
  <2> HIDE DEF c
  <2>5. cases'[x] = c
    BY <2>2, <2>4
  <2>6. ASSUME x \in Intk!Submitted
        PROVE  Owned(x)'
    <3>1. PICK a : a = cases[x].at
      OBVIOUS
    <3>2. Target(x, a)' = Target(x, a)
      BY <2>1 DEF Target, Winners, Matching
    <3>3. (cases[x].at)' = a
      BY <2>3, <2>5, <3>1
    <3>4. Target(x, cases[x].at)' = Target(x, a)
      BY <3>2, <3>3 DEF Target, Winners, Matching
    <3>5. Target(x, a) = {}
      BY <2>1, <2>6, <3>1, OwnedIsRouted DEF IntakeGood, Owned
    <3>6. QED
      BY <2>1, <2>3, <2>5, <3>4, <3>5 DEF Owned
  <2>7. (c.status = "DRAFT" <=> cases[x].status = "DRAFT")
        /\ c.number = cases[x].number
    BY <2>3
  <2>8. x \in Intk!Submitted => c.queue \in Queues /\ Owned(x)'
    BY <2>3, <2>6
  <2>9. c \in IntakeCase /\ UNCHANGED <<table, filings>>
    BY <2>1, <2>3
  <2>10. QED
    BY <1>7, <2>4, <2>7, <2>8, <2>9, CaseMoves
<1>8. CASE UNCHANGED intakeRows
  <2>1. UNCHANGED <<table, filings, cases>>
    BY <1>8 DEF intakeRows
  <2>2. Intk!Submitted' = Intk!Submitted /\ Numbered' = Numbered
    BY <2>1 DEF Intk!Submitted, Numbered
  <2>3. IntakeTypes' /\ CandidatesCounted' /\ HeldApart' /\ NumbersGood'
    BY <2>1, <2>2 DEF IntakeGood, IntakeTypes, CandidatesCounted, HeldApart, NumbersGood
  <2>4. TriesMet'
    <3>1. ASSUME NEW x \in Applications
          PROVE  Cardinality(NumberedBelow(LeastNext(x)))' = Cardinality(NumberedBelow(LeastNext(x)))
      <4>1. LeastNext(x)' = LeastNext(x)
        BY <2>1, <2>2 DEF LeastNext
      <4>2. QED
        BY <2>1, <2>2, <4>1 DEF NumberedBelow
    <3>2. QED
      BY <2>1, <3>1 DEF IntakeGood, TriesMet
  <2>5. Intk!RoutedOrOwned'
    <3>1. ASSUME NEW x \in Intk!Submitted
          PROVE  Owned(x)'
      BY <2>1, OwnedIsRouted DEF IntakeGood, Owned, Target, Winners, Matching
    <3>2. (\A x \in Intk!Submitted : Owned(x))'
      BY <2>2, <3>1
    <3>3. QED
      BY <3>2 DEF Intk!RoutedOrOwned, Owned, Target, Winners, Matching
  <2>6. QED
    BY <2>3, <2>4, <2>5 DEF IntakeGood
<1>9. QED
  BY <1>1, <1>2, <1>3, <1>4, <1>5, <1>6, <1>7, <1>8 DEF Intk!Next

\* At first nothing is submitted.
LEMMA IntakeStarts == Intk!Init => IntakeGood
<1> SUFFICES ASSUME Intk!Init PROVE IntakeGood
  OBVIOUS
<1>1. /\ table \subseteq Entries /\ filings = [x \in Applications |-> Intk!NotFiling]
      /\ cases = [x \in Applications |-> Intk!Draft]
  BY DEF Intk!Init
<1>2. Intk!Draft \in IntakeCase /\ Intk!Draft.status = "DRAFT" /\ Intk!Draft.number = 0
  BY DEF Intk!Draft, IntakeCase, Statuses
<1>3. Intk!Submitted = {}
  BY <1>1, <1>2 DEF Intk!Submitted
<1>4. IsFiniteSet(Intk!Submitted)
  BY <1>3, FS_EmptySet
<1>5. IntakeTypes
  BY <1>1, <1>2, <1>3, <1>4, NotFilingTyped DEF IntakeTypes
<1>6. \A x \in Applications : /\ filings[x].held = FALSE /\ filings[x].candidate = 0 /\ filings[x].tries = 0
  BY <1>1 DEF Intk!NotFiling
<1>7. CandidatesCounted /\ HeldApart
  BY <1>6 DEF CandidatesCounted, HeldApart
<1>8. TriesMet
  <2>1. ASSUME NEW x \in Applications
        PROVE  Cardinality(NumberedBelow(LeastNext(x))) >= filings[x].tries
    BY <1>5, <1>6, FiledTypes, NumberedFinite
  <2>2. QED
    BY <2>1 DEF TriesMet
<1>9. NumbersGood /\ Intk!RoutedOrOwned
  BY <1>3 DEF NumbersGood, Intk!RoutedOrOwned
<1>10. QED
  BY <1>5, <1>7, <1>8, <1>9 DEF IntakeGood

\* The rows are typed, and a reference is given once.
LEMMA ReferencesStand == IntakeGood => Intk!TypeOK /\ Intk!NumberedOnce /\ Intk!RoutedOrOwned
<1> SUFFICES ASSUME IntakeGood PROVE Intk!TypeOK /\ Intk!NumberedOnce
  BY DEF IntakeGood
<1>1. IntakeTypes /\ IsFiniteSet(Intk!Submitted) /\ IsFiniteSet(Numbered)
  BY NumberedFinite DEF IntakeGood, IntakeTypes
<1>2. Intk!Cardinality(Intk!Submitted) = Cardinality(Intk!Submitted)
  BY <1>1 DEF Intk!Cardinality, Cardinality, IsFiniteSet
<1>3. Intk!Cardinality(Numbered) = Cardinality(Numbered)
  BY <1>1 DEF Intk!Cardinality, Cardinality, IsFiniteSet
<1>4. Intk!TypeOK
  <2>1. ASSUME NEW x \in Applications
        PROVE  /\ cases[x].status \in {"DRAFT", "SUBMITTED", "UNDER_SCRUTINY"}
               /\ cases[x].exception \in {"none", "OPEN", "RESOLVED"}
               /\ cases[x].status # "DRAFT" => cases[x].queue \in Queues
                                               /\ cases[x].number < Intk!Cardinality(Intk!Submitted) + Tries
               /\ filings[x].tries <= Tries /\ (filings[x].held => filings[x].candidate > 0)
    <3>1. cases[x].status \in Statuses /\ cases[x].exception \in {"none", "OPEN", "RESOLVED"} /\ filings[x].tries <= Tries
      BY <1>1, FiledTypes DEF IntakeCase
    <3>2. cases[x].status # "DRAFT" => x \in Intk!Submitted
      BY DEF Intk!Submitted
    <3>3. QED
      BY <1>2, <3>1, <3>2 DEF IntakeGood, NumbersGood, CandidatesCounted, Statuses
  <2>2. QED
    BY <2>1 DEF Intk!TypeOK
<1>5. Intk!NumberedOnce
  <2>1. ASSUME NEW x \in Intk!Submitted
        PROVE  IF cases[x].number = 0 THEN Intk!Cardinality(Numbered) >= Tries
               ELSE \A y \in Intk!Submitted \ {x} : cases[y].number # cases[x].number
    <3>1. cases[x].number \in Nat
      BY <1>1, FiledTypes, NumberedFinite
    <3>2. QED
      BY <1>3, <3>1 DEF IntakeGood, NumbersGood
  <2>2. QED
    BY <2>1 DEF Intk!NumberedOnce, Numbered
<1>6. QED
  BY <1>4, <1>5

-----------------------------------------------------------------------------
Report == [by: Inspectors, observations: Rprt!ValidObservations]
Deficiency == [item: ChecklistItems, report: Nat, state: {"OPEN", "VERIFIED_CLOSED"}, reinspection: BOOLEAN,
               evidence: {"none", "reviewer", "response"}, closedAfter: Nat]

ReportTypes ==
  /\ stage \in {"INSPECTION_PENDING", "REVIEW_PENDING", "APPROVED_PENDING_ISSUE", "REJECTED"}
  /\ visit \in [status: {"REQUESTED", "SCHEDULED", "IN_PROGRESS", "COMPLETED"}, officer: Inspectors \cup {"none"}]
  /\ reportDrafts \subseteq Inspectors
  /\ reports \in Seq(Report)
  /\ deficiencies \in Seq(Deficiency)
  /\ \A f \in DOMAIN deficiencies : deficiencies[f].report \in DOMAIN reports
  /\ verifying \subseteq Rprt!Unresolved

\* A case is reviewed once its visit is complete.
ReviewedAfterVisit == (stage = "INSPECTION_PENDING") <=> (visit.status # "COMPLETED")

\* A closed finding of a mandatory item was closed by a reviewer's evidence.
ClosedOnEvidence ==
  \A f \in DOMAIN deficiencies :
    deficiencies[f].state = "VERIFIED_CLOSED" /\ deficiencies[f].item \in MandatoryItems =>
      deficiencies[f].evidence = "reviewer"

\* An approved case stays at its stage.
ApprovedStays == decision.kind = "APPROVE" => stage = "APPROVED_PENDING_ISSUE"

ReportsGood ==
  /\ ReportTypes /\ ReviewedAfterVisit /\ ClosedOnEvidence /\ ApprovedStays
  /\ Rprt!NoDraftOutlivesReport /\ Rprt!DeficienciesAreKept /\ Rprt!ApprovalIsEarned

-----------------------------------------------------------------------------
(* Reports, findings and decisions. *)

\* A checklist is finite, and so is the part of it that failed.
LEMMA Checklist ==
  /\ IsFiniteSet(ChecklistItems) /\ MandatoryItems \subseteq ChecklistItems /\ OptionalItems \subseteq ChecklistItems
  /\ MaxReports \in Nat /\ MaxVerifying \in Nat
<1>1. Rprt!ReportsAssumption
  BY ServicesAssumption DEF ServicesAssumption
<1>2. IsFiniteSet(ChecklistItems)
  BY <1>1 DEF Rprt!ReportsAssumption, Rprt!IsFiniteSet, IsFiniteSet
<1>3. QED
  BY <1>1, <1>2 DEF Rprt!ReportsAssumption

\* The items that failed are listed once each.
LEMMA Listed ==
  ASSUME NEW S, IsFiniteSet(S)
  PROVE  LET s == Rprt!Sequence!SetToSeq(S) IN
         /\ Cardinality(S) \in Nat /\ s \in [1..Cardinality(S) -> S]
         /\ \A m, n \in 1..Cardinality(S) : s[m] = s[n] => m = n
         /\ \A i \in S : \E n \in 1..Cardinality(S) : s[n] = i
<1> DEFINE s == Rprt!Sequence!SetToSeq(S)
           n == Cardinality(S)
<1>1. n \in Nat /\ ExistsBijection(1..n, S)
  BY FS_CardinalityType
<1>2. PICK f \in [1..n -> S] : IsInjective(f)
  BY <1>1 DEF ExistsBijection, Bijection, Injection
<1>3. Rprt!Sequence!IsInjective(f)
  BY <1>2 DEF IsInjective, Rprt!Sequence!IsInjective
<1>4. Rprt!Sequence!Cardinality(S) = n
  BY DEF Rprt!Sequence!Cardinality, Cardinality, Rprt!Sequence!IsFiniteSet, IsFiniteSet
<1>5. s \in [1..n -> S] /\ Rprt!Sequence!IsInjective(s)
  BY <1>3, <1>4 DEF Rprt!Sequence!SetToSeq
<1> HIDE DEF s, n
<1>6. \A a, b \in 1..n : s[a] = s[b] => a = b
  BY <1>5 DEF Rprt!Sequence!IsInjective
<1>7. s \in Injection(1..n, S)
  BY <1>5, <1>6 DEF Injection, IsInjective
<1>8. IsFiniteSet(1..n) /\ Cardinality(1..n) = n
  <2>1. IsFiniteSet(1..n) /\ Cardinality(1..n) = IF 1 > n THEN 0 ELSE n - 1 + 1
    BY <1>1, FS_Interval
  <2>2. QED
    BY <1>1, <2>1
<1>9. s \in Surjection(1..n, S)
  BY <1>7, <1>8, FS_Injection DEF n
<1>10. \A i \in S : \E m \in 1..n : s[m] = i
  BY <1>9 DEF Surjection
<1>11. QED
  BY <1>1, <1>5, <1>6, <1>10 DEF s, n

\* The findings a report adds: one for each item it failed that has none unresolved.
LEMMA Materialised ==
  ASSUME ReportTypes, NEW o
  PROVE  LET new == Rprt!MaterialiseFindings(o) IN
         /\ new \in Seq(Deficiency)
         /\ \A f \in DOMAIN deficiencies : f \in DOMAIN new /\ new[f] = deficiencies[f]
         /\ \A f \in DOMAIN new \ DOMAIN deficiencies :
              /\ new[f].report = Len(reports) + 1 /\ new[f].state = "OPEN" /\ new[f].item \in Rprt!Failed(o)
              /\ \A g \in Rprt!Unresolved : deficiencies[g].item # new[f].item
              /\ \A g \in DOMAIN new \ DOMAIN deficiencies : new[g].item = new[f].item => g = f
         /\ \A i \in Rprt!Failed(o) :
              \/ \E f \in Rprt!Unresolved : deficiencies[f].item = i
              \/ \E f \in DOMAIN new \ DOMAIN deficiencies : new[f].item = i
<1> DEFINE S == Rprt!Failed(o) \ {deficiencies[f].item : f \in Rprt!Unresolved}
           s == Rprt!Sequence!SetToSeq(S)
           n == Cardinality(S)
           d == Len(deficiencies)
           Row(k) == Rprt!Finding(s[k], Len(reports) + 1)
           x == [k \in 1..n |-> Row(k)]
           new == Rprt!MaterialiseFindings(o)
<1>1. S \subseteq ChecklistItems /\ IsFiniteSet(S)
  <2>1. S \subseteq ChecklistItems
    BY DEF Rprt!Failed
  <2>2. QED
    BY <2>1, Checklist, FS_Subset
<1>2. /\ n \in Nat /\ s \in [1..n -> S]
      /\ \A a, b \in 1..n : s[a] = s[b] => a = b
      /\ \A i \in S : \E a \in 1..n : s[a] = i
  BY <1>1, Listed
<1>3. new = deficiencies \o [k \in DOMAIN s |-> Row(k)]
  BY DEF Rprt!MaterialiseFindings
<1> HIDE DEF S, s, n
<1>4. Len(reports) \in Nat /\ d \in Nat /\ DOMAIN deficiencies = 1..d /\ deficiencies \in Seq(Deficiency)
  BY RowsOf DEF ReportTypes
<1>5. ASSUME NEW k \in 1..n
      PROVE  /\ Row(k) \in Deficiency /\ Row(k).item = s[k] /\ Row(k).report = Len(reports) + 1
             /\ Row(k).state = "OPEN" /\ s[k] \in S
  <2>1. s[k] \in S /\ s[k] \in ChecklistItems /\ Len(reports) + 1 \in Nat
    BY <1>1, <1>2, <1>4
  <2>2. QED
    BY <2>1 DEF Rprt!Finding, Deficiency
<1> HIDE DEF Row
<1>6. x \in [1..n -> Deficiency] /\ \A k \in 1..n : x[k] = Row(k)
  BY <1>5
<1>7. x \in Seq(Deficiency) /\ Len(x) = n
  BY <1>2, <1>6
<1>8. new = deficiencies \o x
  BY <1>2, <1>3
<1> HIDE DEF x, new, d
<1>9. /\ new \in Seq(Deficiency) /\ DOMAIN new = 1..(d + n)
      /\ \A f \in 1..d : new[f] = deficiencies[f]
      /\ \A f \in (d + 1)..(d + n) : new[f] = x[f - d]
  <2>1. PICK k \in Nat : k = d
    BY <1>4
  <2>2. k = Len(deficiencies) /\ deficiencies \in Seq(Deficiency)
    BY <1>4, <2>1 DEF d
  <2>3. deficiencies \o x \in Seq(Deficiency) /\ Len(deficiencies \o x) = k + n
    BY <1>2, <1>7, <2>1, <2>2
  <2>4. \A f \in 1..k : (deficiencies \o x)[f] = deficiencies[f]
    BY <1>2, <1>7, <2>1, <2>2
  <2>5. \A f \in (k + 1)..(k + n) : (deficiencies \o x)[f] = x[f - k]
    BY <1>2, <1>7, <2>1, <2>2
  <2>6. DOMAIN (deficiencies \o x) = 1..(k + n)
    BY <2>3
  <2>7. QED
    BY <1>8, <2>1, <2>3, <2>4, <2>5, <2>6
<1>10. \A f \in DOMAIN deficiencies : f \in DOMAIN new /\ new[f] = deficiencies[f]
  BY <1>2, <1>4, <1>9
<1>11. ASSUME NEW f \in DOMAIN new \ DOMAIN deficiencies
       PROVE  f - d \in 1..n /\ new[f] = Row(f - d)
  <2>1. f \in (d + 1)..(d + n)
    BY <1>2, <1>4, <1>9
  <2>2. f - d \in 1..n
    BY <1>2, <1>4, <2>1
  <2>3. QED
    BY <1>6, <1>9, <2>1, <2>2
<1>12. ASSUME NEW f \in DOMAIN new \ DOMAIN deficiencies
       PROVE  /\ new[f].report = Len(reports) + 1 /\ new[f].state = "OPEN" /\ new[f].item \in Rprt!Failed(o)
              /\ \A g \in Rprt!Unresolved : deficiencies[g].item # new[f].item
              /\ \A g \in DOMAIN new \ DOMAIN deficiencies : new[g].item = new[f].item => g = f
  <2>1. /\ new[f].report = Len(reports) + 1 /\ new[f].state = "OPEN" /\ new[f].item \in S /\ new[f].item = s[f - d]
    BY <1>5, <1>11
  <2>2. ASSUME NEW g \in DOMAIN new \ DOMAIN deficiencies, new[g].item = new[f].item
        PROVE  g = f
    <3>1. new[g].item = s[g - d] /\ g - d \in 1..n /\ f - d \in 1..n
      BY <1>5, <1>11
    <3>2. g - d = f - d
      <4>1. s[g - d] = s[f - d]
        BY <2>1, <2>2, <3>1
      <4>2. QED
        BY <1>2, <3>1, <4>1
    <3>3. g \in Nat /\ f \in Nat
      BY <1>2, <1>4, <1>9
    <3>4. QED
      BY <1>4, <3>2, <3>3
  <2>3. QED
    BY <2>1, <2>2 DEF S
<1>13. ASSUME NEW i \in Rprt!Failed(o)
       PROVE  \/ \E f \in Rprt!Unresolved : deficiencies[f].item = i
              \/ \E f \in DOMAIN new \ DOMAIN deficiencies : new[f].item = i
  <2>1. CASE i \in S
    <3>1. PICK a \in 1..n : s[a] = i
      BY <1>2, <2>1
    <3>2. a + d \in DOMAIN new \ DOMAIN deficiencies
      BY <1>2, <1>4, <1>9
    <3>3. (a + d) - d = a
      BY <1>2, <1>4
    <3>4. new[a + d] = Row(a)
      BY <1>11, <3>2, <3>3
    <3>5. QED
      BY <1>5, <3>1, <3>2, <3>4
  <2>2. CASE i \notin S
    BY <2>2 DEF S
  <2>3. QED
    BY <2>1, <2>2
<1>14. QED
  BY <1>9, <1>10, <1>12, <1>13 DEF new

\* The rows as functions.
LEMMA ReportRows ==
  ASSUME ReportTypes
  PROVE  /\ Len(reports) \in Nat /\ DOMAIN reports = 1..Len(reports)
         /\ \A r \in DOMAIN reports : reports[r] \in Report
         /\ Len(deficiencies) \in Nat /\ DOMAIN deficiencies = 1..Len(deficiencies)
         /\ \A f \in DOMAIN deficiencies : deficiencies[f] \in Deficiency
         /\ Rprt!Findings = DOMAIN deficiencies /\ Rprt!Unresolved \subseteq DOMAIN deficiencies
         /\ Rprt!Unresolved = {f \in DOMAIN deficiencies : deficiencies[f].state # "VERIFIED_CLOSED"}
BY RowsOf DEF ReportTypes, Rprt!Findings, Rprt!Unresolved

\* A step that leaves reports and findings alone.
LEMMA FindingsStay ==
  ASSUME ReportsGood, UNCHANGED <<reports, deficiencies>>
  PROVE  /\ ClosedOnEvidence' /\ Rprt!DeficienciesAreKept' /\ Rprt!Unresolved' = Rprt!Unresolved
         /\ UNCHANGED decision => Rprt!ApprovalIsEarned'
         /\ \A f \in DOMAIN deficiencies' : deficiencies'[f].report \in DOMAIN reports'
<1>1. Rprt!Findings' = Rprt!Findings /\ Rprt!Unresolved' = Rprt!Unresolved
  BY DEF Rprt!Findings, Rprt!Unresolved
<1>2. ClosedOnEvidence'
  BY DEF ReportsGood, ClosedOnEvidence
<1>3. Rprt!DeficienciesAreKept'
  BY <1>1 DEF ReportsGood, Rprt!DeficienciesAreKept
<1>4. UNCHANGED decision => Rprt!ApprovalIsEarned'
  BY <1>1 DEF ReportsGood, Rprt!ApprovalIsEarned, Rprt!Sequence!Last
<1>5. QED
  BY <1>1, <1>2, <1>3, <1>4 DEF ReportsGood, ReportTypes

\* The report, the findings it adds, and what is no longer a draft.
LEMMA ReportAccepted ==
  ASSUME ReportsGood, NEW p \in Inspectors, Rprt!SubmitReport(p)
  PROVE  ReportsGood'
<1> DEFINE last == Len(reports) + 1
<1>1. PICK o \in Rprt!ValidObservations :
        /\ reports' = Append(reports, [by |-> p, observations |-> o])
        /\ deficiencies' = Rprt!MaterialiseFindings(o)
  BY DEF Rprt!SubmitReport
<1>2. /\ visit.status = "IN_PROGRESS" /\ visit' = [visit EXCEPT !.status = "COMPLETED"] /\ reportDrafts' = {}
      /\ stage = "INSPECTION_PENDING" /\ stage' = "REVIEW_PENDING" /\ UNCHANGED <<verifying, decision>>
  BY DEF Rprt!SubmitReport
<1>3. ReportTypes
  BY DEF ReportsGood
<1>4. /\ Len(reports) \in Nat /\ DOMAIN reports = 1..Len(reports) /\ reports \in Seq(Report)
      /\ [by |-> p, observations |-> o] \in Report
  BY <1>3, ReportRows DEF ReportTypes, Report
<1>5. /\ reports' \in Seq(Report) /\ DOMAIN reports' = 1..last
      /\ \A r \in DOMAIN reports : r \in DOMAIN reports' /\ reports'[r] = reports[r] /\ r <= last
      /\ reports'[last].observations = o /\ last \in DOMAIN reports' /\ last \notin DOMAIN reports
      /\ DOMAIN reports' = DOMAIN reports \cup {last}
  BY <1>1, <1>4
<1> HIDE DEF last
<1>6. /\ deficiencies' \in Seq(Deficiency)
      /\ \A f \in DOMAIN deficiencies : f \in DOMAIN deficiencies' /\ deficiencies'[f] = deficiencies[f]
      /\ \A f \in DOMAIN deficiencies' \ DOMAIN deficiencies :
           /\ deficiencies'[f].report = last /\ deficiencies'[f].state = "OPEN" /\ deficiencies'[f].item \in Rprt!Failed(o)
           /\ \A g \in Rprt!Unresolved : deficiencies[g].item # deficiencies'[f].item
           /\ \A g \in DOMAIN deficiencies' \ DOMAIN deficiencies : deficiencies'[g].item = deficiencies'[f].item => g = f
      /\ \A i \in Rprt!Failed(o) :
           \/ \E f \in Rprt!Unresolved : deficiencies[f].item = i
           \/ \E f \in DOMAIN deficiencies' \ DOMAIN deficiencies : deficiencies'[f].item = i
  BY <1>1, <1>3, Materialised DEF last
<1>7. /\ Rprt!Findings = DOMAIN deficiencies /\ Rprt!Findings' = DOMAIN deficiencies'
      /\ Rprt!Unresolved = {f \in DOMAIN deficiencies : deficiencies[f].state # "VERIFIED_CLOSED"}
      /\ Rprt!Unresolved' = {f \in DOMAIN deficiencies' : deficiencies'[f].state # "VERIFIED_CLOSED"}
  BY DEF Rprt!Findings, Rprt!Unresolved
<1>8. Rprt!Unresolved' = Rprt!Unresolved \cup (DOMAIN deficiencies' \ DOMAIN deficiencies)
  BY <1>6, <1>7
<1>9. ReportTypes'
  <2>1. \A f \in DOMAIN deficiencies' : deficiencies'[f].report \in DOMAIN reports'
    <3>1. ASSUME NEW f \in DOMAIN deficiencies'
          PROVE  deficiencies'[f].report \in DOMAIN reports'
      <4>1. CASE f \in DOMAIN deficiencies
        BY <1>3, <1>5, <1>6, <4>1 DEF ReportTypes
      <4>2. CASE f \notin DOMAIN deficiencies
        BY <1>5, <1>6, <4>2
      <4>3. QED
        BY <4>1, <4>2
    <3>2. QED
      BY <3>1
  <2>2. visit' \in [status: {"REQUESTED", "SCHEDULED", "IN_PROGRESS", "COMPLETED"}, officer: Inspectors \cup {"none"}]
    BY <1>2, <1>3 DEF ReportTypes
  <2>3. verifying' \subseteq Rprt!Unresolved'
    BY <1>2, <1>3, <1>8 DEF ReportTypes
  <2>4. QED
    BY <1>2, <1>5, <1>6, <2>1, <2>2, <2>3 DEF ReportTypes
<1>10. ReviewedAfterVisit' /\ Rprt!NoDraftOutlivesReport'
  <2>1. visit'.status = "COMPLETED"
    BY <1>2, <1>3 DEF ReportTypes
  <2>2. QED
    BY <1>2, <2>1 DEF ReviewedAfterVisit, Rprt!NoDraftOutlivesReport
<1>11. ClosedOnEvidence'
  <2>1. ASSUME NEW f \in DOMAIN deficiencies', deficiencies'[f].state = "VERIFIED_CLOSED",
               deficiencies'[f].item \in MandatoryItems
        PROVE  deficiencies'[f].evidence = "reviewer"
    <3>1. f \in DOMAIN deficiencies
      BY <1>6, <2>1
    <3>2. QED
      BY <1>6, <2>1, <3>1 DEF ReportsGood, ClosedOnEvidence
  <2>2. QED
    BY <2>1 DEF ClosedOnEvidence
<1>12. decision'.kind # "APPROVE"
  BY <1>2 DEF ReportsGood, ApprovedStays
<1>13. ApprovedStays' /\ Rprt!ApprovalIsEarned'
  BY <1>12 DEF ApprovedStays, Rprt!ApprovalIsEarned
<1>14. Rprt!DeficienciesAreKept'
  <2>1. ASSUME NEW f \in Rprt!Unresolved', NEW g \in Rprt!Unresolved',
               deficiencies'[f].item = deficiencies'[g].item
        PROVE  f = g
    <3>1. CASE f \in Rprt!Unresolved /\ g \in Rprt!Unresolved
      BY <1>6, <1>7, <2>1, <3>1 DEF ReportsGood, Rprt!DeficienciesAreKept
    <3>2. CASE f \notin Rprt!Unresolved /\ g \notin Rprt!Unresolved
      BY <1>6, <1>8, <2>1, <3>2
    <3>3. CASE f \in Rprt!Unresolved /\ g \notin Rprt!Unresolved
      BY <1>6, <1>7, <1>8, <2>1, <3>3
    <3>4. CASE f \notin Rprt!Unresolved /\ g \in Rprt!Unresolved
      BY <1>6, <1>7, <1>8, <2>1, <3>4
    <3>5. QED
      BY <3>1, <3>2, <3>3, <3>4
  <2>2. ASSUME NEW r \in DOMAIN reports', NEW i \in Rprt!Failed(reports'[r].observations)
        PROVE  \E f \in Rprt!Findings' :
                 /\ deficiencies'[f].item = i /\ deficiencies'[f].report <= r
                 /\ f \in Rprt!Unresolved' \/ deficiencies'[f].closedAfter >= r
    <3>1. CASE r \in DOMAIN reports
      <4>1. i \in Rprt!Failed(reports[r].observations)
        BY <1>5, <2>2, <3>1
      <4>2. PICK f \in Rprt!Findings : /\ deficiencies[f].item = i /\ deficiencies[f].report <= r
                                       /\ f \in Rprt!Unresolved \/ deficiencies[f].closedAfter >= r
        BY <3>1, <4>1 DEF ReportsGood, Rprt!DeficienciesAreKept
      <4>3. f \in DOMAIN deficiencies' /\ deficiencies'[f] = deficiencies[f]
        BY <1>6, <1>7
      <4>4. QED
        BY <1>7, <1>8, <4>2, <4>3
    <3>2. CASE r = last
      <4>1. i \in Rprt!Failed(o)
        BY <1>5, <2>2, <3>2
      <4>2. CASE \E f \in Rprt!Unresolved : deficiencies[f].item = i
        <5>1. PICK f \in Rprt!Unresolved : deficiencies[f].item = i
          BY <4>2
        <5>2. f \in DOMAIN deficiencies /\ deficiencies[f].report \in DOMAIN reports
          BY <1>3, <1>7 DEF ReportTypes
        <5>3. deficiencies'[f] = deficiencies[f] /\ f \in Rprt!Findings' /\ f \in Rprt!Unresolved'
          BY <1>6, <1>7, <1>8, <5>2
        <5>4. deficiencies[f].report <= last
          BY <1>5, <5>2
        <5>5. QED
          BY <3>2, <5>1, <5>3, <5>4
      <4>3. CASE \E f \in DOMAIN deficiencies' \ DOMAIN deficiencies : deficiencies'[f].item = i
        <5>1. PICK f \in DOMAIN deficiencies' \ DOMAIN deficiencies : deficiencies'[f].item = i
          BY <4>3
        <5>2. deficiencies'[f].report = last /\ f \in Rprt!Unresolved' /\ f \in Rprt!Findings'
          BY <1>6, <1>7, <1>8
        <5>3. last <= last
          BY <1>4 DEF last
        <5>4. QED
          BY <3>2, <5>1, <5>2, <5>3
      <4>4. QED
        BY <1>6, <4>1, <4>2, <4>3
    <3>3. QED
      BY <1>5, <3>1, <3>2
  <2>3. QED
    BY <2>1, <2>2 DEF Rprt!DeficienciesAreKept
<1>15. QED
  BY <1>9, <1>10, <1>11, <1>13, <1>14 DEF ReportsGood

\* A verification closes its finding on the evidence cited, or asks for a reinspection.
LEMMA FindingVerified ==
  ASSUME ReportsGood, NEW f \in verifying, NEW evidence \in Rprt!Basis(f), Rprt!VerifyFinding(f, evidence)
  PROVE  ReportsGood'
<1>1. ReportTypes /\ f \in Rprt!Unresolved /\ f \in DOMAIN deficiencies
  BY ReportRows DEF ReportsGood, ReportTypes
<1>2. /\ Len(reports) \in Nat /\ DOMAIN reports = 1..Len(reports) /\ deficiencies \in Seq(Deficiency)
      /\ Len(deficiencies) \in Nat /\ DOMAIN deficiencies = 1..Len(deficiencies) /\ deficiencies[f] \in Deficiency
  BY <1>1, ReportRows DEF ReportTypes
<1> DEFINE w == IF evidence # "none"
                THEN [deficiencies[f] EXCEPT !.state = "VERIFIED_CLOSED", !.reinspection = FALSE,
                                             !.evidence = evidence, !.closedAfter = Len(reports)]
                ELSE [deficiencies[f] EXCEPT !.reinspection = TRUE]
<1>3. /\ deficiencies' = [deficiencies EXCEPT ![f] = w] /\ verifying' = verifying \ {f}
      /\ UNCHANGED <<stage, visit, reportDrafts, reports, decision>>
  BY DEF Rprt!VerifyFinding
<1>4. evidence \in {"none", "reviewer", "response"}
      /\ (deficiencies[f].item \in MandatoryItems => evidence \in {"none", "reviewer"})
  <2>1. CASE deficiencies[f].item \in MandatoryItems
    BY <2>1 DEF Rprt!Basis
  <2>2. CASE deficiencies[f].item \notin MandatoryItems
    BY <2>2 DEF Rprt!Basis
  <2>3. QED
    BY <2>1, <2>2
<1>5. /\ w \in Deficiency /\ w.item = deficiencies[f].item /\ w.report = deficiencies[f].report
      /\ evidence = "none" => w.state = deficiencies[f].state
      /\ evidence # "none" => w.state = "VERIFIED_CLOSED" /\ w.evidence = evidence /\ w.closedAfter = Len(reports)
  <2>1. CASE evidence = "none"
    BY <1>2, <2>1 DEF Deficiency
  <2>2. CASE evidence # "none"
    BY <1>2, <1>4, <2>2 DEF Deficiency
  <2>3. QED
    BY <2>1, <2>2
<1> HIDE DEF w
<1>6. deficiencies' \in [1..Len(deficiencies) -> Deficiency]
  <2>1. deficiencies \in [1..Len(deficiencies) -> Deficiency]
    BY <1>2
  <2>2. QED
    BY <1>2, <1>3, <1>5, <2>1
<1>7. /\ deficiencies' \in Seq(Deficiency) /\ DOMAIN deficiencies' = DOMAIN deficiencies
      /\ deficiencies'[f] = w /\ \A g \in DOMAIN deficiencies \ {f} : deficiencies'[g] = deficiencies[g]
  BY <1>1, <1>2, <1>3, <1>6
<1>8. /\ Rprt!Findings = DOMAIN deficiencies /\ Rprt!Findings' = DOMAIN deficiencies
      /\ Rprt!Unresolved = {g \in DOMAIN deficiencies : deficiencies[g].state # "VERIFIED_CLOSED"}
      /\ Rprt!Unresolved' = {g \in DOMAIN deficiencies : deficiencies'[g].state # "VERIFIED_CLOSED"}
  BY <1>7 DEF Rprt!Findings, Rprt!Unresolved
<1>9. /\ Rprt!Unresolved' \subseteq Rprt!Unresolved /\ Rprt!Unresolved \ {f} \subseteq Rprt!Unresolved'
      /\ \A g \in DOMAIN deficiencies : deficiencies'[g].item = deficiencies[g].item
                                        /\ deficiencies'[g].report = deficiencies[g].report
      /\ f \notin Rprt!Unresolved' => w.closedAfter = Len(reports) /\ evidence # "none"
  BY <1>1, <1>5, <1>7, <1>8
<1>10. ReportTypes'
  <2>1. \A g \in DOMAIN deficiencies' : deficiencies'[g].report \in DOMAIN reports'
    BY <1>1, <1>3, <1>7, <1>9 DEF ReportTypes
  <2>2. verifying' \subseteq Rprt!Unresolved'
    BY <1>1, <1>3, <1>9 DEF ReportTypes
  <2>3. QED
    BY <1>1, <1>3, <1>7, <2>1, <2>2 DEF ReportTypes
<1>11. ReviewedAfterVisit' /\ Rprt!NoDraftOutlivesReport' /\ ApprovedStays'
  BY <1>3 DEF ReportsGood, ReviewedAfterVisit, Rprt!NoDraftOutlivesReport, ApprovedStays
<1>12. ClosedOnEvidence'
  <2>1. ASSUME NEW g \in DOMAIN deficiencies', deficiencies'[g].state = "VERIFIED_CLOSED",
               deficiencies'[g].item \in MandatoryItems
        PROVE  deficiencies'[g].evidence = "reviewer"
    <3>1. CASE g = f
      <4>1. evidence # "none"
        BY <1>1, <1>5, <1>7, <1>8, <2>1, <3>1
      <4>2. QED
        BY <1>4, <1>5, <1>7, <2>1, <3>1, <4>1
    <3>2. CASE g # f
      BY <1>7, <2>1, <3>2 DEF ReportsGood, ClosedOnEvidence
    <3>3. QED
      BY <3>1, <3>2
  <2>2. QED
    BY <2>1 DEF ClosedOnEvidence
<1>13. Rprt!DeficienciesAreKept'
  <2>1. ASSUME NEW g \in Rprt!Unresolved', NEW h \in Rprt!Unresolved',
               deficiencies'[g].item = deficiencies'[h].item
        PROVE  g = h
    BY <1>8, <1>9, <2>1 DEF ReportsGood, Rprt!DeficienciesAreKept
  <2>2. ASSUME NEW r \in DOMAIN reports', NEW i \in Rprt!Failed(reports'[r].observations)
        PROVE  \E g \in Rprt!Findings' :
                 /\ deficiencies'[g].item = i /\ deficiencies'[g].report <= r
                 /\ g \in Rprt!Unresolved' \/ deficiencies'[g].closedAfter >= r
    <3>1. PICK g \in Rprt!Findings : /\ deficiencies[g].item = i /\ deficiencies[g].report <= r
                                     /\ g \in Rprt!Unresolved \/ deficiencies[g].closedAfter >= r
      BY <1>3, <2>2 DEF ReportsGood, Rprt!DeficienciesAreKept
    <3>2. r \in Nat /\ r <= Len(reports)
      BY <1>2, <1>3, <2>2
    <3>3. CASE g # f
      BY <1>7, <1>8, <1>9, <3>1, <3>3
    <3>4. CASE g = f
      <4>1. g \in Rprt!Unresolved' \/ deficiencies'[g].closedAfter = Len(reports)
        BY <1>7, <1>9, <3>4
      <4>2. g \in Rprt!Unresolved' \/ deficiencies'[g].closedAfter >= r
        BY <1>2, <3>2, <4>1
      <4>3. QED
        BY <1>8, <1>9, <3>1, <4>2
    <3>5. QED
      BY <3>3, <3>4
  <2>3. QED
    BY <2>1, <2>2 DEF Rprt!DeficienciesAreKept
<1>14. Rprt!ApprovalIsEarned'
  <2>1. ASSUME decision.kind = "APPROVE", NEW i \in MandatoryItems, NEW r \in DOMAIN reports,
               reports[r].observations[i] = "FAIL"
        PROVE  \E g \in Rprt!Findings' : /\ deficiencies'[g].item = i /\ deficiencies'[g].closedAfter >= r
                                         /\ deficiencies'[g].evidence = "reviewer"
    <3>1. PICK g \in Rprt!Findings : /\ deficiencies[g].item = i /\ deficiencies[g].closedAfter >= r
                                     /\ deficiencies[g].evidence = "reviewer"
      BY <2>1 DEF ReportsGood, Rprt!ApprovalIsEarned
    <3>2. CASE g # f
      BY <1>7, <1>8, <3>1, <3>2
    <3>3. CASE g = f /\ evidence = "none"
      <4>1. w.closedAfter = deficiencies[f].closedAfter /\ w.evidence = deficiencies[f].evidence
        BY <1>2, <3>3 DEF w, Deficiency
      <4>2. QED
        BY <1>7, <1>8, <1>9, <3>1, <3>3, <4>1
    <3>4. CASE g = f /\ evidence # "none"
      <4>1. w.closedAfter >= r /\ w.evidence = "reviewer"
        BY <1>2, <1>4, <1>5, <2>1, <3>1, <3>4
      <4>2. QED
        BY <1>7, <1>8, <1>9, <3>1, <3>4, <4>1
    <3>5. QED
      BY <3>2, <3>3, <3>4
  <2>2. QED
    BY <1>3, <2>1 DEF ReportsGood, Rprt!ApprovalIsEarned, Rprt!Sequence!Last
<1>15. QED
  BY <1>10, <1>11, <1>12, <1>13, <1>14 DEF ReportsGood

\* A favourable decision finds the last report without blockers and no mandatory item open.
LEMMA DecisionRecorded ==
  ASSUME ReportsGood, NEW p \in Deciders, NEW kind \in {"APPROVE", "REJECT"}, Rprt!RecordDecision(p, kind)
  PROVE  ReportsGood'
<1>1. /\ UNCHANGED <<visit, reportDrafts, reports, deficiencies, verifying>>
      /\ decision' = [kind |-> kind, by |-> p, report |-> decisionPages[p].report]
      /\ stage' = IF kind = "APPROVE" THEN "APPROVED_PENDING_ISSUE" ELSE "REJECTED"
      /\ kind = "APPROVE" => decisionPages[p].report > 0
      /\ decisionPages[p].report \in {0, Len(reports)}
      /\ IF kind = "APPROVE" THEN ~Rprt!ApproveBlocked(p) ELSE ~Rprt!RejectBlocked(p)
  BY DEF Rprt!RecordDecision
<1>2. stage = "REVIEW_PENDING"
  BY <1>1 DEF Rprt!ApproveBlocked, Rprt!RejectBlocked
<1>3. /\ ClosedOnEvidence' /\ Rprt!DeficienciesAreKept' /\ Rprt!Unresolved' = Rprt!Unresolved
      /\ \A f \in DOMAIN deficiencies' : deficiencies'[f].report \in DOMAIN reports'
  BY <1>1, FindingsStay
<1>4. ReportTypes'
  BY <1>1, <1>3 DEF ReportsGood, ReportTypes
<1>5. ReviewedAfterVisit' /\ Rprt!NoDraftOutlivesReport' /\ ApprovedStays'
  BY <1>1, <1>2 DEF ReportsGood, ReviewedAfterVisit, Rprt!NoDraftOutlivesReport, ApprovedStays
<1>6. Rprt!ApprovalIsEarned'
  <2>1. CASE kind = "REJECT"
    BY <1>1, <2>1 DEF Rprt!ApprovalIsEarned
  <2>2. CASE kind = "APPROVE"
    <3>1. /\ reports # <<>> /\ Rprt!Blockers(Rprt!Sequence!Last(reports).observations) = {}
          /\ \A f \in Rprt!Unresolved : deficiencies[f].item \notin MandatoryItems
          /\ \A r \in DOMAIN reports : reports[r].by # p
      BY <1>1, <2>2 DEF Rprt!ApproveBlocked, Rprt!AuthorityBlocked, Rprt!InspectedThisCase
    <3>2. decisionPages[p].report = Len(reports)
      <4>1. decisionPages[p].report # 0
        BY <1>1, <2>2
      <4>2. QED
        BY <1>1, <4>1
    <3>3. /\ Len(reports) \in DOMAIN reports /\ Rprt!Sequence!Last(reports) = reports[Len(reports)]
      <4>1. reports \in Seq(Report) /\ Len(reports) \in Nat /\ DOMAIN reports = 1..Len(reports)
        BY ReportRows DEF ReportsGood, ReportTypes
      <4>2. Len(reports) # 0
        BY <3>1, <4>1
      <4>3. QED
        BY <4>1, <4>2 DEF Rprt!Sequence!Last
    <3> DEFINE o == reports[Len(reports)].observations
    <3>4. o \in Rprt!ValidObservations
      BY <3>3, ReportRows DEF ReportsGood, Report
    <3> HIDE DEF o
    <3>5. Rprt!Blockers(o) = {} /\ Rprt!Sequence!Last(reports).observations = o
      BY <3>1, <3>3 DEF o
    <3>6. ASSUME NEW i \in MandatoryItems
          PROVE  o[i] = "PASS" \/ (o[i] = "NOT_APPLICABLE" /\ i \in OptionalItems)
      <4>1. i \in ChecklistItems
        BY Checklist
      <4>2. o[i] \in Rprt!Outcomes(i)
        BY <3>4, <4>1 DEF Rprt!ValidObservations
      <4>3. o[i] \in {"PASS", "FAIL", "NOT_VERIFIED", "BARE_PASS", "NOT_APPLICABLE"}
        <5>1. CASE i \in EvidenceItems
          BY <4>2, <5>1 DEF Rprt!Outcomes
        <5>2. CASE i \notin EvidenceItems
          BY <4>2, <5>2 DEF Rprt!Outcomes
        <5>3. QED
          BY <5>1, <5>2
      <4>4. i \notin Rprt!Blockers(o)
        BY <3>5
      <4>5. QED
        BY <4>1, <4>3, <4>4 DEF Rprt!Blockers
    <3>7. ASSUME NEW i \in MandatoryItems, NEW r \in DOMAIN reports, reports[r].observations[i] = "FAIL"
          PROVE  \E f \in Rprt!Findings : /\ deficiencies[f].item = i /\ deficiencies[f].closedAfter >= r
                                          /\ deficiencies[f].evidence = "reviewer"
      <4>1. i \in Rprt!Failed(reports[r].observations)
        BY <3>7, Checklist DEF Rprt!Failed
      <4>2. PICK f \in Rprt!Findings : /\ deficiencies[f].item = i /\ deficiencies[f].report <= r
                                       /\ f \in Rprt!Unresolved \/ deficiencies[f].closedAfter >= r
        BY <4>1 DEF ReportsGood, Rprt!DeficienciesAreKept
      <4>3. f \notin Rprt!Unresolved
        BY <3>1, <4>2
      <4>4. deficiencies[f].evidence = "reviewer"
        BY <4>2, <4>3 DEF ReportsGood, ClosedOnEvidence, Rprt!Unresolved, Rprt!Findings
      <4>5. QED
        BY <4>2, <4>3, <4>4
    <3>8. /\ decision'.report = Len(reports) /\ decision'.by = p /\ reports' = reports /\ deficiencies' = deficiencies
          /\ Rprt!Findings' = Rprt!Findings /\ Rprt!Sequence!Last(reports') = Rprt!Sequence!Last(reports)
      BY <1>1, <3>2 DEF Rprt!Findings
    <3>9. QED
      BY <3>1, <3>5, <3>6, <3>7, <3>8 DEF Rprt!ApprovalIsEarned, Rprt!Sequence!Last
  <2>3. QED
    BY <2>1, <2>2
<1>7. QED
  BY <1>3, <1>4, <1>5, <1>6 DEF ReportsGood

\* Every step of officers, supervisors and deciders keeps the invariant.
LEMMA ReportsKept == ReportsGood /\ [Rprt!Next]_reportRows => ReportsGood'
<1> SUFFICES ASSUME ReportsGood, [Rprt!Next]_reportRows PROVE ReportsGood'
  OBVIOUS
<1> DEFINE VisitRow == [status: {"REQUESTED", "SCHEDULED", "IN_PROGRESS", "COMPLETED"}, officer: Inspectors \cup {"none"}]
<1>0. /\ visit \in VisitRow /\ ReportTypes
      /\ ReviewedAfterVisit /\ Rprt!NoDraftOutlivesReport /\ ApprovedStays
  BY DEF ReportsGood, ReportTypes
<1>1. ASSUME UNCHANGED <<reports, deficiencies, decision>>, verifying' \subseteq Rprt!Unresolved,
             visit' \in VisitRow, reportDrafts' \subseteq Inspectors,
             stage' \in {"INSPECTION_PENDING", "REVIEW_PENDING", "APPROVED_PENDING_ISSUE", "REJECTED"},
             ReviewedAfterVisit', Rprt!NoDraftOutlivesReport', ApprovedStays'
      PROVE  ReportsGood'
  <2>1. /\ ClosedOnEvidence' /\ Rprt!DeficienciesAreKept' /\ Rprt!Unresolved' = Rprt!Unresolved
        /\ Rprt!ApprovalIsEarned' /\ \A f \in DOMAIN deficiencies' : deficiencies'[f].report \in DOMAIN reports'
    BY <1>1, FindingsStay
  <2>2. ReportTypes'
    BY <1>0, <1>1, <2>1 DEF ReportTypes
  <2>3. QED
    BY <1>1, <2>1, <2>2 DEF ReportsGood
<1> HIDE DEF VisitRow
<1>2. ASSUME NEW p \in Inspectors, Rprt!Assign(p)
      PROVE  ReportsGood'
  <2>1. /\ visit.status \in {"REQUESTED", "SCHEDULED"} /\ visit' = [status |-> "SCHEDULED", officer |-> p]
        /\ UNCHANGED <<stage, reportDrafts, reports, deficiencies, verifying, decision>>
    BY <1>2 DEF Rprt!Assign
  <2>2. visit' \in VisitRow /\ visit'.status = "SCHEDULED"
    BY <2>1 DEF VisitRow
  <2>3. ReviewedAfterVisit' /\ Rprt!NoDraftOutlivesReport' /\ ApprovedStays'
    BY <1>0, <2>1, <2>2 DEF ReviewedAfterVisit, Rprt!NoDraftOutlivesReport, ApprovedStays
  <2>4. QED
    BY <1>0, <1>1, <2>1, <2>2, <2>3 DEF ReportTypes
<1>3. ASSUME NEW p \in Inspectors, Rprt!CheckIn(p)
      PROVE  ReportsGood'
  <2>1. /\ visit.status = "SCHEDULED" /\ visit' = [visit EXCEPT !.status = "IN_PROGRESS"]
        /\ UNCHANGED <<stage, reportDrafts, reports, deficiencies, verifying, decision>>
    BY <1>3 DEF Rprt!CheckIn
  <2>2. visit' \in VisitRow /\ visit'.status = "IN_PROGRESS"
    BY <1>0, <2>1 DEF VisitRow
  <2>3. ReviewedAfterVisit' /\ Rprt!NoDraftOutlivesReport' /\ ApprovedStays'
    BY <1>0, <2>1, <2>2 DEF ReviewedAfterVisit, Rprt!NoDraftOutlivesReport, ApprovedStays
  <2>4. QED
    BY <1>0, <1>1, <2>1, <2>2, <2>3 DEF ReportTypes
<1>4. ASSUME NEW p \in Inspectors, Rprt!SaveReportDraft(p)
      PROVE  ReportsGood'
  <2>1. /\ visit.status \in {"SCHEDULED", "IN_PROGRESS"} /\ reportDrafts' = reportDrafts \cup {p}
        /\ UNCHANGED <<stage, visit, reports, deficiencies, verifying, decision>>
    BY <1>4 DEF Rprt!SaveReportDraft
  <2>2. ReviewedAfterVisit' /\ Rprt!NoDraftOutlivesReport' /\ ApprovedStays'
    BY <1>0, <2>1 DEF ReviewedAfterVisit, Rprt!NoDraftOutlivesReport, ApprovedStays
  <2>3. QED
    BY <1>0, <1>1, <2>1, <2>2 DEF ReportTypes
<1>5. ASSUME NEW p \in Inspectors, Rprt!SubmitReport(p)
      PROVE  ReportsGood'
  BY <1>5, ReportAccepted
<1>6. CASE Rprt!ReturnForClarification
  <2>1. /\ stage = "REVIEW_PENDING" /\ stage' = "INSPECTION_PENDING"
        /\ visit' = [status |-> "REQUESTED", officer |-> "none"]
        /\ UNCHANGED <<reportDrafts, reports, deficiencies, verifying, decision>>
    BY <1>6 DEF Rprt!ReturnForClarification
  <2>2. visit' \in VisitRow /\ visit'.status = "REQUESTED"
    BY <2>1 DEF VisitRow
  <2>3. visit.status = "COMPLETED" /\ reportDrafts = {} /\ decision.kind # "APPROVE"
    BY <1>0, <2>1 DEF ReviewedAfterVisit, Rprt!NoDraftOutlivesReport, ApprovedStays
  <2>4. ReviewedAfterVisit' /\ Rprt!NoDraftOutlivesReport' /\ ApprovedStays'
    BY <2>1, <2>2, <2>3 DEF ReviewedAfterVisit, Rprt!NoDraftOutlivesReport, ApprovedStays
  <2>5. QED
    BY <1>0, <1>1, <2>1, <2>2, <2>4 DEF ReportTypes
<1>7. ASSUME UNCHANGED <<stage, visit, reportDrafts, reports, deficiencies, decision>>, verifying' \subseteq Rprt!Unresolved
      PROVE  ReportsGood'
  <2>1. ReviewedAfterVisit' /\ Rprt!NoDraftOutlivesReport' /\ ApprovedStays'
    BY <1>0, <1>7 DEF ReviewedAfterVisit, Rprt!NoDraftOutlivesReport, ApprovedStays
  <2>2. QED
    BY <1>0, <1>1, <1>7, <2>1 DEF ReportTypes
<1>8. ASSUME NEW p \in Verifiers, NEW f \in Rprt!Findings, Rprt!BeginVerification(p, f)
      PROVE  ReportsGood'
  BY <1>0, <1>7, <1>8 DEF Rprt!BeginVerification, ReportTypes
<1>9. ASSUME NEW f \in verifying, Rprt!RollBack(f)
      PROVE  ReportsGood'
  BY <1>0, <1>7, <1>9 DEF Rprt!RollBack, ReportTypes
<1>10. ASSUME NEW f \in verifying, NEW evidence \in Rprt!Basis(f), Rprt!VerifyFinding(f, evidence)
       PROVE  ReportsGood'
  BY <1>10, FindingVerified
<1>11. ASSUME NEW p \in Deciders, Rprt!ReadReadiness(p)
       PROVE  ReportsGood'
  BY <1>0, <1>7, <1>11 DEF Rprt!ReadReadiness, ReportTypes
<1>12. ASSUME NEW p \in Deciders, NEW kind \in {"APPROVE", "REJECT"}, Rprt!RecordDecision(p, kind)
       PROVE  ReportsGood'
  BY <1>12, DecisionRecorded
<1>13. CASE UNCHANGED reportRows
  BY <1>0, <1>7, <1>13 DEF reportRows, ReportTypes
<1>14. QED
  BY <1>2, <1>3, <1>4, <1>5, <1>6, <1>8, <1>9, <1>10, <1>11, <1>12, <1>13 DEF Rprt!Next

\* At first nothing is reported.
LEMMA ReportsStart == Rprt!Init => ReportsGood
<1> SUFFICES ASSUME Rprt!Init PROVE ReportsGood
  OBVIOUS
<1>1. /\ stage = "INSPECTION_PENDING" /\ visit = [status |-> "REQUESTED", officer |-> "none"]
      /\ reportDrafts = {} /\ reports = <<>> /\ deficiencies = <<>> /\ verifying = {} /\ decision.kind = "none"
  BY DEF Rprt!Init, Rprt!NoDecision
<1>2. ReportTypes
  BY <1>1 DEF ReportTypes
<1>3. ReviewedAfterVisit /\ ClosedOnEvidence /\ ApprovedStays
  BY <1>1 DEF ReviewedAfterVisit, ClosedOnEvidence, ApprovedStays
<1>4. Rprt!NoDraftOutlivesReport /\ Rprt!DeficienciesAreKept /\ Rprt!ApprovalIsEarned
  <2>1. Rprt!Unresolved = {}
    BY <1>1 DEF Rprt!Unresolved, Rprt!Findings
  <2>2. QED
    BY <1>1, <2>1 DEF Rprt!NoDraftOutlivesReport, Rprt!DeficienciesAreKept, Rprt!ApprovalIsEarned
<1>5. QED
  BY <1>2, <1>3, <1>4 DEF ReportsGood

\* The rows of reports and findings are typed.
LEMMA ReportsTyped == ReportsGood => Rprt!TypeOK
<1> SUFFICES ASSUME ReportsGood PROVE Rprt!TypeOK
  OBVIOUS
<1>1. ReportTypes
  BY DEF ReportsGood
<1>2. \A r \in DOMAIN reports : reports[r].by \in Inspectors /\ reports[r].observations \in Rprt!ValidObservations
  BY <1>1, ReportRows DEF Report
<1>3. \A f \in Rprt!Findings : deficiencies[f].item \in ChecklistItems /\ deficiencies[f].report \in DOMAIN reports
  BY <1>1, ReportRows DEF Deficiency, ReportTypes
<1>4. QED
  BY <1>1, <1>2, <1>3 DEF ReportTypes, Rprt!TypeOK

-----------------------------------------------------------------------------
\* A job has one leased handler at most; what a handler of a case export built,
\* and the file that was completed, is what was frozen; and who was handed a
\* ticket was handed a file.
FrozenGood ==
  /\ \A g, h \in handlers : g.export = h.export /\ g.leased /\ h.leased => g = h
  /\ \A h \in handlers : /\ exports[h.export].state # "none"
                         /\ h.rows.written /\ exports[h.export].kind = "CASES" => h.rows.rows = exports[h.export].frozen
  /\ \A e \in jobOpen : exports[e].state # "none"
  /\ \A e \in ExportIds : exports[e].state = "COMPLETE" => exports[e].file.written
  /\ exportTickets \subseteq {e \in ExportIds : exports[e].file.written}
  /\ Expo!FrozenFile

\* Who was assigned the visit, and how a proposal was decided.
AssignedGood ==
  /\ former \subseteq Proposers /\ assignee \in former \cup {Revw!Nobody}
  /\ \A o \in Proposers, x \in Operations :
       /\ proposals[o][x].state \in {"none", "OPEN", "RESOLVED"}
       /\ proposals[o][x].state = "RESOLVED" <=> proposals[o][x].outcome \in Revw!Outcomes
       /\ proposals[o][x].by \in Reviewers \cup {Revw!Nobody}

-----------------------------------------------------------------------------
(* Exports. *)

\* A step that leaves the files, the frozen cases and the kinds alone.
LEMMA FilesStay ==
  ASSUME ExportsGood, FrozenGood, NEW e \in ExportIds, NEW row \in ExportRow,
         exports' = [exports EXCEPT ![e] = row], row.kind = exports[e].kind, row.frozen = exports[e].frozen,
         row.file = exports[e].file, row.state = "none" => exports[e].state = "none",
         row.state = "COMPLETE" => exports[e].state = "COMPLETE",
         handlers' \subseteq handlers, jobOpen' \subseteq jobOpen,
         \A x \in exportTickets' \ exportTickets : x \in ExportIds /\ exports[x].file.written
  PROVE  FrozenGood'
<1>1. \A x \in ExportIds : exports'[x] = IF x = e THEN row ELSE exports[x]
  BY DEF ExportsGood
<1>2. \A x \in ExportIds :
        /\ exports'[x].kind = exports[x].kind /\ exports'[x].frozen = exports[x].frozen /\ exports'[x].file = exports[x].file
        /\ exports'[x].state = "none" => exports[x].state = "none"
        /\ exports'[x].state = "COMPLETE" => exports[x].state = "COMPLETE"
  BY <1>1
<1>3. \A h \in handlers : h.export \in ExportIds
  BY DEF ExportsGood
<1>4. jobOpen \subseteq ExportIds
  BY DEF ExportsGood
<1>5. Expo!FrozenFile'
  BY <1>2 DEF FrozenGood, Expo!FrozenFile
<1>6. QED
  BY <1>2, <1>3, <1>4, <1>5 DEF FrozenGood

\* Every step of an export keeps what was frozen.
LEMMA FrozenKept == ExportsGood /\ FrozenGood /\ [Expo!Next]_exportRows => FrozenGood'
<1> SUFFICES ASSUME ExportsGood, FrozenGood, [Expo!Next]_exportRows PROVE FrozenGood'
  OBVIOUS
<1> DEFINE Handler == [export: ExportIds, leased: BOOLEAN, rows: [rows: SUBSET Cases, written: BOOLEAN]]
<1>a. /\ exports \in [ExportIds -> ExportRow] /\ jobOpen \subseteq ExportIds /\ handlers \subseteq Handler
  BY DEF ExportsGood
<1>b. \A e \in ExportIds : exports[e] \in ExportRow
  BY <1>a
<1>1. ASSUME UNCHANGED <<exports, jobOpen>>, handlers' \subseteq handlers,
             \A x \in exportTickets' \ exportTickets : x \in ExportIds /\ exports[x].file.written
      PROVE  FrozenGood'
  BY <1>1 DEF FrozenGood, Expo!FrozenFile
<1>2. CASE \E s \in SUBSET Cases, p \in BOOLEAN : Expo!ChangeScope(s, p)
  BY <1>1, <1>2 DEF Expo!ChangeScope
<1>3. ASSUME NEW e \in ExportIds, Expo!GrantAccess(e) \/ Expo!EndTicket(e)
      PROVE  FrozenGood'
  <2>1. exports[e].state = "COMPLETE" => exports[e].file.written
    BY DEF FrozenGood
  <2>2. QED
    BY <1>1, <1>3, <2>1 DEF Expo!GrantAccess, Expo!EndTicket
<1>4. ASSUME NEW h \in handlers, Expo!AbandonHandler(h)
      PROVE  FrozenGood'
  BY <1>1, <1>4 DEF Expo!AbandonHandler
<1>5. ASSUME NEW e \in ExportIds, Expo!PassExpiry(e)
      PROVE  FrozenGood'
  <2>1. PICK row : row = [exports[e] EXCEPT !.late = TRUE]
    OBVIOUS
  <2>2. /\ row \in ExportRow /\ row.file = exports[e].file /\ row.state = exports[e].state
        /\ row.kind = exports[e].kind /\ row.frozen = exports[e].frozen
    BY <1>b, <2>1 DEF ExportRow
  <2>3. exports' = [exports EXCEPT ![e] = row] /\ UNCHANGED <<handlers, jobOpen, exportTickets>>
    BY <1>5, <2>1 DEF Expo!PassExpiry
  <2>4. QED
    BY <2>2, <2>3, FilesStay
<1>6. ASSUME NEW e \in ExportIds, Expo!ExpireInJob(e) \/ Expo!ExpireInView(e)
      PROVE  FrozenGood'
  <2>1. PICK row : row = [exports[e] EXCEPT !.state = "EXPIRED"]
    OBVIOUS
  <2>2. /\ row \in ExportRow /\ row.file = exports[e].file /\ row.state = "EXPIRED"
        /\ row.kind = exports[e].kind /\ row.frozen = exports[e].frozen
    BY <1>b, <2>1 DEF ExportRow
  <2>3. /\ exports' = [exports EXCEPT ![e] = row] /\ jobOpen' \in {jobOpen, jobOpen \ {e}}
        /\ UNCHANGED <<handlers, exportTickets>>
    BY <1>6, <2>1 DEF Expo!ExpireInJob, Expo!ExpireInView
  <2>4. QED
    BY <2>2, <2>3, FilesStay
<1>7. ASSUME NEW h \in handlers, Expo!LoseScope(h)
      PROVE  FrozenGood'
  <2>1. PICK e, row : e = h.export /\ row = [exports[e] EXCEPT !.state = "FAILED"]
    OBVIOUS
  <2>2. e \in ExportIds
    BY <1>a, <2>1
  <2>3. /\ row \in ExportRow /\ row.file = exports[e].file /\ row.state = "FAILED"
        /\ row.kind = exports[e].kind /\ row.frozen = exports[e].frozen
    BY <1>b, <2>1, <2>2 DEF ExportRow
  <2>4. /\ exports' = [exports EXCEPT ![e] = row] /\ jobOpen' \in {jobOpen, jobOpen \ {e}}
        /\ handlers' \subseteq handlers /\ exportTickets' = exportTickets
    BY <1>7, <2>1 DEF Expo!LoseScope
  <2>5. QED
    BY <2>2, <2>3, <2>4, FilesStay
<1>8. ASSUME NEW e \in ExportIds, NEW kind \in Expo!Kinds, Expo!CreateExport(e, kind)
      PROVE  FrozenGood'
  <2>1. PICK covered : covered = IF kind = "AUDIT" THEN {} ELSE scope
    OBVIOUS
  <2>2. PICK row : row = [exports[e] EXCEPT !.state = "READY", !.kind = kind, !.frozen = covered]
    OBVIOUS
  <2>3. row.file = exports[e].file /\ row.state = "READY"
    BY <1>b, <2>2 DEF ExportRow
  <2>4. /\ exports[e].state = "none" /\ exports' = [exports EXCEPT ![e] = row]
        /\ jobOpen' = jobOpen \cup {e} /\ UNCHANGED <<handlers, exportTickets>>
    BY <1>8, <2>1, <2>2 DEF Expo!CreateExport
  <2>5. \A x \in ExportIds : exports'[x] = IF x = e THEN row ELSE exports[x]
    BY <1>a, <2>4
  <2>6. ~exports[e].file.written
    BY <2>4 DEF ExportsGood, OpenJobUnwritten
  <2>7. \A h \in handlers : h.export \in ExportIds /\ h.export # e
    BY <1>a, <2>4 DEF FrozenGood
  <2>8. Expo!FrozenFile'
    BY <2>3, <2>5, <2>6 DEF FrozenGood, Expo!FrozenFile
  <2>9. QED
    BY <1>a, <2>3, <2>4, <2>5, <2>6, <2>7, <2>8 DEF FrozenGood
<1>9. ASSUME NEW e \in ExportIds, Expo!StartHandler(e)
      PROVE  FrozenGood'
  <2>1. PICK s : s = IF exports[e].state = "READY" THEN "RUNNING" ELSE exports[e].state
    OBVIOUS
  <2>2. PICK row : row = [exports[e] EXCEPT !.state = s]
    OBVIOUS
  <2>3. /\ row.file = exports[e].file /\ row.state = s
        /\ row.kind = exports[e].kind /\ row.frozen = exports[e].frozen
    BY <1>b, <2>2 DEF ExportRow
  <2>4. /\ exports' = [exports EXCEPT ![e] = row] /\ UNCHANGED <<jobOpen, exportTickets>>
        /\ e \in jobOpen /\ exports[e].state # "COMPLETE"
    BY <1>9, <2>1, <2>2 DEF Expo!StartHandler
  <2>5. s # "none" /\ s # "COMPLETE"
    BY <2>1, <2>4 DEF FrozenGood
  <2>6. \A x \in ExportIds : exports'[x] = IF x = e THEN row ELSE exports[x]
    BY <1>a, <2>4
  <2>7. \A x \in ExportIds :
          /\ exports'[x].kind = exports[x].kind /\ exports'[x].frozen = exports[x].frozen
          /\ exports'[x].file = exports[x].file
          /\ exports'[x].state = "COMPLETE" => exports[x].state = "COMPLETE"
          /\ exports'[x].state = "none" => exports[x].state = "none"
    BY <2>3, <2>4, <2>5, <2>6
  <2>8. PICK new : new = [export |-> e, leased |-> TRUE, rows |-> Expo!Unwritten]
    OBVIOUS
  <2>9. new.export = e /\ new.leased /\ ~new.rows.written
    BY <2>8 DEF Expo!Unwritten
  <2>10. \A g \in handlers' \ {new} :
           \E h \in handlers : /\ g.export = h.export /\ g.rows = h.rows /\ h.export \in ExportIds
                               /\ g.leased => g = h /\ h.leased /\ h.export # e
    <3>1. SUFFICES ASSUME NEW g \in handlers', g # new
                   PROVE  \E h \in handlers : /\ g.export = h.export /\ g.rows = h.rows /\ h.export \in ExportIds
                                              /\ g.leased => g = h /\ h.leased /\ h.export # e
      OBVIOUS
    <3>2. PICK h \in handlers : g = IF h.export = e THEN [h EXCEPT !.leased = FALSE] ELSE h
      BY <1>9, <2>8, <3>1 DEF Expo!StartHandler
    <3>3. h \in Handler
      BY <1>a
    <3>4. CASE h.export = e
      <4>1. g = [h EXCEPT !.leased = FALSE]
        BY <3>2, <3>4
      <4>2. g.export = h.export /\ g.rows = h.rows /\ g.leased = FALSE /\ h.export \in ExportIds
        BY <3>3, <4>1
      <4>3. QED
        BY <4>2
    <3>5. CASE h.export # e
      BY <3>2, <3>3, <3>5
    <3>6. QED
      BY <3>4, <3>5
  <2>11. \A f, g \in handlers' : f.export = g.export /\ f.leased /\ g.leased => f = g
    <3>1. SUFFICES ASSUME NEW f \in handlers', NEW g \in handlers', f.export = g.export, f.leased, g.leased
                   PROVE  f = g
      OBVIOUS
    <3>2. \A x \in handlers' : x # new /\ x.leased => x \in handlers /\ x.export # e
      BY <2>10
    <3>3. QED
      BY <2>9, <3>1, <3>2 DEF FrozenGood
  <2>12. \A g \in handlers' : /\ exports'[g.export].state # "none"
                              /\ g.rows.written /\ exports'[g.export].kind = "CASES" => g.rows.rows = exports'[g.export].frozen
    <3>1. SUFFICES ASSUME NEW g \in handlers'
                   PROVE  /\ exports'[g.export].state # "none"
                          /\ g.rows.written /\ exports'[g.export].kind = "CASES" => g.rows.rows = exports'[g.export].frozen
      OBVIOUS
    <3>2. CASE g = new
      BY <2>3, <2>5, <2>6, <2>9, <3>2
    <3>3. CASE g # new
      <4>1. PICK h \in handlers : g.export = h.export /\ g.rows = h.rows /\ h.export \in ExportIds
        BY <2>10, <3>3
      <4>2. QED
        BY <2>7, <4>1 DEF FrozenGood
    <3>4. QED
      BY <3>2, <3>3
  <2>13. Expo!FrozenFile'
    BY <2>7 DEF FrozenGood, Expo!FrozenFile
  <2>14. QED
    BY <1>a, <2>4, <2>7, <2>11, <2>12, <2>13 DEF FrozenGood
<1>10. ASSUME NEW h \in handlers, Expo!BuildRows(h)
       PROVE  FrozenGood'
  <2>1. PICK built : built = [h EXCEPT !.rows = [rows |-> Expo!RowsOf(h.export), written |-> TRUE]]
    OBVIOUS
  <2>2. h \in Handler
    BY <1>a
  <2>3. /\ built.export = h.export /\ built.leased = h.leased
        /\ built.rows.rows = Expo!RowsOf(h.export)
    BY <2>1, <2>2
  <2>4. handlers' = (handlers \ {h}) \cup {built} /\ UNCHANGED <<exports, jobOpen, exportTickets>>
    BY <1>10, <2>1 DEF Expo!BuildRows
  <2>5. exports[h.export].kind = "CASES" => built.rows.rows = exports[h.export].frozen
    BY <2>3 DEF Expo!RowsOf
  <2>6. QED
    BY <2>3, <2>4, <2>5 DEF FrozenGood, Expo!FrozenFile
<1>11. ASSUME NEW h \in handlers, Expo!CompleteExport(h)
       PROVE  FrozenGood'
  <2>1. PICK e, row : e = h.export /\ row = [exports[e] EXCEPT !.state = "COMPLETE", !.file = h.rows]
    OBVIOUS
  <2>2. e \in ExportIds /\ exports[e] \in ExportRow /\ h.rows.written
    BY <1>a, <1>11, <2>1 DEF Expo!CompleteExport
  <2>3. /\ row.state = "COMPLETE" /\ row.file = h.rows /\ row.kind = exports[e].kind /\ row.frozen = exports[e].frozen
    BY <2>1, <2>2 DEF ExportRow
  <2>4. /\ exports' = exports \/ exports' = [exports EXCEPT ![e] = row]
        /\ jobOpen' \subseteq jobOpen /\ handlers' \subseteq handlers /\ exportTickets' = exportTickets
    BY <1>11, <2>1 DEF Expo!CompleteExport
  <2>5. CASE exports' = exports
    BY <2>4, <2>5 DEF FrozenGood, Expo!FrozenFile
  <2>6. CASE exports' = [exports EXCEPT ![e] = row]
    <3>1. \A x \in ExportIds : exports'[x] = IF x = e THEN row ELSE exports[x]
      BY <1>a, <2>6
    <3>2. row.kind = "CASES" => row.file.rows = row.frozen
      BY <2>1, <2>2, <2>3 DEF FrozenGood
    <3>3. Expo!FrozenFile'
      BY <3>1, <3>2 DEF FrozenGood, Expo!FrozenFile
    <3>4. \A x \in ExportIds :
            /\ exports'[x].kind = exports[x].kind /\ exports'[x].frozen = exports[x].frozen
            /\ exports'[x].state = "COMPLETE" => exports'[x].file.written
            /\ exports[x].file.written => exports'[x].file.written
            /\ exports'[x].state = "none" => exports[x].state = "none"
      BY <2>2, <2>3, <3>1 DEF FrozenGood
    <3>5. QED
      BY <1>a, <2>4, <3>3, <3>4 DEF FrozenGood
  <2>7. QED
    BY <2>4, <2>5, <2>6
<1>12. CASE UNCHANGED exportRows
  BY <1>1, <1>12 DEF exportRows
<1>13. QED
  BY <1>2, <1>3, <1>4, <1>5, <1>6, <1>7, <1>8, <1>9, <1>10, <1>11, <1>12 DEF Expo!Next

\* Nothing is frozen at the beginning.
LEMMA FrozenStarts == Expo!Init => FrozenGood
BY DEF Expo!Init, Expo!Unwritten, FrozenGood, Expo!FrozenFile

\* One leased handler at most is a number.
LEMMA ExportsTyped == ExportsGood /\ FrozenGood => Expo!TypeOK
<1> SUFFICES ASSUME ExportsGood, FrozenGood PROVE Expo!TypeOK
  OBVIOUS
<1>1. ASSUME NEW e \in ExportIds
      PROVE  Expo!Cardinality({h \in handlers : h.export = e /\ h.leased}) <= 1
  <2>1. PICK leased : leased = {h \in handlers : h.export = e /\ h.leased}
    OBVIOUS
  <2>2. IsFiniteSet(leased) /\ Cardinality(leased) <= 1
    <3>1. CASE leased = {}
      BY <3>1, FS_EmptySet
    <3>2. CASE leased # {}
      <4>1. PICK h : leased = {h}
        <5>1. PICK h \in leased : TRUE
          BY <3>2
        <5>2. \A g \in leased : g = h
          BY <2>1, <5>1 DEF FrozenGood
        <5>3. QED
          BY <5>1, <5>2
      <4>2. IsFiniteSet({h}) /\ Cardinality({h}) = 1
        BY FS_Singleton
      <4>3. QED
        BY <4>1, <4>2
    <3>3. QED
      BY <3>1, <3>2
  <2>3. Expo!Cardinality(leased) = Cardinality(leased)
    BY <2>2 DEF Expo!Cardinality, Cardinality, IsFiniteSet
  <2>4. QED
    BY <2>1, <2>2, <2>3
<1>2. \A e \in ExportIds : exports[e].state \in {"none", "READY", "RUNNING", "COMPLETE", "FAILED", "EXPIRED"}
  BY DEF ExportsGood, ExportRow
<1>3. QED
  BY <1>1, <1>2 DEF FrozenGood, Expo!TypeOK

-----------------------------------------------------------------------------
(* The review of conflicts. *)

\* Every step of a review keeps who is assigned and how a proposal stands.
LEMMA AssignedKept == ReviewGood /\ AssignedGood /\ [Revw!Next]_reviewRows => AssignedGood'
<1> SUFFICES ASSUME ReviewGood, AssignedGood, [Revw!Next]_reviewRows PROVE AssignedGood'
  OBVIOUS
<1>a. Revw!Outcomes = {"PROPOSE_NEW_REPORT", "REINSPECTION_REQUIRED", "DECLINE"} /\ "none" \notin Revw!Outcomes
  BY DEF Revw!Outcomes
<1>b. proposals \in [Proposers -> [Operations -> ProposalRow]]
  BY DEF ReviewGood
<1>1. ASSUME UNCHANGED proposals, former' \subseteq Proposers, assignee' \in former' \cup {Revw!Nobody}
      PROVE  AssignedGood'
  BY <1>1 DEF AssignedGood
<1>2. ASSUME NEW o \in Proposers, Revw!Assign(o)
      PROVE  AssignedGood'
  BY <1>1, <1>2 DEF Revw!Assign, AssignedGood
<1>3. ASSUME NEW o \in Proposers, NEW x \in Operations \cup {"none"}, Revw!EndVisit(o, x)
      PROVE  AssignedGood'
  BY <1>1, <1>3 DEF Revw!EndVisit, AssignedGood
<1>4. ASSUME NEW o \in Proposers, NEW x \in Operations, Revw!BeginProposal(o, x)
      PROVE  AssignedGood'
  BY <1>1, <1>4 DEF Revw!BeginProposal, AssignedGood
<1>5. ASSUME NEW o \in Proposers, Revw!RollBack(o)
      PROVE  AssignedGood'
  BY <1>1, <1>5 DEF Revw!RollBack, AssignedGood
<1>6. ASSUME NEW o \in Proposers, NEW x, NEW row,
             proposals' = [proposals EXCEPT ![o][x] = row], UNCHANGED <<former, assignee>>,
             row.state \in {"none", "OPEN", "RESOLVED"}, row.state = "RESOLVED" <=> row.outcome \in Revw!Outcomes,
             row.by \in Reviewers \cup {Revw!Nobody}
      PROVE  AssignedGood'
  <2>1. ASSUME NEW p \in Proposers, NEW y \in Operations
        PROVE  proposals'[p][y] = IF p = o /\ y = x THEN row ELSE proposals[p][y]
    BY <1>b, <1>6
  <2>2. ASSUME NEW p \in Proposers, NEW y \in Operations
        PROVE  /\ proposals'[p][y].state \in {"none", "OPEN", "RESOLVED"}
               /\ proposals'[p][y].state = "RESOLVED" <=> proposals'[p][y].outcome \in Revw!Outcomes
               /\ proposals'[p][y].by \in Reviewers \cup {Revw!Nobody}
    <3>1. CASE p = o /\ y = x
      BY <1>6, <2>1, <3>1
    <3>2. CASE ~(p = o /\ y = x)
      BY <2>1, <3>2 DEF AssignedGood
    <3>3. QED
      BY <3>1, <3>2
  <2>3. former' \subseteq Proposers /\ assignee' \in former' \cup {Revw!Nobody}
    BY <1>6 DEF AssignedGood
  <2>4. QED
    BY <2>2, <2>3 DEF AssignedGood
<1>7. ASSUME NEW o \in Proposers, Revw!ProposeConflict(o)
      PROVE  AssignedGood'
  <2>1. PICK x, row : /\ x = proposing[o].operation
                      /\ row = [Revw!NoProposal EXCEPT !.state = "OPEN", !.mine = proposing[o].mine, !.ended = proposing[o].ended,
                                                       !.synced = ended = [officer |-> o, operation |-> proposing[o].operation]]
    OBVIOUS
  <2>2. row.state = "OPEN" /\ row.outcome = "none" /\ row.by = Revw!Nobody
    BY <2>1 DEF Revw!NoProposal
  <2>3. proposals' = [proposals EXCEPT ![o][x] = row] /\ UNCHANGED <<former, assignee>>
    BY <1>7, <2>1 DEF Revw!ProposeConflict
  <2>4. QED
    BY <1>a, <1>6, <2>2, <2>3
<1>8. ASSUME NEW s \in Reviewers, NEW o \in Proposers, NEW x \in Operations, NEW outcome \in Revw!Outcomes,
             Revw!ResolveConflict(s, o, x, outcome)
      PROVE  AssignedGood'
  <2>1. PICK row : row = [proposals[o][x] EXCEPT !.state = "RESOLVED", !.outcome = outcome, !.by = s]
    OBVIOUS
  <2>2. proposals[o][x] \in ProposalRow
    BY <1>b
  <2>3. row.state = "RESOLVED" /\ row.outcome = outcome /\ row.by = s
    BY <2>1, <2>2 DEF ProposalRow
  <2>4. proposals' = [proposals EXCEPT ![o][x] = row] /\ UNCHANGED <<former, assignee>>
    BY <1>8, <2>1 DEF Revw!ResolveConflict
  <2>5. QED
    BY <1>6, <2>3, <2>4
<1>9. CASE UNCHANGED reviewRows
  BY <1>1, <1>9 DEF reviewRows, AssignedGood
<1>10. QED
  BY <1>2, <1>3, <1>4, <1>5, <1>7, <1>8, <1>9 DEF Revw!Next

\* Nobody is assigned at the beginning.
LEMMA AssignedStarts == Revw!Init => AssignedGood
BY DEF Revw!Init, Revw!NoProposal, Revw!Outcomes, AssignedGood

\* The rows of a review have values the code can give them.
LEMMA ReviewTyped == AssignedGood => Revw!TypeOK
BY DEF AssignedGood, Revw!TypeOK

-----------------------------------------------------------------------------
(* Certificates. *)

\* One successor, or none, is a number.
LEMMA SuccessorsCounted == StatusGood => Stat!SuccessionStands
<1> SUFFICES ASSUME StatusGood, NEW c \in Certificates
             PROVE  Stat!Cardinality({s \in Certificates : predecessor[s] = c}) = IF recorded[c] = "SUPERSEDED" THEN 1 ELSE 0
  BY DEF Stat!SuccessionStands
<1>1. PICK successors : successors = {s \in Certificates : predecessor[s] = c}
  OBVIOUS
<1>2. IsFiniteSet(successors) /\ Cardinality(successors) = IF recorded[c] = "SUPERSEDED" THEN 1 ELSE 0
  <2>1. CASE recorded[c] = "SUPERSEDED"
    <3>1. PICK s \in Certificates : successors = {s}
      BY <1>1, <2>1 DEF StatusGood, OneSuccessor
    <3>2. IsFiniteSet({s}) /\ Cardinality({s}) = 1
      BY FS_Singleton
    <3>3. QED
      BY <2>1, <3>1, <3>2
  <2>2. CASE recorded[c] # "SUPERSEDED"
    <3>1. successors = {}
      BY <1>1, <2>2 DEF StatusGood, OneSuccessor
    <3>2. QED
      BY <2>2, <3>1, FS_EmptySet
  <2>3. QED
    BY <2>1, <2>2
<1>3. Stat!Cardinality(successors) = Cardinality(successors)
  BY <1>2 DEF Stat!Cardinality, Cardinality, IsFiniteSet
<1>4. QED
  BY <1>1, <1>2, <1>3

-----------------------------------------------------------------------------
(* Authority, documents and the partner's events. *)

\* The rows have values the code can give them.
LEMMA RowsTyped ==
  /\ AuthorityGood => Auth!TypeOK
  /\ DocumentsGood => Docs!TypeOK
  /\ InboxGood => Inbx!TypeOK
<1>1. ASSUME AuthorityGood
      PROVE  Auth!TypeOK
  <2>1. ASSUME NEW g \in GrantIds
        PROVE  /\ grants[g].state \in {"none", "checked", "PROPOSED", "APPROVED", "REVOKED"}
               /\ grants[g].state = "APPROVED" => grants[g].approver # "none"
    <3>1. grants[g] \in GrantRow \cup {Auth!NoGrant}
      BY <1>1 DEF AuthorityGood
    <3>2. CASE g \in DOMAIN InitialGrants
      BY <1>1, <3>1, <3>2 DEF AuthorityGood, GrantRow
    <3>3. CASE g \notin DOMAIN InitialGrants
      BY <1>1, <3>1, <3>3 DEF AuthorityGood, ApprovedByOthers, GrantRow, Auth!NoGrant
    <3>4. QED
      BY <3>2, <3>3
  <2>2. QED
    BY <1>1, <2>1 DEF AuthorityGood, Auth!TypeOK
<1>2. DocumentsGood => Docs!TypeOK
  BY DEF DocumentsGood, Docs!TypeOK, Reservation, Docs!None
<1>3. InboxGood => Inbx!TypeOK
  BY DEF InboxGood, Inbx!TypeOK, SourcePositions
<1>4. QED
  BY <1>1, <1>2, <1>3

-----------------------------------------------------------------------------
(* The services together. *)

\* The invariant of the rows of every service.
RowsInv ==
  /\ IInv /\ SupportGood /\ SignInGood /\ ThresholdsGood /\ ClockGood /\ DraftsGood
  /\ BookingsGood /\ IntakeGood /\ ReportsGood
  /\ FrozenGood /\ AssignedGood

\* Each component starts well, whichever of them moves.
LEMMA RowsStart == Init => RowsInv
<1> SUFFICES ASSUME Init PROVE RowsInv
  OBVIOUS
<1>1. /\ Supp!Init /\ Sign!Init /\ Thre!Init /\ Drft!Init /\ Book!Init /\ Intk!Init /\ Rprt!Init
      /\ Expo!Init /\ Revw!Init
  BY DEF Init
<1>2. SupportGood /\ SignInGood /\ ThresholdsGood /\ ClockGood /\ DraftsGood
  BY <1>1, SupportStarts, SignInStarts, ThresholdsStart, ClockStarts, DraftsStart
<1>3. BookingsGood /\ IntakeGood /\ ReportsGood /\ FrozenGood /\ AssignedGood
  BY <1>1, BookingsStart, IntakeStarts, ReportsStart, FrozenStarts, AssignedStarts
<1>4. QED
  BY <1>2, <1>3, Starts DEF RowsInv

\* A step is one of the component in focus, and the rows of the others stay.
LEMMA OneRowMoves ==
  ASSUME [Next]_vars
  PROVE  /\ [Supp!Next]_supportRows /\ [Sign!Next]_signInRows /\ [Thre!Next]_thresholdRows /\ [Drft!Next]_draftRows
         /\ [Book!Next]_bookingRows /\ [Intk!Next]_intakeRows /\ [Rprt!Next]_reportRows
<1>1. CASE Next
  BY <1>1 DEF Next
<1>2. CASE UNCHANGED vars
  BY <1>2 DEF vars
<1>3. QED
  BY <1>1, <1>2

\* A step keeps the invariants of all the services.
LEMMA RowsStep == RowsInv /\ [Next]_vars => RowsInv'
<1> SUFFICES ASSUME RowsInv, [Next]_vars PROVE RowsInv'
  OBVIOUS
<1>1. IInv' /\ FrozenGood' /\ AssignedGood'
  BY StepIInv, Focused, FrozenKept, AssignedKept DEF RowsInv, IInv
<1>2. SupportGood' /\ SignInGood' /\ ThresholdsGood' /\ ClockGood'
  BY OneRowMoves, SupportKept, SignInKept, ThresholdsKept, ClockKept DEF RowsInv
<1>3. DraftsGood' /\ BookingsGood'
  BY OneRowMoves, DraftsKept, BookingsKept DEF RowsInv
<1>4. IntakeGood' /\ ReportsGood'
  BY OneRowMoves, IntakeKept, ReportsKept DEF RowsInv
<1>5. QED
  BY <1>1, <1>2, <1>3, <1>4 DEF RowsInv

\* The invariants of all fourteen services hold in every reachable state, whichever
\* of them the behaviour is about.
THEOREM RowsInvariance == Spec => []RowsInv
<1>1. Init => RowsInv
  BY RowsStart
<1>2. RowsInv /\ [Next]_vars => RowsInv'
  BY RowsStep
<1>3. QED
  BY <1>1, <1>2, PTL DEF Spec, vars

\* The rows of every service have values the code can give them.
THEOREM RowsAreTyped == Spec => []TypeOK
<1>1. RowsInv => TypeOK
  <2> SUFFICES ASSUME RowsInv PROVE TypeOK
    OBVIOUS
  <2>1. Auth!TypeOK /\ Docs!TypeOK /\ Inbx!TypeOK /\ Poli!TypeOK /\ Stat!TypeOK
    BY RowsTyped DEF RowsInv, IInv, PolicyGood, StatusGood
  <2>2. Expo!TypeOK /\ Revw!TypeOK
    BY ExportsTyped, ReviewTyped DEF RowsInv, IInv
  <2>3. Supp!TypeOK /\ Sign!TypeOK /\ Thre!TypeOK /\ Drft!TypeOK
    BY CodesSpent, DraftsTyped DEF RowsInv, SupportGood, ThresholdsGood
  <2>4. Book!TypeOK /\ Intk!TypeOK /\ Rprt!TypeOK
    BY CalendarAgrees, ReferencesStand, ReportsTyped DEF RowsInv
  <2>5. QED
    BY <2>1, <2>2, <2>3, <2>4 DEF TypeOK, Of
<1>2. QED
  BY <1>1, RowsInvariance, PTL

\* A partner event that comes next is not left waiting (release_followers), a sign-in
\* code is spent once (complete_challenge), a draft is saved once for an attempt and a
\* page whose requests succeed forgets nothing (PatchDraft, useDraftAutosave), whatever
\* is lost, repeated or late.
THEOREM OnceDelivered == Spec => []DeliveredOnce
<1>1. RowsInv => DeliveredOnce
  BY CodesSpent DEF RowsInv, IInv, InboxGood, DraftsGood, DeliveredOnce, Of
<1>2. QED
  BY <1>1, RowsInvariance, PTL

\* The rows of a service agree with each other, whatever its size: a superseded
\* certificate has one successor (reissue), a ticket's times follow its state, an export
\* is the frozen scope, the due instant is the earliest at which active time reaches the
\* budget (recompute_obligation, due_instant), a threshold acts once and escalates once,
\* officers are in one place at a time and not where they are known to be absent, an
\* offline conflict is decided on what the server holds, a case is in its queue and has a
\* reference of its own, and an approval rests on the last report and closed findings.
THEOREM RowsHold == Spec => []RowsAgree
<1>1. RowsInv => RowsAgree
  <2> SUFFICES ASSUME RowsInv PROVE RowsAgree
    OBVIOUS
  <2>1. Stat!SuccessionStands /\ Supp!TicketsAgree /\ Expo!FrozenFile
    BY SuccessorsCounted DEF RowsInv, IInv, SupportGood, FrozenGood
  <2>2. Thre!DueIsEarliest /\ Thre!ThresholdOnce
    BY DueStands, OneOfAKey DEF RowsInv
  <2>3. Book!NoDoubleBooking /\ Book!AbsenceIsKnown /\ Revw!SnapshotAgrees
    BY CalendarAgrees DEF RowsInv, IInv, ReviewGood
  <2>4. Intk!RoutedOrOwned /\ Intk!NumberedOnce
    BY ReferencesStand DEF RowsInv
  <2>5. Rprt!NoDraftOutlivesReport /\ Rprt!DeficienciesAreKept /\ Rprt!ApprovalIsEarned
    BY DEF RowsInv, ReportsGood
  <2>6. QED
    BY <2>1, <2>2, <2>3, <2>4, <2>5 DEF RowsAgree, Of
<1>2. QED
  BY <1>1, RowsInvariance, PTL
=============================================================================
