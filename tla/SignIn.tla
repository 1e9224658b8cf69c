--------------------------------- MODULE SignIn ---------------------------------
(***************************************************************************)
(* Applicant sign-in by one-time code (identity/otp.py and OtpVerifyView)  *)
(* for one contact, up to the session that starts (Authority has what ends *)
(* one). Verification is two transactions: the code is consumed and the    *)
(* principal found or created, then the contact is recorded for it; the    *)
(* process can stop between them. Codes are external: a guess is right or  *)
(* wrong. The limits live in a store whose counters start again with their *)
(* window; while it is down no call passes them (they fail closed), which  *)
(* is a call that does not happen.                                         *)
(***************************************************************************)
EXTENDS FiniteSets, Naturals, Sequences

CONSTANTS
  Lifetime, Cooldown, SendsPerWindow, MaxAttempts,
  MaxChallenges, LastInstant  \* bounds

SignInAssumption ==
  /\ {Lifetime, Cooldown, SendsPerWindow, MaxAttempts} \subseteq Nat \ {0}
  /\ {MaxChallenges, LastInstant} \subseteq Nat

VARIABLES
  instant,
  limiter,     \* sends counted in this window, when a resend is free
  starting,    \* start_challenge calls that passed the limits: their clock, the window they
               \* were counted in, and the challenges that were committed then
  challenges,  \* OtpChallenge rows in the order they were committed
  identity,    \* whether the principal exists, and its ContactIdentity
  verified,    \* challenges whose view still has to record the contact
  started      \* the challenge of every session that was established

signInVars == <<instant, limiter, starting, challenges, identity, verified, started>>

Ids == DOMAIN challenges

Init ==
  /\ instant = 0 /\ starting = {} /\ challenges = <<>> /\ verified = {} /\ started = <<>>
  /\ limiter = [sent |-> 0, windows |-> 0, free |-> 0]
  /\ identity = [principal |-> FALSE, contact |-> FALSE]

Tick ==
  /\ instant < LastInstant
  /\ instant' = instant + 1
  /\ UNCHANGED <<limiter, starting, challenges, identity, verified, started>>

\* The counter's key expires, or the store loses it.
TurnWindow ==
  /\ limiter.windows = 0 /\ limiter.sent > 0
  /\ limiter' = [limiter EXCEPT !.sent = 0, !.windows = 1]
  /\ UNCHANGED <<instant, starting, challenges, identity, verified, started>>

-----------------------------------------------------------------------------
(* start_challenge: the limits, then one transaction that also sends.      *)

\* A send refused by the cooldown has been counted all the same.
CheckLimits ==
  /\ limiter.sent <= SendsPerWindow
  /\ limiter' = [limiter EXCEPT !.sent = @ + 1,
                                !.free = IF limiter.sent < SendsPerWindow /\ instant >= @ THEN instant + Cooldown ELSE @]
  /\ starting' = IF limiter.sent < SendsPerWindow /\ instant >= limiter.free
                 THEN starting \cup {[at |-> instant, window |-> limiter.windows, seen |-> Len(challenges)]}
                 ELSE starting
  /\ Len(challenges) + Cardinality(starting') <= MaxChallenges
  /\ UNCHANGED <<instant, challenges, identity, verified, started>>

\* The challenges committed when the UPDATE ran are superseded; one whose
\* transaction was still sending is not seen.
StartChallenge(s, seen) ==
  /\ s \in starting /\ seen \in s.seen..Len(challenges)
  /\ starting' = starting \ {s}
  /\ challenges' = Append([i \in Ids |-> IF i <= seen /\ challenges[i].state = "open"
                                        THEN [challenges[i] EXCEPT !.state = "superseded"] ELSE challenges[i]],
                          [state |-> "open", attempts |-> 0, expires |-> s.at + Lifetime, window |-> s.window, seen |-> seen])
  /\ UNCHANGED <<instant, limiter, identity, verified, started>>

SendFails(s) ==
  /\ s \in starting
  /\ starting' = starting \ {s}
  /\ UNCHANGED <<instant, limiter, challenges, identity, verified, started>>

-----------------------------------------------------------------------------
(* verify_challenge: the row is locked, and a wrong code is committed as   *)
(* an attempt before the error is raised.                                  *)

MutUsable(c) == c.state = "open" /\ instant < c.expires
Usable(c) == c.state = "open" /\ instant < c.expires /\ c.attempts < MaxAttempts

WrongCode(i) ==
  /\ Usable(challenges[i])
  /\ challenges' = [challenges EXCEPT ![i].attempts = @ + 1]
  /\ UNCHANGED <<instant, limiter, starting, identity, verified, started>>

\* bind_principal creates a principal when no ContactIdentity is found. Its
\* login key is unique: if it exists without its contact, the insert fails
\* and the whole transaction is rolled back.
Binds == identity.contact \/ ~identity.principal

VerifyChallenge(i) ==
  /\ Usable(challenges[i]) /\ Binds
  /\ challenges' = [challenges EXCEPT ![i].attempts = @ + 1, ![i].state = "consumed"]
  /\ identity' = [identity EXCEPT !.principal = TRUE]
  /\ verified' = verified \cup {i}
  /\ UNCHANGED <<instant, limiter, starting, started>>

\* record_verified_contact, when the request repeats the contact, and establish_session.
EstablishSession(i, withContact) ==
  /\ i \in verified
  /\ verified' = verified \ {i}
  /\ identity' = [identity EXCEPT !.contact = @ \/ withContact]
  /\ started' = Append(started, i)
  /\ UNCHANGED <<instant, limiter, starting, challenges>>

StopBetween(i) ==
  /\ i \in verified
  /\ verified' = verified \ {i}
  /\ UNCHANGED <<instant, limiter, starting, challenges, identity, started>>

Next ==
  \/ Tick \/ TurnWindow \/ CheckLimits
  \/ \E s \in starting : SendFails(s) \/ \E seen \in 0..MaxChallenges : StartChallenge(s, seen)
  \/ \E i \in Ids : WrongCode(i) \/ VerifyChallenge(i) \/ StopBetween(i)
  \/ \E i \in Ids, withContact \in BOOLEAN : EstablishSession(i, withContact)

Spec == Init /\ [][Next]_signInVars

-----------------------------------------------------------------------------
TypeOK ==
  /\ instant \in 0..LastInstant
  /\ limiter.sent \in 0..(SendsPerWindow + 1)
  /\ \A i \in Ids : challenges[i].state \in {"open", "superseded", "consumed"} /\ challenges[i].attempts \in 0..MaxAttempts
  /\ identity.contact => identity.principal
  /\ verified \subseteq Ids

\* A code starts one session at most, however often its request is repeated; an
\* older code is usable beside a newer one only if it was being sent at the same
\* time; the codes of one window leave room for SendsPerWindow * MaxAttempts guesses.
CodesAreSpent ==
  /\ \A m, n \in DOMAIN started : started[m] = started[n] => m = n
  /\ \A i \in verified \cup {started[n] : n \in DOMAIN started} : challenges[i].state = "consumed"
  /\ \A i, j \in Ids : i < j /\ challenges[i].state = "open" => i > challenges[j].seen
  /\ \A w \in 0..1 : Cardinality({i \in Ids : challenges[i].window = w}) <= SendsPerWindow
=================================================================================
