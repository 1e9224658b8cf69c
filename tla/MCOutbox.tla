------------------------------ MODULE MCOutbox ------------------------------
(* One intent for one staff member and one applicant with a channel, hence   *)
(* one fan-out and one delivery job, served by two workers.                  *)
EXTENDS Outbox

CONSTANTS m1, staff, applicant, w1, w2

MCMessages == {m1}
MCPeople == {staff, applicant}
MCReachable == {applicant}
MCWorkers == {w1, w2}
=============================================================================
