------------------------------- MODULE MCCase -------------------------------
(* One application whose checklist has one mandatory and one advisory item.  *)
EXTENDS CaseLifecycle

CONSTANTS exit, sign

MCItems == {exit, sign}
MCMandatory == {exit}
MCWithdrawFrom == {"DRAFT", "SCRUTINY", "INSPECTION_PENDING", "COMPLIANCE_PENDING"}
MCScopes == {{"DECISIONS"}, {"TRANSITIONS"}}
MCRacing == {"SubmitResponse", "ReviewItem", "VerifyFinding", "ReleaseHold"}
=============================================================================
