---------------------------- MODULE CaseRecords -----------------------------
(***************************************************************************)
(* What the fields of one stored case record say of each other.  These     *)
(* agreements are not written down in the code; they follow from the       *)
(* transitions of Workflow, wherever the record is kept.                   *)
(***************************************************************************)
EXTENDS Workflow

\* The lane a case is in, looking through an information request.
EffectiveLane(c) ==
  IF c.currentState = "more_information_requested"
  THEN c.currentSubstate ELSE c.currentState

\* The lanes an open amendment may occupy: a non-substantive one never leaves
\* coordination, a substantive one repeats the whole review.
AmendmentLanes(mode) ==
  IF mode = "non_substantive" THEN {"awaiting_coordination"}
  ELSE ReviewLanes \cup {"forwarded_to_foreign_authority", "approved"}

Resumable(c) ==
  IF c.currentState = "more_information_requested"
  THEN c.currentSubstate \in ReviewLanes
  ELSE c.currentSubstate = Undefined

BaselineKept(c) ==
  IF c.pendingAmendmentReviewMode = "none"
  THEN c.amendmentBaseState = Undefined
  ELSE /\ c.amendmentBaseState \in InForceStates
       /\ c.issuanceStatus = "issued"
       /\ c.currentAssuranceVersion >= 1
       /\ EffectiveLane(c) \in AmendmentLanes(c.pendingAmendmentReviewMode)

IssuanceConsistent(c) ==
  /\ c.issuanceStatus = "not_issued" <=> c.currentAssuranceVersion = 0
  /\ c.currentState \in InForceStates => c.issuanceStatus = "issued"
  /\ c.currentState = "revoked" => c.issuanceStatus = "revoked"
  /\ c.currentState = "rejected" => c.issuanceStatus = "not_issued"
  /\ c.issuanceStatus = "revoked" =>
       c.currentState \in {"revoked", "closed_archived"}

\* The states that only an endorsed case may be in.
EndorsedLanes ==
  {"awaiting_coordination", "forwarded_to_foreign_authority",
   "under_foreign_review", "approved"} \cup InForceStates

Endorsed(c) ==
  /\ c.foreignRegulatorStatus = "approved" =>
       c.domesticRegulatorStatus = "endorsed"
  /\ EffectiveLane(c) \in EndorsedLanes =>
       c.domesticRegulatorStatus = "endorsed"
  /\ c.currentState \in {"approved"} \cup InForceStates =>
       c.foreignRegulatorStatus = "approved"

\* The states before the first foreign approval.
PreApproval ==
  {"draft", "submitted", "forwarded_to_foreign_authority"} \cup ReviewLanes

Ungranted(c) ==
  c.pendingAmendmentReviewMode = "none" =>
    /\ EffectiveLane(c) \in PreApproval => c.foreignRegulatorStatus # "approved"
    /\ EffectiveLane(c) \in PreApproval \cup {"approved"} =>
         c.issuanceStatus = "not_issued"

=============================================================================
