----------------------------- MODULE MCWorkspace -----------------------------
(* A small instance of Workspace for TLC.  Cases, roles, requests and loads  *)
(* are each more than one, but not all in the same session.                  *)
EXTENDS Workspace, TLC

MCUserRoles == UserRoles

MCUserActors == {buildActor(role) : role \in UserRoles}

MCAnchoredTypes == {"inspection_or_audit_evidence"}

MCDocumentTypeClaims == {DOCUMENT_TYPES}

WorkspaceSymmetry ==
  Permutations(CaseIds) \cup Permutations(Requests) \cup Permutations(Loads)

-----------------------------------------------------------------------------
(* The sessions explored. *)

CasesTouched ==
  {caseId \in CaseIds : Exists(caseId)} \cup Reserved
    \cup {loads[l].caseId : l \in {k \in Loads : loads[k] # Idle}}

Busy == {r \in Requests : requests[r] # Idle}

Uploads == {d \in DocumentIds : d \in Uploading \/ documents[d] # NoDocument}

As(role) == actor = buildActor(role)

Quiet == overview.step # "asked" /\ \A l \in Loads : loads[l] = Idle

Within(n) == \A e \in events : e.sequence <= n

\* The applicant works on two cases; loads cross.
LoadsCross ==
  /\ As("applicant_case_manager") /\ Within(2) /\ Uploads = {}
  /\ Cardinality(Busy) <= 1
  /\ Busy = {} => mirrorCases = cases
  /\ \A r \in Busy : Awaited(r) \/ (Quiet /\ ~isBusy)

\* A regulator and others work on one case and a document; requests overlap.
RequestsOverlap ==
  /\ As("domestic_regulator_officer") /\ Within(3) /\ ticked = {}
  /\ Cardinality(CasesTouched) <= 1
  /\ Quiet /\ shown # Nothing /\ shown.caseId = selectedCaseId
  /\ Cardinality(Busy) <= 1 \/ (handler.step = "sent" /\ Uploads # {})

\* Every role looks at one case; what it submits is not carried out.
RolesChange ==
  /\ Uploads = {}
  /\ Cardinality(CasesTouched) <= 1
  /\ Cardinality(Busy) <= 1 /\ ~isBusy
  /\ Busy = {} \/ Quiet

SessionsExplored == LoadsCross \/ RequestsOverlap \/ RolesChange
=============================================================================
