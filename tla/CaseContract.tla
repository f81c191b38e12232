---------------------------- MODULE CaseContract ----------------------------
(***************************************************************************)
(* The CaseContract chaincode (case.contract.ts, policy.ts, keys.ts): the  *)
(* world state it keeps and one action per transaction.                    *)
(*                                                                         *)
(*   cases       the records under caseKey(caseId)                         *)
(*   stateIndex  the keys caseStateKey(state, caseId)                      *)
(*   events      the records under caseEventKey(caseId, actionId)          *)
(*                                                                         *)
(* A transaction is atomic here: it reads committed state and its writes   *)
(* commit together, which is what an endorsed and validated Fabric         *)
(* transaction gives.  A transaction that throws writes nothing, so a      *)
(* refused call is a disabled action.                                      *)
(***************************************************************************)
EXTENDS CaseRecords, FiniteSets

CONSTANTS
  CaseIds,             \* identifiers clients may use
  NoCase,              \* the empty payload getState returns for an absent key
  Actors,              \* the claims that callers present
  DocumentTypeClaims,  \* the documentTypes arguments callers pass
  MaxAuditSequence     \* bound on the transactions recorded on one case

ASSUME CaseContractAssumption ==
  /\ NoCase \notin AssuranceCase
  /\ Actors \subseteq UserClaims
  /\ DocumentTypeClaims \subseteq SUBSET DOCUMENT_TYPES
  /\ MaxAuditSequence \in Nat

VARIABLES cases, stateIndex, events

vars == <<cases, stateIndex, events>>

WorkflowEvent ==
  [caseId : CaseIds, sequence : Nat, actionType : WorkflowActions,
   previousState : WorkflowStates \cup {Undefined},
   newState : WorkflowStates]

Exists(caseId) == cases[caseId] # NoCase

-----------------------------------------------------------------------------
(* Writing the world state. *)

\* Mutant: the index entry of the old state is never deleted.
indexAfterPut_KeepsStale(caseId, previousCase, caseRecord) ==
  stateIndex \cup {<<caseRecord.currentState, caseId>>}

\* putCase for a key that held previousCase: the index entry of the new state
\* is put, then that of the old state is deleted if the state changed.
indexAfterPut(caseId, previousCase, caseRecord) ==
  LET put == stateIndex \cup {<<caseRecord.currentState, caseId>>}
      stale == {entry \in put :
                  /\ previousCase # NoCase
                  /\ previousCase.currentState # caseRecord.currentState
                  /\ entry = <<previousCase.currentState, caseId>>}
  IN put \ stale

putCase(caseId, caseRecord) ==
  /\ cases' = [cases EXCEPT ![caseId] = caseRecord]
  /\ stateIndex' = indexAfterPut(caseId, cases[caseId], caseRecord)

\* Mutant: the key of an event leaves the sequence number out.
SameEventKey_NoSequence(e, f) ==
  e.caseId = f.caseId /\ e.actionType = f.actionType

\* The ledger key of an event is its case, sequence number and action.
SameEventKey(e, f) ==
  /\ e.caseId = f.caseId
  /\ e.sequence = f.sequence
  /\ e.actionType = f.actionType

\* putState under the event's key: an event already there is replaced.
appendEvent(event) ==
  events' = {e \in events : ~SameEventKey(e, event)} \cup {event}

-----------------------------------------------------------------------------
(* Transactions. *)

assertCreateCaseAllowed(actor) ==
  /\ ActorInGoodStanding(actor)
  /\ "create_case" \in AllowedActions[actor.role]

\* Mutant: creation overwrites an existing case.
createCase_Overwrites(caseId, actor) ==
  /\ assertCreateCaseAllowed(actor)
  /\ MaxAuditSequence >= 1
  /\ putCase(caseId, DraftCase)
  /\ appendEvent([caseId |-> caseId, sequence |-> 1,
                  actionType |-> "create_case",
                  previousState |-> Undefined, newState |-> "draft"])

createCase(caseId, actor) ==
  /\ assertCreateCaseAllowed(actor)
  /\ ~Exists(caseId)
  /\ MaxAuditSequence >= 1
  /\ putCase(caseId, DraftCase)
  /\ appendEvent([caseId |-> caseId, sequence |-> 1,
                  actionType |-> "create_case",
                  previousState |-> Undefined, newState |-> "draft"])

\* Mutant: the event reads its previous state after the update.
performTransition_LateRead(caseId, rule, actor, types, ids, justified) ==
  /\ Exists(caseId)
  /\ cases[caseId].auditSequenceNumber < MaxAuditSequence
  /\ evaluateTransition(cases[caseId], rule, actor, types, justified)
  /\ LET updatedCase == applyTransition(cases[caseId], rule, actor, ids)
     IN /\ putCase(caseId, updatedCase)
        /\ appendEvent([caseId |-> caseId,
                        sequence |-> updatedCase.auditSequenceNumber,
                        actionType |-> rule.action,
                        previousState |-> updatedCase.currentState,
                        newState |-> updatedCase.currentState])

performTransition(caseId, rule, actor, types, ids, justified) ==
  /\ Exists(caseId)
  /\ cases[caseId].auditSequenceNumber < MaxAuditSequence
  /\ evaluateTransition(cases[caseId], rule, actor, types, justified)
  /\ LET updatedCase == applyTransition(cases[caseId], rule, actor, ids)
     IN /\ putCase(caseId, updatedCase)
        /\ appendEvent([caseId |-> caseId,
                        sequence |-> updatedCase.auditSequenceNumber,
                        actionType |-> rule.action,
                        previousState |-> cases[caseId].currentState,
                        newState |-> updatedCase.currentState])

\* Five transactions take no documents: the code passes empty arrays.
recordDomesticReview(caseId, actor, justified) ==
  performTransition(caseId, RecordDomesticReviewRule, actor, {}, {}, justified)

forwardToCoordination(caseId, actor, justified) ==
  performTransition(caseId, ForwardToCoordinationRule, actor, {}, {}, justified)

recordForeignReview(caseId, actor, justified) ==
  performTransition(caseId, RecordForeignReviewRule, actor, {}, {}, justified)

rejectAmendment(caseId, actor, justified) ==
  performTransition(caseId, RejectAmendmentRule, actor, {}, {}, justified)

closeCase(caseId, actor, justified) ==
  performTransition(caseId, CloseCaseRule, actor, {}, {}, justified)

\* The others take the document types and identifiers the client claims.
submitCase(caseId, actor, types, ids, justified) ==
  performTransition(caseId, SubmitCaseRule, actor, types, ids, justified)

requestMoreInformation(caseId, actor, types, ids, justified) ==
  performTransition(caseId, RequestMoreInformationRule, actor, types, ids,
                    justified)

respondToInformationRequest(caseId, actor, types, ids, justified) ==
  performTransition(caseId, RespondToInformationRequestRule, actor, types, ids,
                    justified)

forwardToForeignAuthority(caseId, actor, types, ids, justified) ==
  performTransition(caseId, ForwardToForeignAuthorityRule, actor, types, ids,
                    justified)

approveCase(caseId, actor, types, ids, justified) ==
  performTransition(caseId, ApproveCaseRule, actor, types, ids, justified)

rejectCase(caseId, actor, types, ids, justified) ==
  performTransition(caseId, RejectCaseRule, actor, types, ids, justified)

issueAssurance(caseId, actor, types, ids, justified) ==
  performTransition(caseId, IssueAssuranceRule, actor, types, ids, justified)

initiateNonSubstantiveAmendment(caseId, actor, types, ids, justified) ==
  performTransition(caseId, InitiateNonSubstantiveAmendmentRule, actor, types,
                    ids, justified)

initiateSubstantiveAmendment(caseId, actor, types, ids, justified) ==
  performTransition(caseId, InitiateSubstantiveAmendmentRule, actor, types,
                    ids, justified)

amendAssurance(caseId, actor, types, ids, justified) ==
  performTransition(caseId, AmendAssuranceRule, actor, types, ids, justified)

revokeAssurance(caseId, actor, types, ids, justified) ==
  performTransition(caseId, RevokeAssuranceRule, actor, types, ids, justified)

-----------------------------------------------------------------------------
Init ==
  /\ cases = [c \in CaseIds |-> NoCase]
  /\ stateIndex = {}
  /\ events = {}

\* The transactions whose only arguments are the case and the actor.
PlainTransaction(caseId, actor, justified) ==
  \/ recordDomesticReview(caseId, actor, justified)
  \/ forwardToCoordination(caseId, actor, justified)
  \/ recordForeignReview(caseId, actor, justified)
  \/ rejectAmendment(caseId, actor, justified)
  \/ closeCase(caseId, actor, justified)

DocumentedTransaction(caseId, actor, types, ids, justified) ==
  \/ submitCase(caseId, actor, types, ids, justified)
  \/ requestMoreInformation(caseId, actor, types, ids, justified)
  \/ respondToInformationRequest(caseId, actor, types, ids, justified)
  \/ forwardToForeignAuthority(caseId, actor, types, ids, justified)
  \/ approveCase(caseId, actor, types, ids, justified)
  \/ rejectCase(caseId, actor, types, ids, justified)
  \/ issueAssurance(caseId, actor, types, ids, justified)
  \/ initiateNonSubstantiveAmendment(caseId, actor, types, ids, justified)
  \/ initiateSubstantiveAmendment(caseId, actor, types, ids, justified)
  \/ amendAssurance(caseId, actor, types, ids, justified)
  \/ revokeAssurance(caseId, actor, types, ids, justified)

Next ==
  \E caseId \in CaseIds, actor \in Actors :
    \/ createCase(caseId, actor)
    \/ \E justified \in BOOLEAN :
         \/ PlainTransaction(caseId, actor, justified)
         \/ \E types \in DocumentTypeClaims, ids \in SUBSET DocumentIds :
              DocumentedTransaction(caseId, actor, types, ids, justified)

Spec == Init /\ [][Next]_vars

-----------------------------------------------------------------------------
(* Type invariant. *)

\* Every stored record, index key and event has the shape the code declares.
TypeOK ==
  /\ cases \in [CaseIds -> AssuranceCase \cup {NoCase}]
  /\ stateIndex \subseteq WorkflowStates \X CaseIds
  /\ events \subseteq WorkflowEvent

-----------------------------------------------------------------------------
(* The state index and the event trail agree with the records. *)

\* listCasesByState is exact: a case is indexed under its current state and
\* under no other, although putCase adds the new key before it deletes the old.
StateIndexExact ==
  \A state \in WorkflowStates, caseId \in CaseIds :
    <<state, caseId>> \in stateIndex
      <=> Exists(caseId) /\ cases[caseId].currentState = state

Trail(caseId) == {e \in events : e.caseId = caseId}

\* getCaseHistory has no gap and no fork: the sequence numbers of a case's
\* events are 1..auditSequenceNumber, each carried by one event.
TrailGapFree ==
  \A caseId \in CaseIds :
    /\ ~Exists(caseId) => Trail(caseId) = {}
    /\ Exists(caseId) =>
         /\ {e.sequence : e \in Trail(caseId)}
              = 1 .. cases[caseId].auditSequenceNumber
         /\ \A e, f \in Trail(caseId) : e.sequence = f.sequence => e = f

\* Replaying the trail reconstructs the case: it starts with the creation of a
\* draft, each event starts where its predecessor ended, and the last one ends
\* in the case's current state.
TrailReplays ==
  \A caseId \in CaseIds : \A e \in Trail(caseId) :
    /\ e.sequence = 1 <=> e.actionType = "create_case"
    /\ e.sequence = cases[caseId].auditSequenceNumber
         => e.newState = cases[caseId].currentState
    /\ \A f \in Trail(caseId) :
         f.sequence = e.sequence + 1 => f.previousState = e.newState

-----------------------------------------------------------------------------
(* Workflow invariants. *)

\* A case waits for information exactly while it remembers the review lane to
\* resume, so a response can always bring it back and no stale lane survives
\* (workflow.ts: currentSubstate in applyTransition).
InformationRequestResumable ==
  \A caseId \in CaseIds : Exists(caseId) => Resumable(cases[caseId])

\* While an amendment is under review the assurance it amends stays in force:
\* issued, versioned, with a state to fall back to; a non-substantive one is
\* never before the foreign regulator.
AmendmentKeepsBaseline ==
  \A caseId \in CaseIds : Exists(caseId) => BaselineKept(cases[caseId])

\* The issuance status agrees with the workflow: a rejected case never had an
\* assurance, one in force or revoked always did, and a revoked assurance can
\* only be archived.
IssuanceMatchesState ==
  \A caseId \in CaseIds : Exists(caseId) => IssuanceConsistent(cases[caseId])

\* The authorities' statuses agree with the lane: nothing is approved, and
\* nothing enters coordination, without the domestic endorsement; whatever is
\* in force has the foreign approval.
ApprovalIsEndorsed ==
  \A caseId \in CaseIds : Exists(caseId) => Endorsed(cases[caseId])

\* A case in its first review carries no approval and no assurance from
\* elsewhere: the statuses left by one round never leak into that one.
ReviewPrecedesGrant ==
  \A caseId \in CaseIds : Exists(caseId) => Ungranted(cases[caseId])

\* The assurance version counts the issue and amend events of the trail.
VersionCountsInstruments ==
  \A caseId \in CaseIds : Exists(caseId) =>
    cases[caseId].currentAssuranceVersion =
      Cardinality({e \in Trail(caseId) :
                     e.actionType \in {"issue_assurance", "amend_assurance"}})

\* The last event of a kind before e in e's trail is not older than the last
\* event of another kind.
PrecededSince(e, action, since) ==
  \E f \in Trail(e.caseId) :
    /\ f.actionType = action
    /\ f.sequence < e.sequence
    /\ \A g \in Trail(e.caseId) :
         g.actionType \in since /\ g.sequence < e.sequence
           => g.sequence < f.sequence

\* An assurance is issued, and a substantive amendment finalised, only after a
\* complete review of its own: endorsed, forwarded, reviewed and approved since
\* the creation or the initiation that opened it, never on an earlier round.
EveryInstrumentReviewed ==
  \A e \in events :
    \/ e.actionType = "issue_assurance"
    \/ e.actionType = "amend_assurance" /\ e.previousState = "approved"
    =>
    \A step \in {"forward_to_coordination", "forward_to_foreign_authority",
                 "record_foreign_review", "approve_case"} :
      PrecededSince(e, step,
                    {"create_case", "initiate_substantive_amendment"})

OfficerOf(role) ==
  [role |-> role, organizationType |-> OrganizationOf[role],
   activeFlag |-> TRUE]

CanProceed(c) ==
  \E rule \in TRANSITIONS, role \in UserRoles :
    evaluateTransition(c, rule, OfficerOf(role), DOCUMENT_TYPES, TRUE)

\* No case is stuck: unless it is archived, some officer in good standing,
\* with the documents at hand, can take it further.
NoCaseStuck ==
  \A caseId \in CaseIds :
    Exists(caseId) /\ cases[caseId].currentState # "closed_archived" =>
      CanProceed(cases[caseId])

-----------------------------------------------------------------------------
(* Action properties. *)

\* The trail is append-only: no transaction replaces or removes an event.
TrailAppendOnly == [][events \subseteq events']_vars

\* An amendment that ends without a new version, which is how a rejected one
\* ends, takes the case back to the state in which it was initiated.
AmendmentRejectionRestores ==
  [][\A caseId \in CaseIds :
       /\ Exists(caseId)
       /\ cases[caseId].pendingAmendmentReviewMode # "none"
       /\ cases'[caseId].pendingAmendmentReviewMode = "none"
       /\ cases'[caseId].currentAssuranceVersion
            = cases[caseId].currentAssuranceVersion
       =>
       \E e \in Trail(caseId) :
         /\ e.actionType \in AmendmentInitiations
         /\ e.previousState = cases'[caseId].currentState
         /\ \A f \in Trail(caseId) :
              f.actionType \in AmendmentInitiations => f.sequence <= e.sequence
    ]_vars

\* A case moves only forward in authority: an archived case never changes, a
\* rejected or revoked one can only be archived, and no version is ever lost.
OutcomesAreFinal ==
  [][\A caseId \in CaseIds : Exists(caseId) =>
       LET c == cases[caseId]
           d == cases'[caseId]
       IN /\ c.currentState = "closed_archived" => d = c
          /\ c.currentState \in {"rejected", "revoked"} =>
               d.currentState \in {c.currentState, "closed_archived"}
          /\ d.currentAssuranceVersion >= c.currentAssuranceVersion
    ]_vars

-----------------------------------------------------------------------------
(* The contract implements the lifecycle it promises. *)

\* The phase an observer outside the review sees.
PhaseOf(caseRecord) ==
  IF caseRecord = NoCase THEN "absent"
  ELSE IF caseRecord.pendingAmendmentReviewMode # "none" THEN "under_amendment"
  ELSE IF caseRecord.currentState \in InForceStates THEN "in_force"
  ELSE IF caseRecord.currentState = "rejected" THEN "refused"
  ELSE IF caseRecord.currentState = "revoked" THEN "revoked"
  ELSE IF caseRecord.currentState = "closed_archived" THEN "archived"
  ELSE "application"

VersionOf(caseRecord) ==
  IF caseRecord = NoCase THEN 0 ELSE caseRecord.currentAssuranceVersion

Lifecycle ==
  INSTANCE AssuranceLifecycle
    WITH phase   <- [c \in CaseIds |-> PhaseOf(cases[c])],
         version <- [c \in CaseIds |-> VersionOf(cases[c])]

\* Every transaction of the contract is a step of the lifecycle or invisible to
\* it: seventeen actions, six of which move an assurance.
LifecycleSpec == Lifecycle!Spec

=============================================================================
