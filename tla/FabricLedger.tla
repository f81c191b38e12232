---------------------------- MODULE FabricLedger ----------------------------
(***************************************************************************)
(* How the gateway service (fabric.service.ts) gets a CaseContract         *)
(* transaction onto the ledger: peers endorse it against the world state   *)
(* they have, the network orders and validates it later, and the service   *)
(* waits for the outcome.  Between endorsement and validation other        *)
(* transactions commit.  CaseContract takes a transaction for one atomic   *)
(* step; this module is where that is shown to be justified.               *)
(*                                                                         *)
(*   keyVersions   the version of caseKey(caseId), which validation checks *)
(*   submissions   the calls of submitWithContract in flight               *)
(*                                                                         *)
(* A submission carries what the endorsing peers computed: the version of  *)
(* the record they read and the writes to apply if it is still current.    *)
(***************************************************************************)
EXTENDS CaseContract

CONSTANT Submissions    \* slots for calls in flight

VARIABLES keyVersions, submissions

ledgerVars == <<vars, keyVersions, submissions>>

Idle == [status |-> "idle", outcome |-> "none"]

\* status is the network's view, outcome what the service's caller was told.
Submission ==
  [status : {"endorsed", "valid", "invalid"},
   outcome : {"pending", "payload", "error"},
   caseId : CaseIds, readVersion : Nat, caseRecord : AssuranceCase,
   staleEntries : SUBSET (WorkflowStates \X CaseIds), event : WorkflowEvent]

\* A slot is free when its transaction and its caller are both done with.
Free(s) ==
  submissions[s].status # "endorsed" /\ submissions[s].outcome # "pending"

-----------------------------------------------------------------------------
(* Endorsement: the contract runs against the committed state and its      *)
(* writes are recorded, not applied.  A call that throws is not endorsed.  *)

\* putCase deletes the index entry of the state the record leaves.
staleIndexEntries(caseId, caseRecord) ==
  IF Exists(caseId) /\ cases[caseId].currentState # caseRecord.currentState
  THEN {<<cases[caseId].currentState, caseId>>} ELSE {}

submitAsync(s, caseId, caseRecord, event) ==
  /\ Free(s)
  /\ submissions' =
       [submissions EXCEPT ![s] =
          [status |-> "endorsed", outcome |-> "pending", caseId |-> caseId,
           readVersion |-> keyVersions[caseId], caseRecord |-> caseRecord,
           staleEntries |-> staleIndexEntries(caseId, caseRecord),
           event |-> event]]
  /\ UNCHANGED <<vars, keyVersions>>

submitCreateCase(s, caseId, actor) ==
  /\ assertCreateCaseAllowed(actor)
  /\ ~Exists(caseId)
  /\ MaxAuditSequence >= 1
  /\ submitAsync(s, caseId, DraftCase,
       [caseId |-> caseId, sequence |-> 1, actionType |-> "create_case",
        previousState |-> Undefined, newState |-> "draft"])

submitTransition(s, caseId, rule, actor, types, ids, justified) ==
  /\ Exists(caseId)
  /\ cases[caseId].auditSequenceNumber < MaxAuditSequence
  /\ evaluateTransition(cases[caseId], rule, actor, types, justified)
  /\ LET updatedCase == applyTransition(cases[caseId], rule, actor, ids)
     IN submitAsync(s, caseId, updatedCase,
          [caseId |-> caseId, sequence |-> updatedCase.auditSequenceNumber,
           actionType |-> rule.action,
           previousState |-> cases[caseId].currentState,
           newState |-> updatedCase.currentState])

-----------------------------------------------------------------------------
(* Validation and the answer to the caller. *)

ReadSetCurrent(s) ==
  submissions[s].readVersion = keyVersions[submissions[s].caseId]

\* Mutant: a transaction commits whatever has changed since its endorsement.
commitTransaction_Unchecked(s) ==
  LET tx == submissions[s]
  IN
  /\ tx.status = "endorsed"
  /\ submissions' = [submissions EXCEPT ![s].status = "valid"]
  /\ keyVersions' = [keyVersions EXCEPT ![tx.caseId] = @ + 1]
  /\ cases' = [cases EXCEPT ![tx.caseId] = tx.caseRecord]
  /\ stateIndex' = (stateIndex \cup {<<tx.caseRecord.currentState, tx.caseId>>})
                     \ tx.staleEntries
  /\ appendEvent(tx.event)

\* The record read is still current: the recorded writes are applied.
commitTransaction(s) ==
  LET tx == submissions[s]
  IN
  /\ tx.status = "endorsed"
  /\ ReadSetCurrent(s)
  /\ submissions' = [submissions EXCEPT ![s].status = "valid"]
  /\ keyVersions' = [keyVersions EXCEPT ![tx.caseId] = @ + 1]
  /\ cases' = [cases EXCEPT ![tx.caseId] = tx.caseRecord]
  /\ stateIndex' = (stateIndex \cup {<<tx.caseRecord.currentState, tx.caseId>>})
                     \ tx.staleEntries
  /\ appendEvent(tx.event)

\* It is not: the transaction is recorded as invalid and writes nothing.
invalidateTransaction(s) ==
  /\ submissions[s].status = "endorsed"
  /\ ~ReadSetCurrent(s)
  /\ submissions' = [submissions EXCEPT ![s].status = "invalid"]
  /\ UNCHANGED <<vars, keyVersions>>

\* Mutant: the result of the endorsement is returned without a look at status.
getStatus_Unchecked(s) ==
  /\ submissions[s].status \in {"valid", "invalid"}
  /\ submissions[s].outcome = "pending"
  /\ submissions' = [submissions EXCEPT ![s].outcome = "payload"]
  /\ UNCHANGED <<vars, keyVersions>>

\* The commit status arrives: the endorsed result is returned, or thrown away.
getStatus(s) ==
  /\ submissions[s].status \in {"valid", "invalid"}
  /\ submissions[s].outcome = "pending"
  /\ submissions' =
       [submissions EXCEPT ![s].outcome =
          IF submissions[s].status = "valid" THEN "payload" ELSE "error"]
  /\ UNCHANGED <<vars, keyVersions>>

\* The connection fails while the service waits; the transaction goes on.
loseStatus(s) ==
  /\ submissions[s].status \in {"endorsed", "valid", "invalid"}
  /\ submissions[s].outcome = "pending"
  /\ submissions' = [submissions EXCEPT ![s].outcome = "error"]
  /\ UNCHANGED <<vars, keyVersions>>

-----------------------------------------------------------------------------
\* The transactions that carry no documents.
PlainRules ==
  {RecordDomesticReviewRule, ForwardToCoordinationRule,
   RecordForeignReviewRule, RejectAmendmentRule, CloseCaseRule}

submitAny(s) ==
  \E caseId \in CaseIds, actor \in Actors :
    \/ submitCreateCase(s, caseId, actor)
    \/ \E justified \in BOOLEAN :
         \/ \E rule \in PlainRules :
              submitTransition(s, caseId, rule, actor, {}, {}, justified)
         \/ \E rule \in TRANSITIONS \ PlainRules :
              \E types \in DocumentTypeClaims, ids \in SUBSET DocumentIds :
                submitTransition(s, caseId, rule, actor, types, ids, justified)

FabricInit ==
  /\ Init
  /\ keyVersions = [c \in CaseIds |-> 0]
  /\ submissions = [s \in Submissions |-> Idle]

FabricNext ==
  \E s \in Submissions :
    \/ submitAny(s)
    \/ commitTransaction(s)
    \/ invalidateTransaction(s)
    \/ getStatus(s)
    \/ loseStatus(s)

FabricSpec == FabricInit /\ [][FabricNext]_ledgerVars

-----------------------------------------------------------------------------
(* Properties. *)

\* The versions and the submissions in flight have the declared shape.
LedgerTypeOK ==
  /\ keyVersions \in [CaseIds -> Nat]
  /\ submissions \in [Submissions -> Submission \cup {Idle}]

\* Endorsing first and validating later is as good as running each transaction
\* alone: no interleaving loses an update, repeats an event or leaves an index
\* entry behind.  Whatever CaseContract guarantees, the ledger guarantees.
Serializable == Spec

SameStep(e, f) == e.caseId = f.caseId /\ e.sequence = f.sequence

\* A caller who got a payload is told the truth: the event it carries is in the
\* trail, and no other caller was told that it took the same step.
AnswersTrue ==
  \A s, t \in Submissions :
    submissions[s].outcome = "payload" =>
      /\ submissions[s].event \in events
      /\ s # t /\ submissions[t].outcome = "payload" =>
           ~SameStep(submissions[s].event, submissions[t].event)

=============================================================================
