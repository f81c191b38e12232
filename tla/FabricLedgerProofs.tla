------------------------- MODULE FabricLedgerProofs -------------------------
(***************************************************************************)
(* Endorsing first and validating later implements CaseContract, for every *)
(* number of cases and of submissions in flight.  The invariant says that  *)
(* an endorsed submission whose read version is still current carries      *)
(* exactly the writes that the contract would compute now.                 *)
(***************************************************************************)
EXTENDS FabricLedger, ChaincodeProofs

\* caseRecord and event are what a transition by rule makes of record c.
Transitioned(c, tx, rule, actor, types, ids, justified) ==
  LET updatedCase == applyTransition(c, rule, actor, ids)
  IN /\ c # NoCase
     /\ c.auditSequenceNumber < MaxAuditSequence
     /\ evaluateTransition(c, rule, actor, types, justified)
     /\ tx.caseRecord = updatedCase
     /\ tx.event = [caseId |-> tx.caseId,
                    sequence |-> updatedCase.auditSequenceNumber,
                    actionType |-> rule.action,
                    previousState |-> c.currentState,
                    newState |-> updatedCase.currentState]

Created(c, tx, actor) ==
  /\ assertCreateCaseAllowed(actor)
  /\ c = NoCase
  /\ MaxAuditSequence >= 1
  /\ tx.caseRecord = DraftCase
  /\ tx.event = [caseId |-> tx.caseId, sequence |-> 1,
                 actionType |-> "create_case",
                 previousState |-> Undefined, newState |-> "draft"]

\* The writes of tx are those some transaction computes from record c.
PreparedFrom(c, tx) ==
  /\ tx.staleEntries =
       IF c # NoCase /\ c.currentState # tx.caseRecord.currentState
       THEN {<<c.currentState, tx.caseId>>} ELSE {}
  /\ \E actor \in Actors :
       \/ Created(c, tx, actor)
       \/ \E justified \in BOOLEAN :
            \/ \E rule \in PlainRules :
                 Transitioned(c, tx, rule, actor, {}, {}, justified)
            \/ \E rule \in TRANSITIONS \ PlainRules :
                 \E types \in DocumentTypeClaims, ids \in SUBSET DocumentIds :
                   Transitioned(c, tx, rule, actor, types, ids, justified)

Prepared(tx) == PreparedFrom(cases[tx.caseId], tx)

\* No endorsement is ahead of the ledger, and a current one is prepared.
EndorsementsSound ==
  \A s \in Submissions : submissions[s].status = "endorsed" =>
    /\ submissions[s].readVersion <= keyVersions[submissions[s].caseId]
    /\ ReadSetCurrent(s) => Prepared(submissions[s])

\* A valid submission's event is in the trail and is no other's; only valid
\* submissions are answered with a payload.
ValidRecorded ==
  \A s \in Submissions :
    /\ submissions[s].outcome = "payload" => submissions[s].status = "valid"
    /\ submissions[s].status = "valid" => submissions[s].event \in events
    /\ \A t \in Submissions :
         /\ s # t
         /\ submissions[s].status = "valid"
         /\ submissions[t].status = "valid"
         => ~SameStep(submissions[s].event, submissions[t].event)

FInv == IInv /\ LedgerTypeOK /\ EndorsementsSound /\ ValidRecorded

-----------------------------------------------------------------------------
(* What a call of submitAsync stores. *)

\* A rule of either kind is a rule of the table.
LEMMA PlainRulesInTable == PlainRules \subseteq TRANSITIONS
BY DEF PlainRules, TRANSITIONS

\* What submitAsync stores for one set of writes.
Stored(s, tx) ==
  /\ Free(s)
  /\ tx \in Submission
  /\ tx.status = "endorsed"
  /\ tx.outcome = "pending"
  /\ tx.readVersion = keyVersions[tx.caseId]
  /\ Prepared(tx)
  /\ submissions' = [submissions EXCEPT ![s] = tx]
  /\ UNCHANGED <<vars, keyVersions>>

\* A well-formed record and event, computed by some transaction, are stored as
\* a prepared submission.
LEMMA SubmitStores ==
  ASSUME FInv, NEW s \in Submissions, NEW caseId \in CaseIds,
         NEW d \in AssuranceCase, NEW e \in WorkflowEvent,
         submitAsync(s, caseId, d, e),
         \A tx : /\ tx.caseId = caseId /\ tx.caseRecord = d /\ tx.event = e
                 /\ tx.staleEntries = staleIndexEntries(caseId, d)
                 => Prepared(tx)
  PROVE  \E tx \in Submission : Stored(s, tx)
<1> DEFINE tx == [status |-> "endorsed", outcome |-> "pending",
                  caseId |-> caseId, readVersion |-> keyVersions[caseId],
                  caseRecord |-> d,
                  staleEntries |-> staleIndexEntries(caseId, d), event |-> e]
<1>1. keyVersions[caseId] \in Nat
  BY DEF FInv, LedgerTypeOK
<1>2. staleIndexEntries(caseId, d) \in SUBSET (WorkflowStates \X CaseIds)
  BY DEF staleIndexEntries, FInv, IInv, RecordInv, AssuranceCase
<1>3. tx \in Submission
  BY <1>1, <1>2 DEF Submission
<1>4. Prepared(tx)
  OBVIOUS
<1>5. Stored(s, tx)
  BY <1>3, <1>4 DEF Stored, submitAsync
<1> QED
  BY <1>3, <1>5

\* A transition that the contract allows is stored as a prepared submission.
LEMMA TransitionStored ==
  ASSUME FInv, NEW s \in Submissions, NEW caseId \in CaseIds,
         NEW actor \in Actors, NEW rule \in TRANSITIONS, NEW types,
         NEW ids \in SUBSET DocumentIds, NEW justified \in BOOLEAN,
         submitTransition(s, caseId, rule, actor, types, ids, justified),
         \A tx : /\ Transitioned(cases[tx.caseId], tx, rule, actor, types, ids, justified)
                 /\ tx.staleEntries = staleIndexEntries(tx.caseId, tx.caseRecord)
                 => Prepared(tx)
  PROVE  \E tx \in Submission : Stored(s, tx)
<1> DEFINE c == cases[caseId]
           d == applyTransition(c, rule, actor, ids)
           e == [caseId |-> caseId, sequence |-> d.auditSequenceNumber,
                 actionType |-> rule.action,
                 previousState |-> c.currentState,
                 newState |-> d.currentState]
<1>1. /\ Exists(caseId)
      /\ c.auditSequenceNumber < MaxAuditSequence
      /\ evaluateTransition(c, rule, actor, types, justified)
      /\ submitAsync(s, caseId, d, e)
  BY DEF submitTransition
<1>2. RecordInv(c)
  BY <1>1 DEF FInv, IInv
<1>3. actor \in UserClaims
  BY CaseContractAssumption
<1>4. RecordInv(d)
  BY <1>1, <1>2, <1>3, TransitionPreserves
<1>5. d \in AssuranceCase
  BY <1>4 DEF RecordInv
<1>6. e \in WorkflowEvent
  <2>1. c.currentState \in WorkflowStates /\ d.currentState \in WorkflowStates
    BY <1>2, <1>5 DEF RecordInv, AssuranceCase
  <2>2. d.auditSequenceNumber \in Nat
    BY <1>5 DEF AssuranceCase
  <2> HIDE DEF c, d
  <2> QED
    BY <2>1, <2>2, RuleActions DEF WorkflowEvent
<1>7. \A tx : /\ tx.caseId = caseId /\ tx.caseRecord = d /\ tx.event = e
              /\ tx.staleEntries = staleIndexEntries(caseId, d)
              => Prepared(tx)
  <2> SUFFICES ASSUME NEW tx, tx.caseId = caseId, tx.caseRecord = d,
                      tx.event = e,
                      tx.staleEntries = staleIndexEntries(caseId, d)
               PROVE  Prepared(tx)
    OBVIOUS
  <2>1. Transitioned(cases[tx.caseId], tx, rule, actor, types, ids, justified)
    BY <1>1 DEF Transitioned, Exists
  <2> QED
    BY <2>1
<1> HIDE DEF d, e
<1> QED
  BY <1>1, <1>5, <1>6, <1>7, SubmitStores

\* Whatever is submitted is stored as a prepared submission.
LEMMA AnyStored ==
  ASSUME FInv, NEW s \in Submissions, submitAny(s)
  PROVE  \E tx \in Submission : Stored(s, tx)
<1>1. PICK caseId \in CaseIds, actor \in Actors :
        \/ submitCreateCase(s, caseId, actor)
        \/ \E justified \in BOOLEAN :
             \/ \E rule \in PlainRules :
                  submitTransition(s, caseId, rule, actor, {}, {}, justified)
             \/ \E rule \in TRANSITIONS \ PlainRules :
                  \E types \in DocumentTypeClaims, ids \in SUBSET DocumentIds :
                    submitTransition(s, caseId, rule, actor, types, ids,
                                     justified)
  BY DEF submitAny
<1>2. CASE submitCreateCase(s, caseId, actor)
  <2> DEFINE e == [caseId |-> caseId, sequence |-> 1,
                   actionType |-> "create_case",
                   previousState |-> Undefined, newState |-> "draft"]
  <2>1. e \in WorkflowEvent
    BY DEF WorkflowEvent, WorkflowActions, WorkflowStates
  <2>2. DraftCase \in AssuranceCase
    BY DraftPreserves DEF RecordInv
  <2>3. \A tx : /\ tx.caseId = caseId /\ tx.caseRecord = DraftCase
                /\ tx.event = e
                /\ tx.staleEntries = staleIndexEntries(caseId, DraftCase)
                => Prepared(tx)
    BY <1>2 DEF submitCreateCase, Prepared, PreparedFrom, Created, Exists,
              staleIndexEntries
  <2>4. submitAsync(s, caseId, DraftCase, e)
    BY <1>2 DEF submitCreateCase
  <2> HIDE DEF e
  <2> QED
    BY <2>1, <2>2, <2>3, <2>4, SubmitStores
<1>3. ASSUME NEW justified \in BOOLEAN, NEW rule \in PlainRules,
             submitTransition(s, caseId, rule, actor, {}, {}, justified)
      PROVE  \E tx \in Submission : Stored(s, tx)
  <2>1. \A tx : /\ Transitioned(cases[tx.caseId], tx, rule, actor, {}, {}, justified)
                /\ tx.staleEntries = staleIndexEntries(tx.caseId, tx.caseRecord)
                => Prepared(tx)
    BY DEF Prepared, PreparedFrom, staleIndexEntries, Exists
  <2>2. rule \in TRANSITIONS /\ {} \in SUBSET DocumentIds
    BY PlainRulesInTable
  <2> QED
    BY <1>3, <2>1, <2>2, TransitionStored
<1>4. ASSUME NEW justified \in BOOLEAN, NEW rule \in TRANSITIONS \ PlainRules,
             NEW types \in DocumentTypeClaims, NEW ids \in SUBSET DocumentIds,
             submitTransition(s, caseId, rule, actor, types, ids, justified)
      PROVE  \E tx \in Submission : Stored(s, tx)
  <2>1. \A tx : /\ Transitioned(cases[tx.caseId], tx, rule, actor, types, ids, justified)
                /\ tx.staleEntries = staleIndexEntries(tx.caseId, tx.caseRecord)
                => Prepared(tx)
    BY DEF Prepared, PreparedFrom, staleIndexEntries, Exists
  <2> QED
    BY <1>4, <2>1, TransitionStored
<1> QED
  BY <1>1, <1>2, <1>3, <1>4

-----------------------------------------------------------------------------
(* What a commit does. *)

\* Applying prepared writes is a transaction of CaseContract.
LEMMA CommitIsTransaction ==
  ASSUME FInv, NEW s \in Submissions, commitTransaction(s)
  PROVE  Next
<1> DEFINE tx == submissions[s]
           stored == (stateIndex \cup {<<tx.caseRecord.currentState, tx.caseId>>})
                       \ tx.staleEntries
<1>1. /\ tx \in Submission
      /\ Prepared(tx)
      /\ cases' = [cases EXCEPT ![tx.caseId] = tx.caseRecord]
      /\ stateIndex' = stored
      /\ appendEvent(tx.event)
  <2>1. tx.status = "endorsed" /\ ReadSetCurrent(s)
    BY DEF commitTransaction
  <2>2. tx \in Submission
    BY <2>1 DEF FInv, LedgerTypeOK, Idle
  <2> QED
    BY <2>1, <2>2 DEF commitTransaction, FInv, EndorsementsSound
<1>2. tx.caseId \in CaseIds
  BY <1>1 DEF Submission
<1>3. stored = indexAfterPut(tx.caseId, cases[tx.caseId], tx.caseRecord)
  BY <1>1 DEF Prepared, PreparedFrom, staleIndexEntries, indexAfterPut, Exists
<1>4. putCase(tx.caseId, tx.caseRecord)
  BY <1>1, <1>3 DEF putCase
<1> HIDE DEF tx, stored
<1>5. PICK actor \in Actors :
        \/ Created(cases[tx.caseId], tx, actor)
        \/ \E justified \in BOOLEAN :
             \/ \E rule \in PlainRules :
                  Transitioned(cases[tx.caseId], tx, rule, actor, {}, {}, justified)
             \/ \E rule \in TRANSITIONS \ PlainRules :
                  \E types \in DocumentTypeClaims, ids \in SUBSET DocumentIds :
                    Transitioned(cases[tx.caseId], tx, rule, actor, types, ids, justified)
  BY <1>1 DEF Prepared, PreparedFrom
<1>6. CASE Created(cases[tx.caseId], tx, actor)
  <2>1. createCase(tx.caseId, actor)
    BY <1>1, <1>4, <1>6 DEF Created, createCase, Exists
  <2> QED
    BY <1>2, <2>1 DEF Next
<1>7. ASSUME NEW rule, NEW types, NEW ids, NEW justified,
             Transitioned(cases[tx.caseId], tx, rule, actor, types, ids, justified)
      PROVE  performTransition(tx.caseId, rule, actor, types, ids, justified)
  BY <1>1, <1>4, <1>7 DEF Transitioned, performTransition, Exists
<1>8. ASSUME NEW justified \in BOOLEAN, NEW rule \in PlainRules,
             Transitioned(cases[tx.caseId], tx, rule, actor, {}, {}, justified)
      PROVE  Next
  <2>1. performTransition(tx.caseId, rule, actor, {}, {}, justified)
    BY <1>7, <1>8
  <2>2. PlainTransaction(tx.caseId, actor, justified)
    BY <2>1 DEF PlainRules, PlainTransaction, recordDomesticReview,
                forwardToCoordination, recordForeignReview, rejectAmendment,
                closeCase
  <2> QED
    BY <1>2, <2>2 DEF Next
<1>9. ASSUME NEW justified \in BOOLEAN, NEW rule \in TRANSITIONS \ PlainRules,
             NEW types \in DocumentTypeClaims, NEW ids \in SUBSET DocumentIds,
             Transitioned(cases[tx.caseId], tx, rule, actor, types, ids, justified)
      PROVE  Next
  <2>1. performTransition(tx.caseId, rule, actor, types, ids, justified)
    BY <1>7, <1>9
  <2>2. DocumentedTransaction(tx.caseId, actor, types, ids, justified)
    BY <2>1 DEF PlainRules, TRANSITIONS, DocumentedTransaction, submitCase,
                requestMoreInformation, respondToInformationRequest,
                forwardToForeignAuthority, approveCase, rejectCase,
                issueAssurance, initiateNonSubstantiveAmendment,
                initiateSubstantiveAmendment, amendAssurance, revokeAssurance
  <2> QED
    BY <1>2, <2>2 DEF Next
<1> QED
  BY <1>5, <1>6, <1>8, <1>9

\* The event of a commit is new: its case has recorded fewer.
LEMMA CommittedEventIsNext ==
  ASSUME FInv, NEW tx \in Submission, Prepared(tx)
  PROVE  /\ tx.event.caseId = tx.caseId
         /\ \A f \in events : ~SameStep(f, tx.event)
<1>1. tx.caseId \in CaseIds
  BY DEF Submission
<1>2. /\ tx.event.caseId = tx.caseId
      /\ tx.event.sequence = Recorded(tx.caseId) + 1
  <2>1. PICK actor \in Actors :
          \/ Created(cases[tx.caseId], tx, actor)
          \/ \E justified, rule, types, ids :
               Transitioned(cases[tx.caseId], tx, rule, actor, types, ids, justified)
    BY DEF Prepared, PreparedFrom, staleIndexEntries, Exists
  <2>2. CASE Created(cases[tx.caseId], tx, actor)
    BY <2>2 DEF Created, Recorded, Exists
  <2>3. ASSUME NEW justified, NEW rule, NEW types, NEW ids,
               Transitioned(cases[tx.caseId], tx, rule, actor, types, ids, justified)
        PROVE  /\ tx.event.caseId = tx.caseId
               /\ tx.event.sequence = Recorded(tx.caseId) + 1
    BY <2>3 DEF Transitioned, Recorded, applyTransition, Exists
  <2> QED
    BY <2>1, <2>2, <2>3
<1>3. Recorded(tx.caseId) \in Nat
  BY <1>1 DEF FInv, IInv, Recorded, RecordInv, AssuranceCase
<1>4. \A f \in events : f.caseId = tx.caseId =>
        f.sequence \in 1 .. Recorded(tx.caseId)
  BY <1>1 DEF FInv, IInv, TrailGapFree, Trail, Recorded
<1> QED
  BY <1>2, <1>3, <1>4 DEF SameStep

-----------------------------------------------------------------------------
(* Every step of the ledger preserves the invariant. *)

\* An endorsement writes nothing and stores a prepared submission.
LEMMA SubmitPreserves ==
  ASSUME FInv, NEW s \in Submissions, submitAny(s)
  PROVE  FInv'
<1>1. PICK tx \in Submission : Stored(s, tx)
  BY AnyStored
<1>2. /\ submissions' = [submissions EXCEPT ![s] = tx]
      /\ UNCHANGED <<vars, keyVersions>>
  BY <1>1 DEF Stored
<1>3. IInv'
  BY <1>2, NextIInv DEF FInv
<1>4. LedgerTypeOK'
  BY <1>2 DEF FInv, LedgerTypeOK
<1>5. /\ submissions'[s] = tx
      /\ \A t \in Submissions : t # s => submissions'[t] = submissions[t]
      /\ UNCHANGED <<cases, events, keyVersions>>
  BY <1>2 DEF FInv, LedgerTypeOK, vars
<1>6. EndorsementsSound'
  <2>1. tx.readVersion = keyVersions[tx.caseId] /\ keyVersions[tx.caseId] \in Nat
    BY <1>1 DEF Stored, Submission, FInv, LedgerTypeOK
  <2>2. PreparedFrom(cases[tx.caseId], tx)
    BY <1>1 DEF Stored, Prepared
  <2> QED
    BY <1>5, <2>1, <2>2 DEF FInv, EndorsementsSound, ReadSetCurrent, Prepared
<1>7. ValidRecorded'
  BY <1>1, <1>5 DEF FInv, ValidRecorded, Stored
<1> QED
  BY <1>3, <1>4, <1>6, <1>7 DEF FInv

\* A commit makes every other submission on its case stale and changes nothing
\* that the submissions on other cases have read.
LEMMA CommitPreserves ==
  ASSUME FInv, NEW s \in Submissions, commitTransaction(s)
  PROVE  FInv'
<1> DEFINE tx == submissions[s]
<1>1. /\ tx.status = "endorsed"
      /\ ReadSetCurrent(s)
      /\ submissions' = [submissions EXCEPT ![s].status = "valid"]
      /\ keyVersions' = [keyVersions EXCEPT ![tx.caseId] = @ + 1]
      /\ cases' = [cases EXCEPT ![tx.caseId] = tx.caseRecord]
      /\ appendEvent(tx.event)
  BY DEF commitTransaction
<1>2. tx \in Submission /\ tx.caseId \in CaseIds
  BY <1>1 DEF FInv, LedgerTypeOK, Idle, Submission
<1>3. Prepared(tx)
  BY <1>1 DEF FInv, EndorsementsSound
<1>4. Next
  BY CommitIsTransaction
<1>5. IInv'
  BY <1>4, NextIInv DEF FInv
<1>6. /\ submissions'[s] = [tx EXCEPT !.status = "valid"]
      /\ \A t \in Submissions : t # s => submissions'[t] = submissions[t]
  BY <1>1 DEF FInv, LedgerTypeOK
<1>7. LedgerTypeOK'
  <2>1. [tx EXCEPT !.status = "valid"] \in Submission
    BY <1>2 DEF Submission
  <2>2. keyVersions' \in [CaseIds -> Nat]
    BY <1>1, <1>2 DEF FInv, LedgerTypeOK
  <2> QED
    BY <1>1, <1>6, <2>1, <2>2 DEF FInv, LedgerTypeOK
<1>8. EndorsementsSound'
  <2> SUFFICES ASSUME NEW t \in Submissions, submissions'[t].status = "endorsed"
               PROVE  /\ submissions'[t].readVersion
                           <= keyVersions'[submissions'[t].caseId]
                      /\ submissions'[t].readVersion
                           = keyVersions'[submissions'[t].caseId]
                         => PreparedFrom(cases'[submissions'[t].caseId],
                                         submissions'[t])
    BY DEF EndorsementsSound, ReadSetCurrent, Prepared
  <2>1. t # s /\ submissions'[t] = submissions[t]
    BY <1>2, <1>6 DEF Submission
  <2> DEFINE u == submissions[t]
  <2>2. u \in Submission /\ u.readVersion \in Nat /\ u.caseId \in CaseIds
    BY <2>1 DEF FInv, LedgerTypeOK, Idle, Submission
  <2>3. /\ u.readVersion <= keyVersions[u.caseId]
        /\ u.readVersion = keyVersions[u.caseId]
             => PreparedFrom(cases[u.caseId], u)
    BY <2>1 DEF FInv, EndorsementsSound, ReadSetCurrent, Prepared
  <2>4. keyVersions[u.caseId] \in Nat
    BY <2>2 DEF FInv, LedgerTypeOK
  <2>5. CASE u.caseId = tx.caseId
    <3>1. keyVersions'[u.caseId] = keyVersions[u.caseId] + 1
      BY <1>1, <2>2, <2>5 DEF FInv, LedgerTypeOK
    <3> QED
      BY <2>1, <2>2, <2>3, <2>4, <3>1
  <2>6. CASE u.caseId # tx.caseId
    <3>1. /\ keyVersions'[u.caseId] = keyVersions[u.caseId]
          /\ cases'[u.caseId] = cases[u.caseId]
      BY <1>1, <2>2, <2>6 DEF FInv, LedgerTypeOK, IInv, TypeOK
    <3> QED
      BY <2>1, <2>3, <3>1
  <2> QED
    BY <2>5, <2>6
<1>9. ValidRecorded'
  <2>1. \A f \in events : ~SameStep(f, tx.event)
    BY <1>2, <1>3, CommittedEventIsNext
  <2>2. events \subseteq events' /\ tx.event \in events'
    <3>1. PICK caseId \in CaseIds, d \in AssuranceCase, e \in WorkflowEvent :
            Writes(caseId, d, e)
      BY <1>4, NextCases, StepWrites DEF FInv
    <3>2. events \subseteq events'
      BY <3>1, EventIsNew DEF FInv
    <3> QED
      BY <1>1, <3>2 DEF appendEvent
  <2>3. /\ submissions'[s].event = tx.event
        /\ submissions'[s].status = "valid"
        /\ submissions'[s].outcome = tx.outcome
    BY <1>2, <1>6 DEF Submission
  <2>4. \A t \in Submissions : t # s /\ submissions[t].status = "valid" =>
          /\ submissions[t].event \in events
          /\ ~SameStep(submissions[t].event, tx.event)
          /\ ~SameStep(tx.event, submissions[t].event)
    BY <2>1 DEF FInv, ValidRecorded, SameStep
  <2> QED
    BY <1>6, <2>2, <2>3, <2>4 DEF FInv, ValidRecorded
<1> QED
  BY <1>5, <1>7, <1>8, <1>9 DEF FInv

\* Invalidating, answering and losing an answer touch one submission's marks.
LEMMA AnswerPreserves ==
  ASSUME FInv, NEW s \in Submissions,
         invalidateTransaction(s) \/ getStatus(s) \/ loseStatus(s)
  PROVE  FInv'
<1> DEFINE tx == submissions[s]
<1>1. PICK status \in {"endorsed", "valid", "invalid"},
           outcome \in {"pending", "payload", "error"} :
        /\ submissions' = [submissions EXCEPT ![s] =
             [tx EXCEPT !.status = status, !.outcome = outcome]]
        /\ UNCHANGED <<vars, keyVersions>>
        /\ tx.status # "idle"
        /\ status = "endorsed" => tx.status = "endorsed"
        /\ status = "valid" <=> tx.status = "valid"
        /\ outcome = "payload" => tx.status = "valid"
  <2>1. tx \in Submission
    BY DEF FInv, LedgerTypeOK, Idle, invalidateTransaction, getStatus, loseStatus
  <2>2. CASE invalidateTransaction(s)
    <3>1. submissions' = [submissions EXCEPT ![s] =
            [tx EXCEPT !.status = "invalid", !.outcome = tx.outcome]]
      BY <2>1, <2>2 DEF invalidateTransaction, Submission, FInv, LedgerTypeOK
    <3>2. tx.outcome = "payload" => tx.status = "valid"
      BY DEF FInv, ValidRecorded
    <3> QED
      BY <2>1, <2>2, <3>1, <3>2 DEF invalidateTransaction, Submission
  <2>3. CASE getStatus(s)
    <3> DEFINE answer == IF tx.status = "valid" THEN "payload" ELSE "error"
    <3>1. submissions' = [submissions EXCEPT ![s] =
            [tx EXCEPT !.status = tx.status, !.outcome = answer]]
      BY <2>1, <2>3 DEF getStatus, Submission, FInv, LedgerTypeOK
    <3> QED
      BY <2>1, <2>3, <3>1 DEF getStatus, Submission
  <2>4. CASE loseStatus(s)
    <3>1. submissions' = [submissions EXCEPT ![s] =
            [tx EXCEPT !.status = tx.status, !.outcome = "error"]]
      BY <2>1, <2>4 DEF loseStatus, Submission, FInv, LedgerTypeOK
    <3> QED
      BY <2>1, <2>4, <3>1 DEF loseStatus, Submission
  <2> QED
    BY <2>2, <2>3, <2>4
<1>2. tx \in Submission
  BY <1>1 DEF FInv, LedgerTypeOK, Idle
<1>3. /\ submissions'[s] = [tx EXCEPT !.status = status, !.outcome = outcome]
      /\ \A t \in Submissions : t # s => submissions'[t] = submissions[t]
      /\ UNCHANGED <<cases, events, keyVersions>>
  BY <1>1 DEF FInv, LedgerTypeOK, vars
<1> DEFINE u == [tx EXCEPT !.status = status, !.outcome = outcome]
<1>4. /\ u \in Submission /\ u.status = status /\ u.outcome = outcome
      /\ u.caseId = tx.caseId /\ u.readVersion = tx.readVersion
      /\ u.event = tx.event /\ u.caseRecord = tx.caseRecord
      /\ u.staleEntries = tx.staleEntries
  BY <1>2 DEF Submission
<1>5. submissions'[s] = u
  BY <1>3
<1> HIDE DEF u
<1>6. IInv'
  BY <1>1, NextIInv DEF FInv
<1>7. LedgerTypeOK'
  BY <1>1, <1>3, <1>4, <1>5 DEF FInv, LedgerTypeOK
<1>8. EndorsementsSound'
  <2>1. \A c : PreparedFrom(c, tx) => PreparedFrom(c, u)
    <3> HIDE DEF tx
    <3>1. \A c, actor : Created(c, tx, actor) => Created(c, u, actor)
      BY <1>4 DEF Created
    <3>2. \A c, rule, actor, types, ids, justified :
            Transitioned(c, tx, rule, actor, types, ids, justified)
              => Transitioned(c, u, rule, actor, types, ids, justified)
      BY <1>4 DEF Transitioned
    <3> SUFFICES ASSUME NEW c, PreparedFrom(c, tx) PROVE PreparedFrom(c, u)
      OBVIOUS
    <3>3. u.staleEntries =
            IF c # NoCase /\ c.currentState # u.caseRecord.currentState
            THEN {<<c.currentState, u.caseId>>} ELSE {}
      BY <1>4 DEF PreparedFrom
    <3>4. PICK actor \in Actors :
            \/ Created(c, tx, actor)
            \/ \E justified \in BOOLEAN :
                 \/ \E rule \in PlainRules :
                      Transitioned(c, tx, rule, actor, {}, {}, justified)
                 \/ \E rule \in TRANSITIONS \ PlainRules :
                      \E types \in DocumentTypeClaims,
                         ids \in SUBSET DocumentIds :
                        Transitioned(c, tx, rule, actor, types, ids, justified)
      BY DEF PreparedFrom
    <3> QED
      BY <3>1, <3>2, <3>3, <3>4 DEF PreparedFrom
  <2> QED
    BY <1>1, <1>3, <1>4, <1>5, <2>1
    DEF FInv, EndorsementsSound, ReadSetCurrent, Prepared
<1>9. ValidRecorded'
  BY <1>1, <1>3, <1>4, <1>5 DEF FInv, ValidRecorded
<1> QED
  BY <1>6, <1>7, <1>8, <1>9 DEF FInv

\* The invariant holds of the empty ledger.
LEMMA FInvInit == FabricInit => FInv
<1> SUFFICES ASSUME FabricInit PROVE FInv
  OBVIOUS
<1>1. IInv
  BY InitIInv DEF FabricInit
<1>2. \A s \in Submissions : submissions[s] = Idle
  BY DEF FabricInit
<1>3. LedgerTypeOK
  BY DEF FabricInit, LedgerTypeOK
<1>4. EndorsementsSound /\ ValidRecorded
  BY <1>2 DEF EndorsementsSound, ValidRecorded, Idle
<1> QED
  BY <1>1, <1>3, <1>4 DEF FInv

\* Every step of the ledger preserves the invariant.
LEMMA FInvNext == FInv /\ [FabricNext]_ledgerVars => FInv'
<1> SUFFICES ASSUME FInv, [FabricNext]_ledgerVars PROVE FInv'
  OBVIOUS
<1>1. CASE FabricNext
  BY <1>1, SubmitPreserves, CommitPreserves, AnswerPreserves DEF FabricNext
<1>2. CASE UNCHANGED ledgerVars
  <2>1. UNCHANGED vars /\ UNCHANGED <<keyVersions, submissions>>
    BY <1>2 DEF ledgerVars
  <2>2. IInv'
    BY <2>1, NextIInv DEF FInv
  <2>3. (LedgerTypeOK /\ EndorsementsSound /\ ValidRecorded)'
    BY <2>1 DEF FInv, LedgerTypeOK, EndorsementsSound, ValidRecorded,
                ReadSetCurrent, Prepared, vars
  <2> QED
    BY <2>2, <2>3 DEF FInv
<1> QED
  BY <1>1, <1>2

\* The strengthened invariant holds in every reachable state of the ledger.
LEMMA FabricInvariance == FabricSpec => []FInv
BY FInvInit, FInvNext, PTL DEF FabricSpec

-----------------------------------------------------------------------------
(* The theorems. *)

\* The versions and the submissions in flight keep their declared shape.
THEOREM LedgerTypeCorrect == FabricSpec => []LedgerTypeOK
<1>1. FInv => LedgerTypeOK
  BY DEF FInv
<1> QED
  BY <1>1, FabricInvariance, PTL

\* A caller who got a payload (submitWithContract) took a step that is in the
\* trail and that nobody else took.
THEOREM AnswersCorrect == FabricSpec => []AnswersTrue
<1>1. FInv => AnswersTrue
  BY DEF FInv, ValidRecorded, AnswersTrue
<1> QED
  BY <1>1, FabricInvariance, PTL

\* Endorsing first and validating later implements CaseContract: every commit
\* is one of its transactions and every other step a stutter.
THEOREM LedgerIsSerializable == FabricSpec => Serializable
<1>1. FabricInit => Init
  BY DEF FabricInit
<1>2. FInv /\ [FabricNext]_ledgerVars => [Next]_vars
  <2> SUFFICES ASSUME FInv, [FabricNext]_ledgerVars PROVE [Next]_vars
    OBVIOUS
  <2>1. ASSUME NEW s \in Submissions, submitAny(s) PROVE UNCHANGED vars
    BY <2>1, AnyStored DEF Stored
  <2>2. ASSUME NEW s \in Submissions,
               invalidateTransaction(s) \/ getStatus(s) \/ loseStatus(s)
        PROVE  UNCHANGED vars
    BY <2>2 DEF invalidateTransaction, getStatus, loseStatus
  <2> QED
    BY <2>1, <2>2, CommitIsTransaction DEF FabricNext, ledgerVars
<1> QED
  BY <1>1, <1>2, FabricInvariance, PTL DEF FabricSpec, Serializable, Spec

\* What CaseContract guarantees of its index and its trail, the ledger does.
THEOREM LedgerTrailCorrect ==
  FabricSpec => [](StateIndexExact /\ TrailGapFree /\ TrailReplays)
<1>1. FInv => StateIndexExact /\ TrailGapFree /\ TrailReplays
  BY DEF FInv, IInv
<1> QED
  BY <1>1, FabricInvariance, PTL

\* With any number of submissions in flight, each instrument has a review of its
\* own, some officer can take each open case further, and finished cases stay
\* finished (submitWithContract).
THEOREM LedgerKeepsPromises ==
  FabricSpec => /\ [](EveryInstrumentReviewed /\ VersionCountsInstruments)
                /\ []NoCaseStuck
                /\ OutcomesAreFinal
                /\ LifecycleSpec
<1>1. FabricSpec => Spec
  BY LedgerIsSerializable DEF Serializable
<1> QED
  BY <1>1, InstrumentsAreReviewed, VersionCorrect, NoCaseIsStuck,
     OutcomesFinal, ImplementsLifecycle, PTL

=============================================================================
