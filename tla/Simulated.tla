----------------------------- MODULE Simulated ------------------------------
(***************************************************************************)
(* The backend as it starts by default: FABRIC_MODE=simulated,             *)
(* PROJECTION_STORE_MODE=memory, files on disk.  There is no ledger: the   *)
(* relay computes each result itself and the projection maps are the only  *)
(* record of a case.                                                       *)
(*                                                                         *)
(*   cases, documents, caseDocuments   the projection maps                 *)
(*   trails      the array of events of each case                          *)
(*   uploads     the uploads whose file is being written, by slot          *)
(*                                                                         *)
(* An await on a map resolves before the process takes up anything else,   *)
(* so a draft or a transition is one step.  Writing a file is not: other   *)
(* requests run between the reads of an upload and what it writes back.    *)
(***************************************************************************)
EXTENDS CaseRecords, Sequences, SequencesExt

CONSTANTS
  CaseIds,             \* identifiers of cases
  NoCase,              \* the absent case
  NoDocument,          \* the absent document
  Actors,              \* the claims that callers present
  DocumentTypeClaims,  \* the documentTypes arguments callers pass
  AnchoredTypes,       \* the document types that callers anchor
  Hashes,              \* SHA-256 digests of file contents
  Uploads,             \* slots for uploads in flight
  MaxAuditSequence     \* bound on the events of one case

ASSUME SimulatedAssumption ==
  /\ NoCase \notin AssuranceCase
  /\ Undefined \notin DocumentIds
  /\ Actors \subseteq UserClaims

VARIABLES cases, documents, caseDocuments, trails, uploads

simulatedVars == <<cases, documents, caseDocuments, trails, uploads>>

\* What the chaincode would show of the same records.
Ledger ==
  INSTANCE Chaincode
    WITH MaxVersion <- 2,
         stateIndex <- {<<cases[c].currentState, c>> : c \in CaseIds},
         events <- UNION {ToSet(trails[c]) : c \in CaseIds}

Idle == [step |-> "idle"]

Event(caseId, action, previousState, caseRecord) ==
  [caseId |-> caseId, sequence |-> caseRecord.auditSequenceNumber,
   actionType |-> action, previousState |-> previousState,
   newState |-> caseRecord.currentState]

\* persistCaseUpdate: the record is replaced and the event appended.
persistCaseUpdate(caseId, caseRecord, event) ==
  /\ cases' = [cases EXCEPT ![caseId] = caseRecord]
  /\ trails' = [trails EXCEPT ![caseId] = Append(@, event)]

-----------------------------------------------------------------------------
(* Drafts and transitions. *)

createDraft(caseId, actor) ==
  /\ Ledger!assertCreateCaseAllowed(actor)
  /\ ~Ledger!Exists(caseId)
  /\ persistCaseUpdate(caseId, DraftCase,
       Event(caseId, "create_case", Undefined, DraftCase))
  /\ UNCHANGED <<documents, caseDocuments, uploads>>

\* The rules whose source states include the state of the case.
MatchingRules(caseId) ==
  {rule \in TRANSITIONS :
     Ledger!Exists(caseId) /\ cases[caseId].currentState \in rule.from}

relayTransition(caseId, rule, actor, types, ids, justified) ==
  /\ Len(trails[caseId]) < MaxAuditSequence
  /\ evaluateTransition(cases[caseId], rule, actor, types, justified)
  /\ LET updatedCase == applyTransition(cases[caseId], rule, actor, ids)
     IN persistCaseUpdate(caseId, updatedCase,
          Event(caseId, rule.action, cases[caseId].currentState, updatedCase))
  /\ UNCHANGED <<documents, caseDocuments, uploads>>

\* The types the caller names, or those of the documents it names.
transitionCase(caseId, rule, actor, ids, justified) ==
  \/ \E types \in DocumentTypeClaims :
       relayTransition(caseId, rule, actor, types, ids, justified)
  \/ /\ \A d \in ids : documents[d] # NoDocument
     /\ relayTransition(caseId, rule, actor,
          {documents[d].documentType : d \in ids}, ids, justified)

-----------------------------------------------------------------------------
(* Uploads. *)

Uploading ==
  {uploads[r].documentId : r \in {u \in Uploads : uploads[u] # Idle}}

\* The case and the predecessor are read, then the file is written.
readForUpload(r, caseId, documentId, superseded) ==
  /\ uploads[r] = Idle
  /\ Ledger!Exists(caseId)
  /\ documents[documentId] = NoDocument /\ documentId \notin Uploading
  /\ superseded # Undefined => documents[superseded] # NoDocument
  /\ uploads' = [uploads EXCEPT ![r] =
       [step |-> "storeObject", caseId |-> caseId, documentId |-> documentId,
        superseded |-> superseded,
        version |-> IF superseded = Undefined THEN 1
                    ELSE documents[superseded].version + 1,
        currentCase |-> cases[caseId]]]
  /\ UNCHANGED <<cases, documents, caseDocuments, trails>>

\* The relay's checks, against the predecessor as it is now.  It may be
\* inactive by now.
anchorDocumentReference(upload, documentType, actor) ==
  /\ Ledger!Documents!assertDocumentMutationAllowed(actor, documentType)
  /\ upload.superseded # Undefined =>
       LET superseded == documents[upload.superseded]
       IN /\ superseded.caseId = upload.caseId
          /\ superseded.documentType = documentType
          /\ upload.version = superseded.version + 1

persistDocumentUpdate(upload, documentType, sha256Hash) ==
  LET reference ==
        [caseId |-> upload.caseId, documentType |-> documentType,
         sha256Hash |-> sha256Hash, version |-> upload.version,
         supersedesDocumentId |-> upload.superseded, isActive |-> TRUE]
  IN /\ documents' =
          [d \in DocumentIds |->
             CASE d = upload.documentId -> reference
               [] d = upload.superseded -> [documents[d] EXCEPT !.isActive = FALSE]
               [] OTHER -> documents[d]]
     /\ caseDocuments' = caseDocuments \cup {<<upload.caseId, upload.documentId>>}

\* Mutant: the state that was read is put back, the statuses are not.
updatedCase_StateOnly(upload) ==
  [cases[upload.caseId] EXCEPT
     !.currentState = upload.currentCase.currentState,
     !.activeDocumentIds = (@ \ {upload.superseded}) \cup {upload.documentId}]

\* Mutant: the sequence number is kept from going back.
updatedCase_KeepsSequence(upload) ==
  [upload.currentCase EXCEPT
     !.auditSequenceNumber = cases[upload.caseId].auditSequenceNumber,
     !.activeDocumentIds = (@ \ {upload.superseded}) \cup {upload.documentId}]

\* Mutant: an upload moves the version of the record.
updatedCase_Counts(upload) ==
  [upload.currentCase EXCEPT
     !.auditSequenceNumber = @ + 1,
     !.activeDocumentIds = (@ \ {upload.superseded}) \cup {upload.documentId}]

\* The record as it was read, with the document.
updatedCase(upload) ==
  [upload.currentCase EXCEPT
     !.activeDocumentIds = (@ \ {upload.superseded}) \cup {upload.documentId}]

uploadDocument(r, documentType, sha256Hash, actor) ==
  LET upload == uploads[r]
  IN
  /\ upload # Idle
  /\ anchorDocumentReference(upload, documentType, actor)
  /\ persistDocumentUpdate(upload, documentType, sha256Hash)
  /\ cases' = [cases EXCEPT ![upload.caseId] = updatedCase(upload)]
  /\ uploads' = [uploads EXCEPT ![r] = Idle]
  /\ UNCHANGED trails

\* The file cannot be written or the relay refuses the reference.
refuseUpload(r) ==
  /\ uploads[r] # Idle
  /\ uploads' = [uploads EXCEPT ![r] = Idle]
  /\ UNCHANGED <<cases, documents, caseDocuments, trails>>

-----------------------------------------------------------------------------
SimulatedInit ==
  /\ cases = [c \in CaseIds |-> NoCase]
  /\ documents = [d \in DocumentIds |-> NoDocument]
  /\ caseDocuments = {}
  /\ trails = [c \in CaseIds |-> <<>>]
  /\ uploads = [r \in Uploads |-> Idle]

CaseRequest(caseId, actor) ==
  \/ createDraft(caseId, actor)
  \/ \E rule \in MatchingRules(caseId), ids \in SUBSET DocumentIds,
        justified \in BOOLEAN :
       transitionCase(caseId, rule, actor, ids, justified)

UploadRequest(r) ==
  \/ \E caseId \in CaseIds, documentId \in DocumentIds,
        superseded \in DocumentIds \cup {Undefined} :
       readForUpload(r, caseId, documentId, superseded)
  \/ \E documentType \in AnchoredTypes, sha256Hash \in Hashes, actor \in Actors :
       uploadDocument(r, documentType, sha256Hash, actor)
  \/ refuseUpload(r)

SimulatedNext ==
  \/ \E caseId \in CaseIds, actor \in Actors : CaseRequest(caseId, actor)
  \/ \E r \in Uploads : UploadRequest(r)

SimulatedSpec == SimulatedInit /\ [][SimulatedNext]_simulatedVars

-----------------------------------------------------------------------------
(* What is left of the workflow's promises when an upload puts back a record *)
(* that transitions have overtaken.                                         *)

\* A record put back late is still a record the workflow can reach: its lane,
\* statuses, version and pending amendment agree with each other, so the steps
\* that follow it are as sound as those it undid.
StoredRecordsLegal ==
  \A caseId \in CaseIds : Ledger!Exists(caseId) =>
    /\ Resumable(cases[caseId])
    /\ BaselineKept(cases[caseId])
    /\ IssuanceConsistent(cases[caseId])
    /\ Endorsed(cases[caseId])
    /\ Ungranted(cases[caseId])

\* The audit trail may fork but never breaks: each event continues an earlier
\* one, with the next number and from the state it ended in, and so does the
\* record.
TrailIsTree ==
  \A caseId \in CaseIds : Ledger!Exists(caseId) =>
    LET trail == trails[caseId]
        Continues(i, sequence, state) ==
          trail[i].sequence = sequence /\ trail[i].newState = state
    IN /\ \A i \in 2 .. Len(trail) : \E j \in 1 .. i - 1 :
            Continues(j, trail[i].sequence - 1, trail[i].previousState)
       /\ \E i \in 1 .. Len(trail) :
            Continues(i, cases[caseId].auditSequenceNumber,
                      cases[caseId].currentState)

\* A change of a record that the chaincode could make as well: a draft, a
\* transition, or another list of active documents.
LawfulChange(caseId) ==
  LET c == cases[caseId]
      d == cases'[caseId]
  IN IF c = NoCase THEN d = DraftCase
     ELSE \/ d = [c EXCEPT !.activeDocumentIds = d.activeDocumentIds]
          \/ \E rule \in TRANSITIONS, actor \in Actors :
               /\ evaluateTransition(c, rule, actor, DOCUMENT_TYPES, TRUE)
               /\ d = [applyTransition(c, rule, actor, {}) EXCEPT
                         !.activeDocumentIds = d.activeDocumentIds]

\* Steps are lost in one way only: an upload that finishes after its case was
\* changed.  Every other change is one the chaincode could make.
OnlyLateUploadsUndo ==
  [][\A caseId \in CaseIds :
       \/ cases'[caseId] = cases[caseId]
       \/ LawfulChange(caseId)
       \/ \E r \in Uploads :
            /\ uploads[r] # Idle /\ uploads'[r] = Idle
            /\ uploads[r].caseId = caseId
            /\ uploads[r].currentCase # cases[caseId]
    ]_simulatedVars

=============================================================================
