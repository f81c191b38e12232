-------------------------- MODULE DocumentContract --------------------------
(***************************************************************************)
(* The DocumentContract chaincode (document.contract.ts, policy.ts): the   *)
(* document references it anchors and one action per transaction.          *)
(*                                                                         *)
(*   documents      the records under documentKey(documentId)              *)
(*   caseDocuments  the keys caseDocumentKey(caseId, documentId)           *)
(*   cases          CaseContract's records, which this contract reads and  *)
(*                  rewrites to maintain activeDocumentIds                 *)
(*                                                                         *)
(* A reference keeps its case, type, hash, version, predecessor and active *)
(* flag; where the file is stored and who uploaded it are left out.        *)
(***************************************************************************)
EXTENDS Workflow

CONSTANTS
  CaseIds,         \* identifiers clients may use
  NoCase,          \* the empty payload of an absent case
  NoDocument,      \* the empty payload of an absent document
  Actors,          \* the claims that callers present
  AnchoredTypes,   \* the document types that callers anchor
  Hashes,          \* SHA-256 digests of file contents
  MaxVersion       \* bound on the version a payload carries

VARIABLES cases, documents, caseDocuments

documentVars == <<documents, caseDocuments>>

DocumentReference ==
  [caseId : CaseIds, documentType : DOCUMENT_TYPES, sha256Hash : Hashes,
   version : Nat, supersedesDocumentId : DocumentIds \cup {Undefined},
   isActive : BOOLEAN]

CaseExists(caseId) == cases[caseId] # NoCase
Anchored(documentId) == documents[documentId] # NoDocument

-----------------------------------------------------------------------------
(* Policy. *)

REGULATOR_DOCUMENT_OWNERS ==
  [request_for_information_notice  |-> ReviewerOrgs,
   response_to_information_package |-> ApplicantOrgs,
   coordination_forwarding_package |-> {"coordinating_authority"},
   foreign_regulator_response      |-> {"foreign_regulator"},
   assurance_instrument            |-> {"coordinating_authority"},
   amendment_request_package       |-> NationalOrgs,
   revocation_notice               |-> NationalOrgs,
   inspection_or_audit_evidence    |-> ReviewerOrgs]

\* A type without an owner may be anchored by anyone but an auditor.
assertDocumentMutationAllowed(actor, documentType) ==
  /\ ActorInGoodStanding(actor)
  /\ actor.role # "auditor"
  /\ documentType \in DOMAIN REGULATOR_DOCUMENT_OWNERS =>
       actor.organizationType \in REGULATOR_DOCUMENT_OWNERS[documentType]

assertKnownDocumentType(documentType) == documentType \in DOCUMENT_TYPES

-----------------------------------------------------------------------------
(* Transactions. *)

\* Mutant: the record's sequence number advances without an event.
putCaseRecord_Advances(caseId, activeDocumentIds) ==
  cases' = [cases EXCEPT ![caseId].activeDocumentIds = activeDocumentIds,
                         ![caseId].auditSequenceNumber = @ + 1]

\* The record that was read is rewritten with a new list of active documents.
putCaseRecord(caseId, activeDocumentIds) ==
  cases' = [cases EXCEPT ![caseId].activeDocumentIds = activeDocumentIds]

\* Mutant: an anchored reference can be anchored again.
addDocumentReference_Overwrites(documentId, payload, actor) ==
  /\ assertKnownDocumentType(payload.documentType)
  /\ assertDocumentMutationAllowed(actor, payload.documentType)
  /\ CaseExists(payload.caseId)
  /\ payload.supersedesDocumentId = Undefined
  /\ payload.version = 1
  /\ documents' =
       [documents EXCEPT ![documentId] = [payload EXCEPT !.isActive = TRUE]]
  /\ caseDocuments' = caseDocuments \cup {<<payload.caseId, documentId>>}
  /\ putCaseRecord(payload.caseId,
       cases[payload.caseId].activeDocumentIds \cup {documentId})

\* Mutant: the parts of the index key are swapped.
addDocumentReference_SwapsKey(documentId, payload, actor) ==
  /\ assertKnownDocumentType(payload.documentType)
  /\ assertDocumentMutationAllowed(actor, payload.documentType)
  /\ CaseExists(payload.caseId)
  /\ ~Anchored(documentId)
  /\ payload.supersedesDocumentId = Undefined
  /\ payload.version = 1
  /\ documents' =
       [documents EXCEPT ![documentId] = [payload EXCEPT !.isActive = TRUE]]
  /\ caseDocuments' = caseDocuments \cup {<<documentId, payload.caseId>>}
  /\ putCaseRecord(payload.caseId,
       cases[payload.caseId].activeDocumentIds \cup {documentId})

addDocumentReference(documentId, payload, actor) ==
  /\ assertKnownDocumentType(payload.documentType)
  /\ assertDocumentMutationAllowed(actor, payload.documentType)
  /\ CaseExists(payload.caseId)
  /\ ~Anchored(documentId)
  /\ payload.supersedesDocumentId = Undefined
  /\ payload.version = 1
  /\ documents' =
       [documents EXCEPT ![documentId] = [payload EXCEPT !.isActive = TRUE]]
  /\ caseDocuments' = caseDocuments \cup {<<payload.caseId, documentId>>}
  /\ putCaseRecord(payload.caseId,
       cases[payload.caseId].activeDocumentIds \cup {documentId})

\* Mutant: the new version does not switch the superseded one off.
updateDocumentVersion_KeepsSuperseded(documentId, payload, actor) ==
  LET superseded == payload.supersedesDocumentId
  IN
  /\ assertKnownDocumentType(payload.documentType)
  /\ assertDocumentMutationAllowed(actor, payload.documentType)
  /\ superseded # Undefined
  /\ CaseExists(payload.caseId)
  /\ Anchored(superseded)
  /\ documents[superseded].caseId = payload.caseId
  /\ documents[superseded].documentType = payload.documentType
  /\ payload.version = documents[superseded].version + 1
  /\ ~Anchored(documentId)
  /\ documents' =
       [documents EXCEPT ![documentId] = [payload EXCEPT !.isActive = TRUE]]
  /\ caseDocuments' = caseDocuments \cup {<<payload.caseId, documentId>>}
  /\ putCaseRecord(payload.caseId,
       cases[payload.caseId].activeDocumentIds \cup {documentId})

\* The superseded reference is switched off, whether or not it still was on.
updateDocumentVersion(documentId, payload, actor) ==
  LET superseded == payload.supersedesDocumentId
  IN
  /\ assertKnownDocumentType(payload.documentType)
  /\ assertDocumentMutationAllowed(actor, payload.documentType)
  /\ superseded # Undefined
  /\ CaseExists(payload.caseId)
  /\ Anchored(superseded)
  /\ documents[superseded].caseId = payload.caseId
  /\ documents[superseded].documentType = payload.documentType
  /\ payload.version = documents[superseded].version + 1
  /\ ~Anchored(documentId)
  /\ documents' =
       [documents EXCEPT ![superseded].isActive = FALSE,
                         ![documentId] = [payload EXCEPT !.isActive = TRUE]]
  /\ caseDocuments' = caseDocuments \cup {<<payload.caseId, documentId>>}
  /\ putCaseRecord(payload.caseId,
       (cases[payload.caseId].activeDocumentIds \ {superseded})
         \cup {documentId})

deactivateDocument(documentId, caseId, actor, justified) ==
  /\ justified
  /\ CaseExists(caseId)
  /\ Anchored(documentId)
  /\ assertDocumentMutationAllowed(actor, documents[documentId].documentType)
  /\ documents[documentId].caseId = caseId
  /\ documents[documentId].isActive
  /\ documents' = [documents EXCEPT ![documentId].isActive = FALSE]
  /\ putCaseRecord(caseId, cases[caseId].activeDocumentIds \ {documentId})
  /\ UNCHANGED caseDocuments

-----------------------------------------------------------------------------
(* The payloads a client may send: the active flag it sends is ignored. *)
Payloads ==
  [caseId : CaseIds, documentType : AnchoredTypes, sha256Hash : Hashes,
   version : 1 .. MaxVersion,
   supersedesDocumentId : DocumentIds \cup {Undefined}, isActive : {FALSE}]

Init ==
  /\ documents = [d \in DocumentIds |-> NoDocument]
  /\ caseDocuments = {}

Next ==
  \E documentId \in DocumentIds, actor \in Actors :
    \/ \E payload \in Payloads :
         \/ addDocumentReference(documentId, payload, actor)
         \/ updateDocumentVersion(documentId, payload, actor)
    \/ \E caseId \in CaseIds, justified \in BOOLEAN :
         deactivateDocument(documentId, caseId, actor, justified)

=============================================================================
