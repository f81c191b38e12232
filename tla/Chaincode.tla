----------------------------- MODULE Chaincode ------------------------------
(***************************************************************************)
(* The deployed chaincode: CaseContract and DocumentContract on one world  *)
(* state.  Each transaction belongs to one contract, but both rewrite the  *)
(* case record, and every transition carries document types and            *)
(* identifiers that CaseContract takes from the caller without looking at  *)
(* the anchored references.                                                *)
(***************************************************************************)
EXTENDS CaseContract

CONSTANTS
  NoDocument,      \* the empty payload of an absent document
  AnchoredTypes,   \* the document types that callers anchor
  Hashes,          \* SHA-256 digests of file contents
  MaxVersion       \* bound on the version a payload carries

ASSUME ChaincodeAssumption ==
  /\ Undefined \notin DocumentIds
  /\ AnchoredTypes \subseteq DOCUMENT_TYPES
  /\ MaxVersion \in Nat

VARIABLES documents, caseDocuments

Documents == INSTANCE DocumentContract

ASSUME NoDocumentAssumption == NoDocument \notin Documents!DocumentReference

chaincodeVars == <<vars, documents, caseDocuments>>

ChaincodeInit == Init /\ Documents!Init

ChaincodeNext ==
  \/ Next /\ UNCHANGED <<documents, caseDocuments>>
  \/ Documents!Next /\ UNCHANGED <<stateIndex, events>>

ChaincodeSpec == ChaincodeInit /\ [][ChaincodeNext]_chaincodeVars

-----------------------------------------------------------------------------
(* Invariants. *)

\* The references of a case.
Anchored(caseId) ==
  {d \in DocumentIds :
     documents[d] # NoDocument /\ documents[d].caseId = caseId}

\* listCaseDocuments is exact: it returns every reference of the case, no
\* other, and never follows a link to an absent document or case.
CaseDocumentsExact ==
  \A caseId \in CaseIds, d \in DocumentIds :
    /\ <<caseId, d>> \in caseDocuments <=> d \in Anchored(caseId)
    /\ <<caseId, d>> \in caseDocuments => Exists(caseId)

\* No active document is lost: whatever transitions and document transactions
\* rewrite the case record, each active reference is in its activeDocumentIds.
ActiveDocumentsListed ==
  \A caseId \in CaseIds : \A d \in Anchored(caseId) :
    documents[d].isActive => d \in cases[caseId].activeDocumentIds

\* The chain of versions is sound: a first version supersedes nothing, a later
\* one supersedes the version before it, of the same case and type, which is
\* inactive for good.
VersionChainSound ==
  \A caseId \in CaseIds : \A d \in Anchored(caseId) :
    IF documents[d].version = 1
    THEN documents[d].supersedesDocumentId = Undefined
    ELSE \E p \in Anchored(caseId) :
           /\ p = documents[d].supersedesDocumentId
           /\ documents[p].documentType = documents[d].documentType
           /\ documents[p].version = documents[d].version - 1
           /\ ~documents[p].isActive

-----------------------------------------------------------------------------
(* Action properties. *)

\* An anchored reference is immutable evidence: no transaction of either
\* contract removes it or changes anything but its active flag, and a
\* deactivated reference is never reactivated.
ReferencesImmutable ==
  [][\A d \in DocumentIds : documents[d] # NoDocument =>
       \/ documents'[d] = documents[d]
       \/ documents'[d] = [documents[d] EXCEPT !.isActive = FALSE]
    ]_chaincodeVars

-----------------------------------------------------------------------------
(* The document contract is invisible to the workflow: with the lists of    *)
(* active documents left out, the chaincode behaves as CaseContract alone.  *)

WithoutDocuments(caseRecord) ==
  IF caseRecord = NoCase THEN NoCase
  ELSE [caseRecord EXCEPT !.activeDocumentIds = {}]

CaseView ==
  INSTANCE CaseContract
    WITH cases <- [c \in CaseIds |-> WithoutDocuments(cases[c])],
         DocumentIds <- {}

\* Anchoring, versioning and deactivating documents never disturb a case's
\* workflow, index or trail, although they rewrite the whole case record.
WorkflowUndisturbed == CaseView!Spec

-----------------------------------------------------------------------------
(* What the workflow table says of documents, which the contracts do not   *)
(* enforce.                                                                *)

\* "final issuance document must be anchored" (workflow.ts:255).
IssuedInstrumentAnchored ==
  \A e \in events : e.actionType = "issue_assurance" =>
    \E d \in Anchored(e.caseId) :
      documents[d].documentType = "assurance_instrument"

=============================================================================
