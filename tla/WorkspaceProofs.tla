-------------------------- MODULE WorkspaceProofs ---------------------------
(***************************************************************************)
(* The workspace, proved for every set of cases and documents, every       *)
(* number of loads and requests in flight, whatever other people do and    *)
(* wherever the backend fails: the screen catches up with the selection, a *)
(* success shows what the command was answered, and a command exceeds its  *)
(* role's authority in exactly the cases that Overreach names.             *)
(*                                                                         *)
(* To the backend the page is one more client, so the backend's invariant  *)
(* holds under it.  To it the invariant adds the types of the page, the    *)
(* case on the screen or on its way to it, and the thread of a command:    *)
(* the request it waits for is its own, what it was answered is in the     *)
(* mirror, and the load that follows has read it.                          *)
(***************************************************************************)
EXTENDS Workspace, BackendProofs

LoadTypes ==
  {Idle}
    \cup [step : {"asked"}, caseId : CaseIds]
    \cup [step : {"answered"}, caseId : CaseIds, caseRecord : AssuranceCase,
          documents : SUBSET DocumentIds, timeline : SUBSET WorkflowEvent]

ShownTypes ==
  {Nothing}
    \cup [caseId : CaseIds, caseRecord : AssuranceCase,
          documents : SUBSET DocumentIds, timeline : SUBSET WorkflowEvent]

OverviewTypes ==
  {Idle, [step |-> "done"]} \cup [step : {"asked"}, caseId : CaseIds \cup {Undefined}]

\* The commands posted, sent, and answered, whose results are being loaded.
DraftCommands == [step : {"post"}, kind : {"draft"}, actor : Profiles]

UploadCommands ==
  [step : {"post"}, kind : {"upload"}, actor : Profiles, caseId : CaseIds,
   documentType : AnchoredTypes, superseded : DocumentIds \cup {Undefined}]

ActionCommands ==
  [step : {"post"}, kind : {"action"}, actor : Profiles, caseId : CaseIds,
   rule : TRANSITIONS, ids : SUBSET DocumentIds]

PostedCommands == DraftCommands \cup UploadCommands \cup ActionCommands

SentCommands == [step : {"sent"}, slot : Requests, command : PostedCommands]

AnsweredCommands ==
  [step : {"overview", "details"}, kind : {"draft", "upload", "action"},
   caseId : CaseIds, outcome : DocumentIds \cup WorkflowEvent]

CommandTypes == {Idle} \cup PostedCommands \cup SentCommands \cup AnsweredCommands

PageTyped ==
  /\ actor \in Profiles
  /\ listed \subseteq CaseIds
  /\ selectedCaseId \in CaseIds \cup {Undefined}
  /\ shown \in ShownTypes
  /\ ticked \subseteq DocumentIds
  /\ overview \in OverviewTypes
  /\ loads \in [Loads \cup {"handler"} -> LoadTypes]
  /\ handler \in CommandTypes

\* What the page checked when a command was submitted.
CommandOffered ==
  handler.step = "post" =>
    /\ handler.kind = "draft" => isCreateCaseAllowed(handler.actor)
    /\ handler.kind = "upload" => isUploadAllowed(handler.actor)
    /\ handler.kind = "action" =>
         /\ handler.actor.role \in handler.rule.allowedRoles
         /\ handler.actor.organizationType
              \in handler.rule.allowedOrganizationTypes

\* The load after a command is of its case, and has read what it was answered.
OutcomeLoaded ==
  handler.step = "details" =>
    /\ loads["handler"].step \in {"asked", "answered"}
    /\ loads["handler"].caseId = handler.caseId
    /\ loads["handler"].step = "answered" =>
         handler.outcome \in IF handler.kind = "upload"
                             THEN loads["handler"].documents
                             ELSE loads["handler"].timeline

PageInv == PageTyped /\ SelectionShown /\ CommandOffered /\ OutcomeLoaded

UploadSteps == {"storeObject", "anchor", "persistDocument", "persistSnapshot"}

\* A request does what a command asks for.
Serves(q, command) ==
  IF command.kind = "upload"
  THEN q.step \in UploadSteps /\ q.caseId = command.caseId
  ELSE q.step \in {"createCase", "transitionCase", "persistCaseUpdate"}

RequestAwaited ==
  handler.step = "sent" => Serves(requests[handler.slot], handler.command)

\* An upload mirrors its document under the case it is for.
MirrorsUpload(q) ==
  /\ q.step = "persistDocument" => q.reference.caseId = q.caseId
  /\ q.step = "persistSnapshot" => q.documentId \in listCaseDocuments(q.caseId)

UploadsMirrored == \A r \in Requests : MirrorsUpload(requests[r])

\* What a command was answered is in the mirror, under its case.
OutcomeMirrored ==
  handler.step \in {"overview", "details"} =>
    handler.outcome \in IF handler.kind = "upload"
                        THEN listCaseDocuments(handler.caseId)
                        ELSE reconstructAuditTimeline(handler.caseId)

WorkspaceInv ==
  /\ BackendInv
  /\ UploadsMirrored
  /\ RequestAwaited
  /\ OutcomeMirrored
  /\ PageInv

-----------------------------------------------------------------------------
(* The backend under the page: its mirror forgets no event, and no         *)
(* document of a case.                                                     *)

MirrorKept ==
  /\ mirrorEvents \subseteq mirrorEvents'
  /\ \A caseId \in CaseIds :
       listCaseDocuments(caseId) \subseteq listCaseDocuments(caseId)'

\* A step of a request goes on with a request of the same slot.
LEMMA OneRequestMoves ==
  ASSUME BackendInv, NEW r \in Requests, CaseRequest(r) \/ UploadRequest(r)
  PROVE  \E q : Become(r, q)
<1>1. CASE CaseRequest(r)
  BY <1>1 DEF CaseRequest, createDraft, readCase, relayCreateCase, transitionCase,
     relayTransition, refuseCase, mirrorCaseUpdate, failCaseUpdate
<1>2. CASE UploadRequest(r)
  BY <1>2 DEF UploadRequest, readForUpload, storeObject, anchor, refuseAnchor,
     mirrorDocument, mirrorSnapshot, failStore, failUpload, deleteObject
<1> QED
  BY <1>1, <1>2

\* An event that is mirrored again replaces itself only (persistEvent).
LEMMA EventsStayMirrored ==
  ASSUME BackendInv, NEW r \in Requests, mirrorCaseUpdate(r)
  PROVE  mirrorEvents \subseteq mirrorEvents' /\ requests[r].event \in mirrorEvents'
<1>1. PICK q \in RequestType :
        q = requests[r] /\ RequestSound(q) /\ q.step = "persistCaseUpdate"
  BY DEF BackendInv, RequestsSound, mirrorCaseUpdate
<1>2. q.caseId \in CaseIds /\ q.event \in Trail(q.caseId)
  BY <1>1, RequestFields DEF RequestSound, AnswerSound
<1>3. mirrorEvents' = {e \in mirrorEvents : ~SameEventKey(e, q.event)} \cup {q.event}
  BY <1>1 DEF mirrorCaseUpdate, persistCaseUpdate, persistEvent
<1>4. mirrorEvents \subseteq events
  BY DEF BackendInv, MirrorShowsPast
<1>5. ASSUME NEW e \in mirrorEvents, SameEventKey(e, q.event)
      PROVE  e = q.event
  <2>1. e \in Trail(q.caseId) /\ e.sequence = q.event.sequence
    BY <1>2, <1>4, <1>5 DEF SameEventKey, Trail
  <2> QED
    BY <1>2, <2>1 DEF BackendInv, ChaincodeInv, IInv, TrailGapFree
<1> QED
  BY <1>1, <1>3, <1>5

\* A request about a case mirrors no document (persistCaseUpdate).
LEMMA CaseRequestMirrors ==
  ASSUME NEW r \in Requests, CaseRequest(r)
  PROVE  /\ UNCHANGED mirrorDocuments
         /\ mirrorCaseUpdate(r) \/ UNCHANGED mirrorEvents
<1>1. ASSUME NEW caseId \in CaseIds, createDraft(r, caseId) \/ readCase(r, caseId)
      PROVE  UNCHANGED <<mirrorDocuments, mirrorEvents>>
  BY <1>1 DEF createDraft, readCase, mirror
<1>2. ASSUME NEW user \in Actors, relayCreateCase(r, user)
      PROVE  UNCHANGED <<mirrorDocuments, mirrorEvents>>
  BY <1>2 DEF relayCreateCase, mirror
<1>3. ASSUME NEW rule, NEW user, NEW ids, NEW justified,
             transitionCase(r, rule, user, ids, justified)
      PROVE  UNCHANGED <<mirrorDocuments, mirrorEvents>>
  BY <1>3 DEF transitionCase, relayTransition, mirror
<1>4. ASSUME refuseCase(r) \/ failCaseUpdate(r)
      PROVE  UNCHANGED <<mirrorDocuments, mirrorEvents>>
  BY <1>4 DEF refuseCase, failCaseUpdate, mirror
<1>5. ASSUME mirrorCaseUpdate(r)
      PROVE  UNCHANGED mirrorDocuments
  BY <1>5 DEF mirrorCaseUpdate, persistCaseUpdate
<1> QED
  BY <1>1, <1>2, <1>3, <1>4, <1>5 DEF CaseRequest

\* An upload mirrors no event (persistDocumentUpdate, persistCaseSnapshot).
LEMMA UploadRequestMirrors ==
  ASSUME NEW r \in Requests, UploadRequest(r)
  PROVE  /\ UNCHANGED mirrorEvents
         /\ mirrorDocument(r) \/ UNCHANGED mirrorDocuments
<1>1. ASSUME NEW caseId, NEW documentId, NEW superseded,
             readForUpload(r, caseId, documentId, superseded)
      PROVE  UNCHANGED <<mirrorDocuments, mirrorEvents>>
  BY <1>1 DEF readForUpload, mirror
<1>2. ASSUME NEW documentType, NEW sha256Hash, NEW user,
             anchor(r, documentType, sha256Hash, user)
      PROVE  UNCHANGED <<mirrorDocuments, mirrorEvents>>
  <2>1. UNCHANGED mirror
    BY <1>2 DEF anchor
  <2> QED
    BY <2>1 DEF mirror
<1>3. ASSUME \/ storeObject(r) \/ refuseAnchor(r) \/ failStore(r) \/ failUpload(r)
      PROVE  UNCHANGED <<mirrorDocuments, mirrorEvents>>
  BY <1>3 DEF storeObject, refuseAnchor, failStore, failUpload, mirror
<1>4. ASSUME mirrorSnapshot(r)
      PROVE  UNCHANGED <<mirrorDocuments, mirrorEvents>>
  BY <1>4 DEF mirrorSnapshot, persistCaseSnapshot
<1>5. ASSUME mirrorDocument(r)
      PROVE  UNCHANGED mirrorEvents
  BY <1>5 DEF mirrorDocument, persistDocumentUpdate
<1> QED
  BY <1>1, <1>2, <1>3, <1>4, <1>5 DEF UploadRequest

\* The mirror keeps what it shows (persistDocumentUpdate, persistCaseUpdate).
LEMMA MirrorStays ==
  ASSUME BackendInv, [BackendNext]_backendVars
  PROVE  MirrorKept
<1>1. \/ \E r \in Requests : CaseRequest(r)
      \/ \E r \in Requests : UploadRequest(r)
      \/ UNCHANGED <<mirrorDocuments, mirrorEvents>>
  BY DEF BackendNext, crash, backendVars, mirror
<1>2. mirrorEvents \subseteq mirrorEvents'
  BY <1>1, CaseRequestMirrors, UploadRequestMirrors, EventsStayMirrored
<1>3. \A d \in DocumentIds :
        mirrorDocuments[d] # NoDocument => mirrorDocuments'[d] # NoDocument
  <2>1. ASSUME NEW r \in Requests, mirrorDocument(r)
        PROVE  NothingLost
    BY <2>1, DocumentMirrored
  <2>2. (\E r \in Requests : mirrorDocument(r)) \/ UNCHANGED mirrorDocuments
    BY <1>1, CaseRequestMirrors, UploadRequestMirrors
  <2> QED
    BY <2>1, <2>2 DEF NothingLost
<1>4. BackendInv' /\ ReferencesKept
  <2>1. LedgerStep \/ UNCHANGED chaincodeVars
    BY BackendLedgerSteps DEF backendVars
  <2> QED
    BY <2>1, BackendInvNext, LedgerStepKeeps, LedgerUnchangedKeeps DEF BackendInv
<1>5. ASSUME NEW d \in DocumentIds, mirrorDocuments[d] # NoDocument
      PROVE  mirrorDocuments'[d].caseId = mirrorDocuments[d].caseId
  <2>1. /\ documents[d] # NoDocument
        /\ documents[d] \in Documents!DocumentReference
        /\ mirrorDocuments[d].caseId = documents[d].caseId
    <3>1. /\ mirrorDocuments[d] \in Documents!DocumentReference
          /\ documents[d] \in Documents!DocumentReference
          /\ documents[d] # NoDocument
          /\ [mirrorDocuments[d] EXCEPT !.isActive = TRUE]
               = [documents[d] EXCEPT !.isActive = TRUE]
      BY <1>5 DEF BackendInv, MirrorTyped, MirrorDocumentsSound, ChaincodeInv,
         ReferencesTyped
    <3> QED
      BY <3>1, ReferenceFields
  <2>2. mirrorDocuments'[d].caseId = documents'[d].caseId
    <3>1. /\ mirrorDocuments'[d] \in Documents!DocumentReference
          /\ documents'[d] \in Documents!DocumentReference
          /\ [mirrorDocuments'[d] EXCEPT !.isActive = TRUE]
               = [documents'[d] EXCEPT !.isActive = TRUE]
      BY <1>3, <1>4, <1>5 DEF BackendInv, MirrorTyped, MirrorDocumentsSound,
         ChaincodeInv, ReferencesTyped
    <3> QED
      BY <3>1, ReferenceFields
  <2>3. documents'[d].caseId = documents[d].caseId
    BY <1>4, <2>1 DEF ReferencesKept, Documents!DocumentReference
  <2> QED
    BY <2>1, <2>2, <2>3
<1> QED
  BY <1>2, <1>3, <1>5 DEF MirrorKept, listCaseDocuments

\* What an upload has mirrored stays mirrored.
LEMMA UploadStaysMirrored ==
  ASSUME MirrorKept, NEW q \in RequestType, MirrorsUpload(q)
  PROVE  MirrorsUpload(q)'
<1>1. q.step = "persistSnapshot" => q.caseId \in CaseIds
  BY RequestFields
<1> QED
  BY <1>1 DEF MirrorsUpload, MirrorKept

\* A request that goes on leaves the others as they are.
LEMMA UploadGoesOnMirrored ==
  ASSUME BackendInv, UploadsMirrored, MirrorKept,
         NEW r \in Requests, NEW q, Become(r, q), MirrorsUpload(q)'
  PROVE  UploadsMirrored'
<1> SUFFICES ASSUME NEW s \in Requests
             PROVE  MirrorsUpload(requests[s])'
  BY DEF UploadsMirrored
<1>1. requests'[s] = IF s = r THEN q ELSE requests[s]
  BY DEF Become, BackendInv, RequestsSound
<1>2. CASE s = r
  BY <1>1, <1>2
<1>3. CASE s # r
  <2>1. PICK p \in RequestType :
          p = requests[s] /\ p = requests'[s] /\ MirrorsUpload(p)
    BY <1>1, <1>3 DEF UploadsMirrored, BackendInv, RequestsSound
  <2>2. MirrorsUpload(p)'
    BY <2>1, UploadStaysMirrored
  <2> QED
    BY <2>1, <2>2
<1> QED
  BY <1>2, <1>3

\* A request that mirrors no upload promises nothing about one.
MirrorsNothing(q) == q.step \notin {"persistDocument", "persistSnapshot"}

LEMMA CaseRequestMirrorsNothing ==
  ASSUME NEW r \in Requests, CaseRequest(r)
  PROVE  \E q : Become(r, q) /\ MirrorsNothing(q)
<1>1. \A caseId, caseRecord, event, endorsers :
        MirrorsNothing(Answer(caseId, caseRecord, event, endorsers))
  BY DEF Answer, MirrorsNothing
<1>2. MirrorsNothing(Idle)
  BY DEF Idle, MirrorsNothing
<1>3. ASSUME NEW caseId \in CaseIds, createDraft(r, caseId) \/ readCase(r, caseId)
      PROVE  \E q : Become(r, q) /\ MirrorsNothing(q)
  BY <1>3 DEF createDraft, readCase, MirrorsNothing
<1>4. ASSUME NEW user \in Actors, relayCreateCase(r, user)
      PROVE  \E q : Become(r, q) /\ MirrorsNothing(q)
  BY <1>1, <1>2, <1>4 DEF relayCreateCase
<1>5. ASSUME NEW rule \in TRANSITIONS, NEW user \in Actors,
             NEW ids \in SUBSET DocumentIds, NEW justified \in BOOLEAN,
             transitionCase(r, rule, user, ids, justified)
      PROVE  \E q : Become(r, q) /\ MirrorsNothing(q)
  BY <1>1, <1>2, <1>5 DEF transitionCase, relayTransition
<1>6. ASSUME refuseCase(r) \/ mirrorCaseUpdate(r) \/ failCaseUpdate(r)
      PROVE  \E q : Become(r, q) /\ MirrorsNothing(q)
  BY <1>2, <1>6 DEF refuseCase, mirrorCaseUpdate, failCaseUpdate
<1> QED
  BY <1>3, <1>4, <1>5, <1>6 DEF CaseRequest

\* The requests that mirror an upload, from step to step.
LEMMA UploadsStayMirrored ==
  ASSUME BackendInv, UploadsMirrored, [BackendNext]_backendVars
  PROVE  UploadsMirrored'
<1>1. MirrorKept
  BY MirrorStays
<1>2. MirrorsNothing(Idle)
  BY DEF Idle, MirrorsNothing
<1>3. ASSUME NEW r \in Requests, NEW q, Become(r, q), MirrorsNothing(q)
      PROVE  UploadsMirrored'
  <2>1. MirrorsUpload(q)'
    BY <1>3 DEF MirrorsUpload, MirrorsNothing
  <2> QED
    BY <1>1, <1>3, <2>1, UploadGoesOnMirrored
<1>4. CASE crash
  <2>1. \A r \in Requests : requests'[r] = Idle
    BY <1>4 DEF crash
  <2> QED
    BY <1>2, <2>1 DEF UploadsMirrored, MirrorsUpload, MirrorsNothing
<1>5. CASE UNCHANGED backendVars
  <2> SUFFICES ASSUME NEW s \in Requests
               PROVE  MirrorsUpload(requests[s])'
    BY DEF UploadsMirrored
  <2>1. PICK p \in RequestType :
          p = requests[s] /\ p = requests'[s] /\ MirrorsUpload(p)
    BY <1>5 DEF UploadsMirrored, BackendInv, RequestsSound, backendVars
  <2>2. MirrorsUpload(p)'
    BY <1>1, <2>1, UploadStaysMirrored
  <2> QED
    BY <2>1, <2>2
<1>6. ASSUME NEW r \in Requests, CaseRequest(r)
      PROVE  UploadsMirrored'
  BY <1>3, <1>6, CaseRequestMirrorsNothing
<1>7. ASSUME NEW r \in Requests, UploadRequest(r)
      PROVE  UploadsMirrored'
  <2>1. ASSUME NEW caseId \in CaseIds, NEW documentId \in DocumentIds,
               NEW superseded \in DocumentIds \cup {Undefined},
               readForUpload(r, caseId, documentId, superseded)
        PROVE  UploadsMirrored'
    <3>1. PICK q : Become(r, q) /\ MirrorsNothing(q)
      BY <2>1 DEF readForUpload, MirrorsNothing
    <3> QED
      BY <1>3, <3>1
  <2>2. CASE storeObject(r)
    <3>1. PICK p \in RequestType : p = requests[r] /\ p.step = "storeObject"
      BY <2>2 DEF storeObject, BackendInv, RequestsSound
    <3>2. PICK q : Become(r, q) /\ q.step = "anchor"
      BY <2>2, <3>1 DEF storeObject, RequestType
    <3> QED
      BY <1>3, <3>2 DEF MirrorsNothing
  <2>3. ASSUME NEW documentType \in AnchoredTypes, NEW sha256Hash \in Hashes,
               NEW user \in Actors, anchor(r, documentType, sha256Hash, user)
        PROVE  UploadsMirrored'
    <3>1. \/ Become(r, Idle)
          \/ \E q : /\ Become(r, q)
                    /\ q.step = "persistDocument"
                    /\ q.reference.caseId = q.caseId
      BY <2>3 DEF anchor, deleteObject
    <3>2. ASSUME NEW q, Become(r, q), q.step = "persistDocument",
                 q.reference.caseId = q.caseId
          PROVE  UploadsMirrored'
      <4>1. MirrorsUpload(q)'
        BY <3>2 DEF MirrorsUpload
      <4> QED
        BY <1>1, <3>2, <4>1, UploadGoesOnMirrored
    <3> QED
      BY <1>2, <1>3, <3>1, <3>2
  <2>4. CASE mirrorDocument(r)
    <3>1. PICK p \in RequestType :
            p = requests[r] /\ p.step = "persistDocument" /\ MirrorsUpload(p)
      BY <2>4 DEF mirrorDocument, BackendInv, RequestsSound, UploadsMirrored
    <3>2. PICK q :
            /\ Become(r, q)
            /\ q.step = "persistSnapshot"
            /\ q.documentId = p.documentId /\ q.caseId = p.caseId
      BY <2>4, <3>1 DEF mirrorDocument, RequestType
    <3>3. /\ p.documentId \in DocumentIds
          /\ p.reference \in Documents!DocumentReference
      BY <3>1, RequestFields
    <3>4. mirrorDocuments'[p.documentId] = p.reference
      <4>1. p.documentId # p.reference.supersedesDocumentId
        BY <3>1, <3>3, ChaincodeAssumption
        DEF BackendInv, RequestsSound, RequestSound, AnchoredSound
      <4> QED
        BY <2>4, <3>1, <3>3, <4>1 DEF mirrorDocument, persistDocumentUpdate
    <3>5. (q.documentId \in listCaseDocuments(q.caseId))'
      BY <3>1, <3>2, <3>3, <3>4, NoDocumentAssumption
      DEF listCaseDocuments, MirrorsUpload
    <3>6. MirrorsUpload(q)'
      BY <3>2, <3>5 DEF MirrorsUpload
    <3> QED
      BY <1>1, <3>2, <3>6, UploadGoesOnMirrored
  <2>5. CASE \/ refuseAnchor(r) \/ mirrorSnapshot(r)
             \/ failStore(r) \/ failUpload(r)
    <3>1. Become(r, Idle)
      BY <2>5 DEF refuseAnchor, mirrorSnapshot, failStore, failUpload, deleteObject
    <3> QED
      BY <1>2, <1>3, <3>1
  <2> QED
    BY <1>7, <2>1, <2>2, <2>3, <2>4, <2>5 DEF UploadRequest
<1> QED
  BY <1>4, <1>5, <1>6, <1>7 DEF BackendNext

-----------------------------------------------------------------------------
(* The page is one more client of the backend.                             *)

\* The command under way is one of its types, by its step.
LEMMA CommandSteps ==
  ASSUME handler \in CommandTypes
  PROVE  /\ handler.step = "idle" => handler = Idle
         /\ handler.step = "post" => handler \in PostedCommands
         /\ handler.step = "sent" =>
              handler.slot \in Requests /\ handler.command \in PostedCommands
         /\ handler.step \in {"overview", "details"} =>
              handler \in AnsweredCommands
<1> USE DEF CommandTypes
<1>1. CASE handler = Idle
  BY <1>1 DEF Idle
<1>2. CASE handler \in PostedCommands
  BY <1>2 DEF PostedCommands, DraftCommands, UploadCommands, ActionCommands
<1>3. CASE handler \in SentCommands
  BY <1>3 DEF SentCommands
<1>4. CASE handler \in AnsweredCommands
  BY <1>4 DEF AnsweredCommands
<1> QED
  BY <1>1, <1>2, <1>3, <1>4

\* A posted command carries what its kind needs.
LEMMA PostedFields ==
  ASSUME NEW command \in PostedCommands
  PROVE  /\ command.step = "post"
         /\ command.kind \in {"draft", "upload", "action"}
         /\ command.actor \in Profiles
         /\ command.kind = "upload" =>
              /\ command.caseId \in CaseIds
              /\ command.documentType \in AnchoredTypes
              /\ command.superseded \in DocumentIds \cup {Undefined}
         /\ command.kind = "action" =>
              /\ command.caseId \in CaseIds
              /\ command.rule \in TRANSITIONS
              /\ command.ids \in SUBSET DocumentIds
BY DEF PostedCommands, DraftCommands, UploadCommands, ActionCommands

\* What the backend submits for the page it might submit for anyone.
LEMMA RelayIsRequest ==
  ASSUME NEW r \in Requests, NEW command \in PostedCommands, relay(r, command)
  PROVE  CaseRequest(r) \/ UploadRequest(r)
<1>1. command.actor \in Actors
  BY PostedFields, WorkspaceAssumption
<1>2. ASSUME relayCreateCase(r, command.actor)
      PROVE  CaseRequest(r)
  BY <1>1, <1>2 DEF CaseRequest
<1>3. ASSUME command.kind = "upload", NEW sha256Hash \in Hashes,
             anchor(r, command.documentType, sha256Hash, command.actor)
      PROVE  UploadRequest(r)
  <2>1. command.documentType \in AnchoredTypes
    BY <1>3, PostedFields
  <2> QED
    BY <1>1, <1>3, <2>1 DEF UploadRequest
<1>4. ASSUME command.kind = "action", Derivable(command.ids),
             relayTransition(r, command.rule, command.actor,
               deriveDocumentTypes(command.ids), command.ids, TRUE)
      PROVE  CaseRequest(r)
  <2>1. command.rule \in TRANSITIONS /\ command.ids \in SUBSET DocumentIds
    BY <1>4, PostedFields
  <2>2. transitionCase(r, command.rule, command.actor, command.ids, TRUE)
    BY <1>4 DEF transitionCase
  <2> QED
    BY <1>1, <2>1, <2>2 DEF CaseRequest
<1> QED
  BY <1>2, <1>3, <1>4 DEF relay

\* Each step of the backend that the page waits for is one of a request.
LEMMA ServingIsRequest ==
  ASSUME PageTyped, NEW r \in Requests,
         arrive(r) \/ proceed(r) \/ succeed(r) \/ elsewhere(r)
  PROVE  CaseRequest(r) \/ UploadRequest(r)
<1>1. handler \in CommandTypes
  BY DEF PageTyped
<1>2. ASSUME arrive(r) PROVE CaseRequest(r) \/ UploadRequest(r)
  <2>1. handler \in PostedCommands
    BY <1>1, <1>2, CommandSteps DEF arrive
  <2>2. /\ handler.kind = "upload" =>
             /\ handler.caseId \in CaseIds
             /\ handler.superseded \in DocumentIds \cup {Undefined}
        /\ handler.kind = "action" => handler.caseId \in CaseIds
    BY <2>1, PostedFields
  <2>3. ASSUME NEW caseId \in CaseIds, createDraft(r, caseId)
        PROVE  CaseRequest(r)
    BY <2>3 DEF CaseRequest
  <2>4. ASSUME handler.kind = "upload", NEW documentId \in DocumentIds,
               readForUpload(r, handler.caseId, documentId, handler.superseded)
        PROVE  UploadRequest(r)
    BY <2>2, <2>4 DEF UploadRequest
  <2>5. ASSUME handler.kind = "action", readCase(r, handler.caseId)
        PROVE  CaseRequest(r)
    BY <2>2, <2>5 DEF CaseRequest
  <2> QED
    BY <1>2, <2>3, <2>4, <2>5 DEF arrive
<1>3. ASSUME proceed(r) PROVE CaseRequest(r) \/ UploadRequest(r)
  <2>1. handler.command \in PostedCommands
    BY <1>1, <1>3, CommandSteps DEF proceed, Awaited
  <2>2. ASSUME relay(r, handler.command)
        PROVE  CaseRequest(r) \/ UploadRequest(r)
    BY <2>1, <2>2, RelayIsRequest
  <2>3. ASSUME \/ storeObject(r) \/ mirrorDocument(r) \/ refuseAnchor(r)
               \/ failStore(r) \/ failUpload(r)
        PROVE  UploadRequest(r)
    BY <2>3 DEF UploadRequest
  <2>4. ASSUME refuseCase(r) \/ failCaseUpdate(r)
        PROVE  CaseRequest(r)
    BY <2>4 DEF CaseRequest
  <2> QED
    BY <1>3, <2>2, <2>3, <2>4 DEF proceed
<1>4. ASSUME succeed(r) PROVE CaseRequest(r) \/ UploadRequest(r)
  BY <1>4 DEF succeed, CaseRequest, UploadRequest
<1> QED
  BY <1>2, <1>3, <1>4 DEF elsewhere

\* The user and the loads touch nothing of the backend.
LEMMA PageReadsOnly ==
  ASSUME User \/ Loading \/ disconnect
  PROVE  UNCHANGED backendVars
<1>1. CASE User
  BY <1>1 DEF User, openPage, setWorkspaceKey, selectCase,
     setSelectedDocumentIds, handleCreateDraft, handleUploadDocument,
     handleExecuteAction, Submit
<1>2. CASE Loading
  BY <1>2 DEF Loading, answerLoad, loadCaseDetails, refreshOverview,
     failOverview, refreshQueue, refreshDetails
<1>3. CASE disconnect
  BY <1>3 DEF disconnect
<1> QED
  BY <1>1, <1>2, <1>3

LEMMA PageIsClient ==
  ASSUME PageTyped, [WorkspaceNext]_workspaceVars
  PROVE  [BackendNext]_backendVars
<1>1. CASE User \/ Loading \/ disconnect
  BY <1>1, PageReadsOnly
<1>2. ASSUME NEW r \in Requests,
             arrive(r) \/ proceed(r) \/ succeed(r) \/ elsewhere(r)
      PROVE  BackendNext
  BY <1>2, ServingIsRequest DEF BackendNext
<1>3. CASE backendStops
  BY <1>3 DEF backendStops, BackendNext
<1>4. CASE UNCHANGED workspaceVars
  BY <1>4 DEF workspaceVars
<1> QED
  BY <1>1, <1>2, <1>3, <1>4 DEF WorkspaceNext, Serving

-----------------------------------------------------------------------------
(* The thread of a command, while the command stays.                       *)

\* What a command was answered stays in the mirror.
LEMMA OutcomeStays ==
  ASSUME PageTyped, OutcomeMirrored, MirrorKept,
         handler'.step \in {"overview", "details"} =>
           /\ handler.step \in {"overview", "details"}
           /\ handler'.kind = handler.kind
           /\ handler'.caseId = handler.caseId
           /\ handler'.outcome = handler.outcome
  PROVE  OutcomeMirrored'
<1> SUFFICES ASSUME handler'.step \in {"overview", "details"}
             PROVE  (handler.outcome \in IF handler.kind = "upload"
                                        THEN listCaseDocuments(handler.caseId)
                                        ELSE reconstructAuditTimeline(handler.caseId))'
  BY DEF OutcomeMirrored
<1>1. handler \in AnsweredCommands
  BY CommandSteps DEF PageTyped
<1>2. PICK caseId \in CaseIds : caseId = handler.caseId /\ caseId = handler'.caseId
  BY <1>1 DEF AnsweredCommands
<1>3. handler.outcome \in IF handler.kind = "upload"
                          THEN listCaseDocuments(caseId)
                          ELSE reconstructAuditTimeline(caseId)
  BY <1>2 DEF OutcomeMirrored
<1>4. /\ listCaseDocuments(caseId) \subseteq listCaseDocuments(caseId)'
      /\ reconstructAuditTimeline(caseId) \subseteq reconstructAuditTimeline(caseId)'
  BY DEF MirrorKept, reconstructAuditTimeline
<1> QED
  BY <1>2, <1>3, <1>4 DEF listCaseDocuments, reconstructAuditTimeline

\* The request a command waits for stays its own while others move.
LEMMA AwaitedStays ==
  ASSUME PageTyped, BackendInv, RequestAwaited, UNCHANGED handler,
         \/ UNCHANGED requests
         \/ \E r \in Requests : ~Awaited(r) /\ \E q : Become(r, q)
  PROVE  RequestAwaited'
<1> SUFFICES ASSUME handler.step = "sent"
             PROVE  requests'[handler.slot] = requests[handler.slot]
  BY DEF RequestAwaited, Serves
<1>1. handler.slot \in Requests
  BY CommandSteps DEF PageTyped
<1> QED
  BY <1>1 DEF Become, Awaited, BackendInv, RequestsSound

\* A page that stays as it is.
LEMMA PageStays ==
  ASSUME PageInv, UNCHANGED pageVars
  PROVE  PageInv'
<1>1. /\ UNCHANGED <<actor, listed, selectedCaseId, shown, ticked>>
      /\ UNCHANGED <<overview, loads, handler, mishap>>
  BY DEF pageVars
<1>2. PageTyped'
  BY <1>1 DEF PageInv, PageTyped
<1>3. SelectionShown'
  BY <1>1 DEF PageInv, SelectionShown
<1>4. CommandOffered' /\ OutcomeLoaded'
  BY <1>1 DEF PageInv, CommandOffered, OutcomeLoaded
<1> QED
  BY <1>2, <1>3, <1>4 DEF PageInv

-----------------------------------------------------------------------------
(* The page: what selecting and loading leave of the invariant.            *)

\* Whoever acts through a page acts for the organisation of their role.
LEMMA RoleClaims ==
  ASSUME NEW role \in UserRoles
  PROVE  LET user == buildActor(role)
         IN /\ user \in UserClaims
            /\ ActorInGoodStanding(user)
            /\ user.organizationType = "auditor_body" <=> role = "auditor"
<1>1. /\ OrganizationOf[role] \in OrganizationTypes
      /\ OrganizationOf[role] = "auditor_body" <=> role = "auditor"
  BY DEF OrganizationOf, OrganizationTypes, UserRoles
<1> QED
  BY <1>1 DEF buildActor, UserClaims, ActorInGoodStanding

\* The profiles of the workspace carry the claims of their roles.
LEMMA ProfileClaims ==
  ASSUME NEW user \in Profiles
  PROVE  /\ user \in UserClaims
         /\ user.role \in WorkspaceRoles
         /\ ActorInGoodStanding(user)
         /\ user.organizationType = "auditor_body" <=> user.role = "auditor"
<1>1. PICK role \in WorkspaceRoles : user = buildActor(role)
  BY DEF Profiles
<1>2. role \in UserRoles
  BY WorkspaceAssumption
<1>3. user.role = role
  BY <1>1 DEF buildActor
<1> QED
  BY <1>1, <1>2, <1>3, RoleClaims

\* A load is nothing, asked or answered, and its fields are those of its step.
LEMMA LoadSteps ==
  ASSUME NEW load \in LoadTypes
  PROVE  /\ load = Idle <=> load.step = "idle"
         /\ load # Idle => load.caseId \in CaseIds
         /\ load.step = "answered" =>
              /\ load.caseRecord \in AssuranceCase
              /\ load.documents \in SUBSET DocumentIds
              /\ load.timeline \in SUBSET WorkflowEvent
BY DEF LoadTypes, Idle

\* Where the selection moves, its details are already there or asked for, next
\* to the load that the command asks for (setSelectedCaseId and its effect).
LEMMA SelectionMoves ==
  ASSUME PageTyped, NEW next \in CaseIds \cup {Undefined}, NEW started,
         \/ DOMAIN started = {} /\ (next = selectedCaseId => SelectionShown)
         \/ /\ DOMAIN started = {"handler"} /\ next \in CaseIds
            /\ started["handler"] = Asked(next),
         setSelectedCaseId(next, started)
  PROVE  /\ selectedCaseId' \in CaseIds \cup {Undefined}
         /\ loads' \in [Loads \cup {"handler"} -> LoadTypes]
         /\ "handler" \in DOMAIN started =>
              loads'["handler"] = started["handler"]
         /\ "handler" \notin DOMAIN started =>
              loads'["handler"] = loads["handler"]
         /\ shown' \in {Nothing, shown}
         /\ ticked' \subseteq ticked
         /\ mishap' = mishap => SelectionShown'
<1> DEFINE after(new) ==
             [l \in Loads \cup {"handler"} |->
                IF l \in DOMAIN started THEN started[l]
                ELSE IF l \in new THEN Asked(next)
                ELSE loads[l]]
<1>1. /\ loads \in [Loads \cup {"handler"} -> LoadTypes]
      /\ DOMAIN loads = Loads \cup {"handler"}
  BY DEF PageTyped
<1>2. /\ selectedCaseId' = next
      /\ loads' \in loadsAfterSelecting(next, started)
      /\ IF next = Undefined /\ selectedCaseId # Undefined
         THEN shown' = Nothing /\ ticked' = {}
         ELSE UNCHANGED <<shown, ticked>>
  BY DEF setSelectedCaseId
<1>3. PICK new \in SUBSET Loads :
        /\ loads' = after(new)
        /\ next \notin {selectedCaseId, Undefined} => new # {}
        /\ next \in {selectedCaseId, Undefined} => new = {}
  <2>1. CASE next \in {selectedCaseId, Undefined}
    <3>1. loads' = after({})
      BY <1>1, <1>2, <2>1 DEF loadsAfterSelecting
    <3> QED
      BY <2>1, <3>1
  <2>2. CASE next \notin {selectedCaseId, Undefined}
    <3>1. PICK l \in {k \in Loads : loads[k] = Idle} : loads' = after({l})
      BY <1>1, <1>2, <2>2 DEF loadsAfterSelecting
    <3> QED
      BY <2>2, <3>1
  <2> QED
    BY <2>1, <2>2
<1>4. new # {} => next \in CaseIds
  BY <1>3
<1>5. \A caseId \in CaseIds : Asked(caseId) \in LoadTypes
  BY DEF Asked, LoadTypes
<1>6. loads' \in [Loads \cup {"handler"} -> LoadTypes]
  BY <1>1, <1>3, <1>4, <1>5
<1>7. /\ "handler" \in DOMAIN started => loads'["handler"] = started["handler"]
      /\ "handler" \notin DOMAIN started => loads'["handler"] = loads["handler"]
  BY <1>3, WorkspaceAssumption
<1>8. ASSUME mishap' = mishap PROVE SelectionShown'
  <2>1. CASE DOMAIN started = {"handler"}
    <3>1. loads'["handler"] = Asked(next) /\ "handler" \in DOMAIN loads'
      BY <1>6, <1>7, <2>1
    <3>2. loads'["handler"] # Idle /\ loads'["handler"].caseId = selectedCaseId'
      BY <1>2, <3>1 DEF Asked, Idle
    <3> QED
      BY <3>1, <3>2 DEF SelectionShown
  <2>2. CASE DOMAIN started = {} /\ next \notin {selectedCaseId, Undefined}
    <3>1. PICK l \in new : l \in Loads
      BY <1>3, <2>2
    <3>2. loads'[l] = Asked(next) /\ l \in DOMAIN loads'
      BY <1>3, <2>2, <3>1
    <3>3. loads'[l] # Idle /\ loads'[l].caseId = selectedCaseId'
      BY <1>2, <3>2 DEF Asked, Idle
    <3> QED
      BY <3>2, <3>3 DEF SelectionShown
  <2>3. CASE DOMAIN started = {} /\ next = selectedCaseId
    <3>1. loads' = loads
      BY <1>1, <1>3, <2>3
    <3>2. UNCHANGED <<shown, selectedCaseId>>
      BY <1>2, <2>3
    <3> QED
      BY <1>8, <2>3, <3>1, <3>2 DEF SelectionShown
  <2>4. CASE next = Undefined /\ next # selectedCaseId
    BY <1>2, <2>4 DEF SelectionShown, Nothing
  <2> QED
    BY <2>1, <2>2, <2>3, <2>4
<1> QED
  BY <1>2, <1>6, <1>7, <1>8

\* A load that ends shows the case it is of, or is a mishap.
LEMMA LoadEnds ==
  ASSUME PageTyped, SelectionShown, NEW l \in Loads \cup {"handler"},
         showDetails(l) \/ failDetails(l), UNCHANGED selectedCaseId
  PROVE  /\ loads' \in [Loads \cup {"handler"} -> LoadTypes]
         /\ \A k \in (Loads \cup {"handler"}) \ {l} : loads'[k] = loads[k]
         /\ shown' \in ShownTypes
         /\ SelectionShown'
<1>1. /\ loads \in [Loads \cup {"handler"} -> LoadTypes]
      /\ DOMAIN loads = Loads \cup {"handler"}
      /\ loads[l] \in LoadTypes
  BY DEF PageTyped
<1>2. loads' = [loads EXCEPT ![l] = Idle]
  BY DEF showDetails, failDetails
<1>3. Idle \in LoadTypes
  BY DEF LoadTypes
<1>4. /\ loads' \in [Loads \cup {"handler"} -> LoadTypes]
      /\ \A k \in (Loads \cup {"handler"}) \ {l} : loads'[k] = loads[k]
  BY <1>1, <1>2, <1>3
<1>5. CASE showDetails(l)
  <2>1. /\ loads[l].step = "answered"
        /\ shown' = [caseId |-> loads[l].caseId,
                     caseRecord |-> loads[l].caseRecord,
                     documents |-> loads[l].documents,
                     timeline |-> loads[l].timeline]
        /\ mishap' = (loads[l].caseId # selectedCaseId)
    BY <1>5 DEF showDetails
  <2>2. /\ loads[l].caseId \in CaseIds
        /\ loads[l].caseRecord \in AssuranceCase
        /\ loads[l].documents \in SUBSET DocumentIds
        /\ loads[l].timeline \in SUBSET WorkflowEvent
    BY <1>1, <2>1, LoadSteps DEF Idle
  <2>3. shown'.caseId = selectedCaseId' \/ mishap'
    BY <2>1
  <2>4. SelectionShown'
    BY <2>3 DEF SelectionShown
  <2> QED
    BY <1>4, <2>1, <2>2, <2>4 DEF ShownTypes
<1>6. CASE failDetails(l)
  BY <1>4, <1>6 DEF failDetails, SelectionShown, PageTyped
<1> QED
  BY <1>5, <1>6

-----------------------------------------------------------------------------
(* The user.                                                               *)

\* A selection that the user or the queue makes.
LEMMA SelectionPreserves ==
  ASSUME PageInv, NEW next \in CaseIds \cup {Undefined},
         setSelectedCaseId(next, <<>>),
         UNCHANGED <<handler, mishap>>,
         actor' \in Profiles, listed' \subseteq CaseIds,
         overview' \in OverviewTypes
  PROVE  PageInv'
<1>1. DOMAIN <<>> = {}
  OBVIOUS
<1>2. PageTyped /\ SelectionShown
  BY DEF PageInv
<1>3. /\ selectedCaseId' \in CaseIds \cup {Undefined}
      /\ loads' \in [Loads \cup {"handler"} -> LoadTypes]
      /\ loads'["handler"] = loads["handler"]
      /\ shown' \in {Nothing, shown}
      /\ ticked' \subseteq ticked
      /\ SelectionShown'
  BY <1>1, <1>2, SelectionMoves
<1>4. PageTyped' /\ CommandOffered'
  <2>1. Nothing \in ShownTypes
    BY DEF ShownTypes
  <2> QED
    BY <1>2, <1>3, <2>1 DEF PageInv, PageTyped, CommandOffered
<1>5. OutcomeLoaded'
  BY <1>3 DEF PageInv, OutcomeLoaded
<1> QED
  BY <1>3, <1>4, <1>5 DEF PageInv

\* A command that the page offers.
LEMMA SubmissionPreserves ==
  ASSUME PageInv,
         NEW command \in PostedCommands,
         Submit(command),
         command.kind = "draft" => isCreateCaseAllowed(command.actor),
         command.kind = "upload" => isUploadAllowed(command.actor),
         command.kind = "action" =>
           /\ command.actor.role \in command.rule.allowedRoles
           /\ command.actor.organizationType
                \in command.rule.allowedOrganizationTypes
  PROVE  PageInv'
<1>1. /\ handler' = command
      /\ UNCHANGED <<actor, listed, selectedCaseId, shown, ticked,
                     overview, loads, mishap>>
  BY DEF Submit
<1>2. command.step = "post"
  BY PostedFields
<1>3. SelectionShown'
  BY <1>1 DEF PageInv, SelectionShown
<1>4. PageTyped'
  BY <1>1 DEF PageInv, PageTyped, CommandTypes
<1>5. OutcomeLoaded'
  BY <1>1, <1>2 DEF OutcomeLoaded
<1>6. CommandOffered'
  BY <1>1 DEF CommandOffered, isCreateCaseAllowed, isUploadAllowed
<1> QED
  BY <1>3, <1>4, <1>5, <1>6 DEF PageInv

\* Whatever the user does preserves the invariant.
LEMMA UserPreserves == ASSUME PageInv, User PROVE PageInv'
<1> USE DEF PageInv
<1>1. ASSUME NEW role \in WorkspaceRoles, NEW caseId \in CaseIds \cup {Undefined},
             openPage(role, caseId)
      PROVE  PageInv'
  <2>1. actor' \in Profiles
    BY <1>1 DEF openPage, Profiles
  <2>2. overview' \in OverviewTypes
    BY <1>1 DEF openPage, Asked, OverviewTypes
  <2> QED
    BY <1>1, <2>1, <2>2, SelectionPreserves
    DEF openPage, PageTyped
<1>2. ASSUME NEW role \in WorkspaceRoles, setWorkspaceKey(role)
      PROVE  PageInv'
  <2>1. actor' \in Profiles
    BY <1>2 DEF setWorkspaceKey, Profiles
  <2>2. /\ ticked' = {}
        /\ UNCHANGED <<listed, selectedCaseId, shown, overview, loads,
                       handler, mishap>>
    BY <1>2 DEF setWorkspaceKey
  <2>3. PageTyped'
    BY <2>1, <2>2 DEF PageTyped
  <2> QED
    BY <2>2, <2>3 DEF SelectionShown, OutcomeLoaded, CommandOffered
<1>3. ASSUME NEW caseId \in CaseIds, selectCase(caseId)
      PROVE  PageInv'
  BY <1>3, SelectionPreserves DEF selectCase, PageTyped
<1>4. ASSUME NEW documentId \in DocumentIds, setSelectedDocumentIds(documentId)
      PROVE  PageInv'
  <2>1. /\ ticked' \subseteq ticked \cup {documentId}
        /\ UNCHANGED <<actor, listed, selectedCaseId, shown, overview,
                       loads, handler, mishap>>
    BY <1>4 DEF setSelectedDocumentIds
  <2>2. PageTyped'
    BY <2>1 DEF PageTyped
  <2> QED
    BY <2>1, <2>2 DEF SelectionShown, OutcomeLoaded, CommandOffered
<1>5. CASE handleCreateDraft
  <2> DEFINE command == [step |-> "post", kind |-> "draft", actor |-> actor]
  <2>1. command \in PostedCommands
    BY DEF PostedCommands, DraftCommands, PageTyped
  <2>2. Submit(command) /\ isCreateCaseAllowed(command.actor)
    BY <1>5 DEF handleCreateDraft
  <2>3. command.kind = "draft"
    OBVIOUS
  <2> QED
    BY <2>1, <2>2, <2>3, SubmissionPreserves
<1>6. ASSUME NEW documentType \in AnchoredTypes,
             NEW superseded \in DocumentIds \cup {Undefined},
             handleUploadDocument(documentType, superseded)
      PROVE  PageInv'
  <2> DEFINE command == [step |-> "post", kind |-> "upload", actor |-> actor,
                         caseId |-> selectedCaseId, documentType |-> documentType,
                         superseded |-> superseded]
  <2>1. command \in PostedCommands
    BY <1>6 DEF handleUploadDocument, PostedCommands, UploadCommands, PageTyped
  <2>2. Submit(command) /\ isUploadAllowed(command.actor)
    BY <1>6 DEF handleUploadDocument
  <2>3. command.kind = "upload"
    OBVIOUS
  <2> QED
    BY <2>1, <2>2, <2>3, SubmissionPreserves
<1>7. ASSUME NEW rule \in getAvailableTransitions(shown, actor),
             handleExecuteAction(rule)
      PROVE  PageInv'
  <2> DEFINE command == [step |-> "post", kind |-> "action", actor |-> actor,
                         caseId |-> selectedCaseId, rule |-> rule, ids |-> ticked]
  <2>1. /\ rule \in TRANSITIONS
        /\ actor.role \in rule.allowedRoles
        /\ actor.organizationType \in rule.allowedOrganizationTypes
    BY DEF getAvailableTransitions
  <2>2. command \in PostedCommands
    BY <1>7, <2>1 DEF handleExecuteAction, PostedCommands, ActionCommands, PageTyped
  <2>3. Submit(command)
    BY <1>7 DEF handleExecuteAction
  <2>4. /\ command.kind = "action"
        /\ command.actor = actor /\ command.rule = rule
    OBVIOUS
  <2> HIDE DEF command
  <2> QED
    BY <2>1, <2>2, <2>3, <2>4, SubmissionPreserves
<1> QED
  BY <1>1, <1>2, <1>3, <1>4, <1>5, <1>6, <1>7 DEF User

-----------------------------------------------------------------------------
(* Loads, and the command that they follow.                                *)

\* An answer the backend gives to a load: that of the command under way has
\* what the command was answered (listCaseDocuments, reconstructAuditTimeline).
LEMMA AnswerPreserves ==
  ASSUME WorkspaceInv, NEW l \in DOMAIN loads, answerLoad(l)
  PROVE  PageInv'
<1>1. /\ loads \in [Loads \cup {"handler"} -> LoadTypes]
      /\ l \in Loads \cup {"handler"} /\ loads[l] \in LoadTypes
  BY DEF WorkspaceInv, PageInv, PageTyped
<1>2. PICK caseId : caseId = loads[l].caseId
  OBVIOUS
<1>3. /\ loads[l].step = "asked" /\ Mirrored(caseId)
      /\ loads' = [loads EXCEPT ![l] =
           [step |-> "answered", caseId |-> caseId,
            caseRecord |-> mirrorCases[caseId],
            documents |-> listCaseDocuments(caseId),
            timeline |-> reconstructAuditTimeline(caseId)]]
      /\ UNCHANGED <<actor, listed, selectedCaseId, shown, ticked,
                     overview, handler, mishap>>
  BY <1>2 DEF answerLoad
<1>4. caseId \in CaseIds /\ loads[l] # Idle
  BY <1>1, <1>2, <1>3, LoadSteps DEF Idle
<1>5. /\ mirrorCases[caseId] \in AssuranceCase
      /\ listCaseDocuments(caseId) \in SUBSET DocumentIds
      /\ reconstructAuditTimeline(caseId) \in SUBSET WorkflowEvent
  BY <1>3, <1>4 DEF WorkspaceInv, BackendInv, MirrorTyped, MirrorShowsPast,
     ChaincodeInv, IInv, TypeOK, Mirrored, listCaseDocuments,
     reconstructAuditTimeline
<1>6. PICK answer \in LoadTypes :
        /\ loads' = [loads EXCEPT ![l] = answer]
        /\ answer.step = "answered" /\ answer.caseId = caseId
        /\ answer.documents = listCaseDocuments(caseId)
        /\ answer.timeline = reconstructAuditTimeline(caseId)
  <2> DEFINE given == [step |-> "answered", caseId |-> caseId,
                       caseRecord |-> mirrorCases[caseId],
                       documents |-> listCaseDocuments(caseId),
                       timeline |-> reconstructAuditTimeline(caseId)]
  <2>1. given \in LoadTypes
    BY <1>4, <1>5 DEF LoadTypes
  <2>2. /\ given.step = "answered" /\ given.caseId = caseId
        /\ given.documents = listCaseDocuments(caseId)
        /\ given.timeline = reconstructAuditTimeline(caseId)
    OBVIOUS
  <2>3. loads' = [loads EXCEPT ![l] = given]
    BY <1>3
  <2> HIDE DEF given
  <2> QED
    BY <2>1, <2>2, <2>3
<1>7. /\ loads' \in [Loads \cup {"handler"} -> LoadTypes]
      /\ loads'[l] = answer
      /\ \A k \in DOMAIN loads' : k # l => loads'[k] = loads[k]
      /\ DOMAIN loads' = DOMAIN loads
  BY <1>1, <1>6
<1>8. PageTyped' /\ CommandOffered'
  BY <1>3, <1>7 DEF WorkspaceInv, PageInv, PageTyped, CommandOffered
<1>9. SelectionShown'
  <2>1. loads'[l] # Idle /\ loads'[l].caseId = loads[l].caseId
    BY <1>2, <1>6, <1>7 DEF Idle
  <2>2. \A k \in DOMAIN loads : loads[k] # Idle =>
          loads'[k] # Idle /\ loads'[k].caseId = loads[k].caseId
    BY <1>7, <2>1
  <2> QED
    BY <1>3, <1>7, <2>2 DEF WorkspaceInv, PageInv, SelectionShown
<1>10. OutcomeLoaded'
  <2>1. handler.step = "details" /\ l = "handler" =>
          /\ caseId = handler.caseId
          /\ handler.outcome \in IF handler.kind = "upload"
                                 THEN answer.documents ELSE answer.timeline
    BY <1>2, <1>6 DEF WorkspaceInv, PageInv, OutcomeLoaded, OutcomeMirrored
  <2>2. "handler" \in DOMAIN loads'
    BY <1>7
  <2>3. loads'["handler"] = IF l = "handler" THEN answer ELSE loads["handler"]
    BY <1>7, <2>2
  <2> QED
    BY <1>3, <1>6, <2>1, <2>3 DEF WorkspaceInv, PageInv, OutcomeLoaded
<1> QED
  BY <1>8, <1>9, <1>10 DEF PageInv

\* The step of a command from the queue to the details.
LEMMA QueueRefreshed ==
  ASSUME PageTyped, refreshQueue
  PROVE  /\ handler \in AnsweredCommands /\ handler' \in AnsweredCommands
         /\ handler.step = "overview" /\ handler'.step = "details"
         /\ handler'.kind = handler.kind
         /\ handler'.caseId = handler.caseId
         /\ handler'.outcome = handler.outcome
<1>1. handler.step = "overview" /\ handler' = [handler EXCEPT !.step = "details"]
  BY DEF refreshQueue
<1>2. handler \in AnsweredCommands
  BY <1>1, CommandSteps DEF PageTyped
<1> QED
  BY <1>1, <1>2 DEF AnsweredCommands

\* The queue is refreshed for a command, or the refresh fails.
LEMMA QueuePreserves == ASSUME PageInv, refreshQueue PROVE PageInv'
<1>1. PageTyped /\ SelectionShown /\ "handler" \in DOMAIN loads
  BY DEF PageInv, PageTyped
<1>2. /\ handler' \in AnsweredCommands
      /\ handler'.step = "details"
      /\ handler'.caseId = handler.caseId
      /\ handler.caseId \in CaseIds
      /\ UNCHANGED <<actor, overview>>
  BY <1>1, QueueRefreshed DEF refreshQueue, AnsweredCommands
<1>3. /\ DOMAIN DetailsAsked = {"handler"}
      /\ DetailsAsked["handler"] = Asked(handler.caseId)
      /\ Asked(handler.caseId) \in LoadTypes
  BY <1>2 DEF DetailsAsked, targetCaseId, Asked, LoadTypes
<1>4. /\ listed' \subseteq CaseIds
      /\ selectedCaseId' \in CaseIds \cup {Undefined}
      /\ loads' \in [Loads \cup {"handler"} -> LoadTypes]
      /\ loads'["handler"] = Asked(handler.caseId)
      /\ shown' \in {Nothing, shown}
      /\ ticked' \subseteq ticked
      /\ SelectionShown'
  <2>1. CASE /\ listed' = listCases
             /\ setSelectedCaseId(handler.caseId, DetailsAsked)
             /\ UNCHANGED mishap
    <3>1. listed' \subseteq CaseIds
      BY <2>1 DEF listCases
    <3> HIDE DEF DetailsAsked
    <3> QED
      BY <1>1, <1>2, <1>3, <2>1, <3>1, SelectionMoves
  <2>2. CASE /\ loads' = [loads EXCEPT !["handler"] = DetailsAsked["handler"]]
             /\ mishap' = TRUE
             /\ UNCHANGED <<listed, selectedCaseId, shown, ticked>>
    BY <1>1, <1>3, <2>2 DEF PageTyped, SelectionShown
  <2> QED
    BY <2>1, <2>2 DEF refreshQueue
<1>5. PageTyped'
  <2>1. Nothing \in ShownTypes
    BY DEF ShownTypes
  <2> QED
    BY <1>1, <1>2, <1>4, <2>1 DEF PageTyped, CommandTypes
<1>6. OutcomeLoaded'
  BY <1>2, <1>4 DEF OutcomeLoaded, Asked
<1>7. CommandOffered'
  BY <1>2 DEF CommandOffered
<1> QED
  BY <1>4, <1>5, <1>6, <1>7 DEF PageInv

\* Whatever is loaded preserves the page's invariant.
LEMMA LoadingPreserves == ASSUME WorkspaceInv, Loading PROVE PageInv'
<1>1. PageInv /\ PageTyped /\ SelectionShown
  BY DEF WorkspaceInv, PageInv
<1>2. ASSUME NEW l \in Loads, loadCaseDetails(l)
      PROVE  PageInv'
  <2>1. UNCHANGED <<actor, listed, selectedCaseId, ticked, overview, handler>>
    BY <1>2 DEF loadCaseDetails
  <2>2. /\ loads' \in [Loads \cup {"handler"} -> LoadTypes]
        /\ \A k \in (Loads \cup {"handler"}) \ {l} : loads'[k] = loads[k]
        /\ shown' \in ShownTypes
        /\ SelectionShown'
    BY <1>1, <1>2, <2>1, LoadEnds DEF loadCaseDetails
  <2>3. loads'["handler"] = loads["handler"]
    BY <2>2, WorkspaceAssumption
  <2>4. PageTyped' /\ CommandOffered'
    BY <1>1, <2>1, <2>2 DEF PageInv, PageTyped, CommandOffered
  <2>5. OutcomeLoaded'
    BY <1>1, <2>1, <2>3 DEF PageInv, OutcomeLoaded
  <2> QED
    BY <2>2, <2>4, <2>5 DEF PageInv
<1>3. CASE refreshOverview
  <2>1. PICK next \in IF overview.caseId \in listCases THEN {overview.caseId}
                      ELSE IF listCases = {} THEN {Undefined} ELSE listCases :
          setSelectedCaseId(next, <<>>)
    BY <1>3 DEF refreshOverview
  <2>2. next \in CaseIds \cup {Undefined} /\ listed' \subseteq CaseIds
    BY <1>3, <2>1 DEF refreshOverview, listCases
  <2>3. overview' \in OverviewTypes
    BY <1>3 DEF refreshOverview, OverviewTypes
  <2> QED
    BY <1>1, <1>3, <2>1, <2>2, <2>3, SelectionPreserves
    DEF refreshOverview, PageTyped
<1>4. CASE failOverview
  <2>1. /\ overview' = [step |-> "done"] /\ mishap'
        /\ UNCHANGED <<actor, listed, selectedCaseId, shown, ticked, loads, handler>>
    BY <1>4 DEF failOverview
  <2>2. PageTyped' /\ SelectionShown'
    BY <1>1, <2>1 DEF PageTyped, SelectionShown, OverviewTypes
  <2> QED
    BY <1>1, <2>1, <2>2 DEF PageInv, OutcomeLoaded, CommandOffered
<1>5. CASE refreshDetails
  <2>1. /\ handler' = Idle
        /\ ticked' \subseteq ticked
        /\ UNCHANGED <<actor, listed, selectedCaseId, overview>>
        /\ showDetails("handler") \/ failDetails("handler")
    BY <1>5 DEF refreshDetails
  <2>2. /\ loads' \in [Loads \cup {"handler"} -> LoadTypes]
        /\ shown' \in ShownTypes
        /\ SelectionShown'
    BY <1>1, <2>1, LoadEnds
  <2>3. PageTyped'
    BY <1>1, <2>1, <2>2 DEF PageTyped, CommandTypes
  <2>4. OutcomeLoaded' /\ CommandOffered'
    BY <2>1 DEF OutcomeLoaded, CommandOffered, Idle
  <2> QED
    BY <2>2, <2>3, <2>4 DEF PageInv
<1>6. ASSUME NEW l \in DOMAIN loads, answerLoad(l)
      PROVE  PageInv'
  BY <1>6, AnswerPreserves
<1>7. CASE refreshQueue
  BY <1>1, <1>7, QueuePreserves
<1> QED
  BY <1>2, <1>3, <1>4, <1>5, <1>6, <1>7 DEF Loading

\* Neither the user nor a load breaks the thread of a command.
LEMMA PageKeepsThread ==
  ASSUME WorkspaceInv, MirrorKept, User \/ Loading
  PROVE  RequestAwaited' /\ OutcomeMirrored'
<1>1. PageTyped /\ UNCHANGED requests
  BY PageReadsOnly DEF WorkspaceInv, PageInv, backendVars
<1>2. \/ UNCHANGED handler
      \/ handler'.step \in {"post", "idle"}
      \/ refreshQueue
  <2>1. CASE User
    <3>1. ASSUME NEW command, command.step = "post", Submit(command)
          PROVE  handler'.step = "post"
      BY <3>1 DEF Submit
    <3> QED
      BY <2>1, <3>1 DEF User, openPage, setWorkspaceKey, selectCase,
         setSelectedDocumentIds, handleCreateDraft, handleUploadDocument,
         handleExecuteAction
  <2>2. CASE Loading
    BY <2>2 DEF Loading, answerLoad, loadCaseDetails, refreshOverview,
       failOverview, refreshDetails, Idle
  <2> QED
    BY <2>1, <2>2
<1>3. RequestAwaited'
  <2>1. ASSUME UNCHANGED handler PROVE RequestAwaited'
    BY <1>1, <2>1, AwaitedStays DEF WorkspaceInv
  <2>2. ASSUME refreshQueue PROVE handler'.step = "details"
    BY <1>1, <2>2, QueueRefreshed
  <2> QED
    BY <1>2, <2>1, <2>2 DEF RequestAwaited
<1>4. handler'.step \in {"overview", "details"} =>
        /\ handler.step \in {"overview", "details"}
        /\ handler'.kind = handler.kind
        /\ handler'.caseId = handler.caseId
        /\ handler'.outcome = handler.outcome
  BY <1>1, <1>2, QueueRefreshed
<1>5. OutcomeMirrored'
  BY <1>1, <1>4, OutcomeStays DEF WorkspaceInv
<1> QED
  BY <1>3, <1>5

-----------------------------------------------------------------------------
(* What becomes of a command.                                              *)

\* Only the command moves, and to where nothing is checked of it again.
LEMMA CommandMoves ==
  ASSUME PageInv, UNCHANGED restOfPage, handler' \in CommandTypes,
         handler'.step \in {"idle", "sent", "overview"}
  PROVE  PageInv'
<1>1. /\ UNCHANGED <<actor, listed, selectedCaseId, shown, ticked>>
      /\ UNCHANGED <<overview, loads, mishap>>
  BY DEF restOfPage
<1>2. PageTyped'
  BY <1>1 DEF PageInv, PageTyped
<1>3. SelectionShown'
  BY <1>1 DEF PageInv, SelectionShown
<1>4. CommandOffered' /\ OutcomeLoaded'
  BY DEF CommandOffered, OutcomeLoaded
<1> QED
  BY <1>2, <1>3, <1>4 DEF PageInv

\* A command that ends leaves nothing to wait for.
LEMMA CommandEnds ==
  ASSUME PageInv, UNCHANGED restOfPage, handler' = Idle
  PROVE  PageInv' /\ RequestAwaited' /\ OutcomeMirrored'
<1>1. handler' \in CommandTypes /\ handler'.step = "idle"
  BY DEF CommandTypes, Idle
<1> QED
  BY <1>1, CommandMoves DEF RequestAwaited, OutcomeMirrored

\* A request that moves is found in its slot.
LEMMA SlotBecomes ==
  ASSUME BackendInv, NEW r \in Requests, NEW q, Become(r, q)
  PROVE  requests'[r] = q
BY DEF BackendInv, RequestsSound, Become

\* A command arrives as a request that serves it.
LEMMA ArrivalPreserves ==
  ASSUME WorkspaceInv, NEW r \in Requests, arrive(r)
  PROVE  PageInv' /\ RequestAwaited' /\ OutcomeMirrored'
<1>1. /\ handler.step = "post"
      /\ handler' = [step |-> "sent", slot |-> r, command |-> handler]
      /\ UNCHANGED restOfPage
  BY DEF arrive
<1>2. PageTyped /\ PageInv /\ BackendInv
  BY DEF WorkspaceInv, PageInv
<1>3. handler \in PostedCommands
  BY <1>1, <1>2, CommandSteps DEF PageTyped
<1>4. handler' \in CommandTypes
  BY <1>1, <1>3 DEF CommandTypes, SentCommands
<1>5. handler'.step = "sent" /\ handler'.slot = r /\ handler'.command = handler
  BY <1>1
<1>6. PageInv'
  BY <1>1, <1>2, <1>4, <1>5, CommandMoves
<1>7. Serves(requests'[r], handler)
  <2>1. ASSUME handler.kind = "draft", NEW caseId \in CaseIds, createDraft(r, caseId)
        PROVE  Serves(requests'[r], handler)
    <3>1. \E q : Become(r, q) /\ q.step = "createCase"
      BY <2>1 DEF createDraft
    <3> QED
      BY <1>2, <2>1, <3>1, SlotBecomes DEF Serves
  <2>2. ASSUME handler.kind = "upload", NEW documentId \in DocumentIds,
               readForUpload(r, handler.caseId, documentId, handler.superseded)
        PROVE  Serves(requests'[r], handler)
    <3>1. \E q : Become(r, q) /\ q.step = "storeObject" /\ q.caseId = handler.caseId
      BY <2>2 DEF readForUpload
    <3> QED
      BY <1>2, <2>2, <3>1, SlotBecomes DEF Serves, UploadSteps
  <2>3. ASSUME handler.kind = "action", readCase(r, handler.caseId)
        PROVE  Serves(requests'[r], handler)
    <3>1. \E q : Become(r, q) /\ q.step = "transitionCase"
      BY <2>3 DEF readCase
    <3> QED
      BY <1>2, <2>3, <3>1, SlotBecomes DEF Serves
  <2> QED
    BY <2>1, <2>2, <2>3 DEF arrive
<1>8. RequestAwaited' /\ OutcomeMirrored'
  BY <1>5, <1>7 DEF RequestAwaited, OutcomeMirrored
<1> QED
  BY <1>6, <1>8

\* The request a command waits for: its type, and that it serves the command.
LEMMA AwaitedRequest ==
  ASSUME WorkspaceInv, NEW r \in Requests, Awaited(r)
  PROVE  /\ handler.command \in PostedCommands
         /\ requests[r] \in RequestType
         /\ RequestSound(requests[r]) /\ MirrorsUpload(requests[r])
         /\ Serves(requests[r], handler.command)
<1>1. handler.step = "sent" /\ handler.slot = r
  BY DEF Awaited
<1>2. handler.command \in PostedCommands
  BY <1>1, CommandSteps DEF WorkspaceInv, PageInv, PageTyped
<1>3. Serves(requests[r], handler.command)
  BY <1>1 DEF WorkspaceInv, RequestAwaited
<1> QED
  BY <1>2, <1>3 DEF WorkspaceInv, BackendInv, RequestsSound, UploadsMirrored

\* A request that serves a command goes on serving it, or ends.
LEMMA RequestServes ==
  ASSUME WorkspaceInv, NEW r \in Requests, proceed(r)
  PROVE  \E q : Become(r, q) /\ (q = Idle \/ Serves(q, handler.command))
<1>1. PICK command \in PostedCommands : command = handler.command
  BY AwaitedRequest DEF proceed
<1>2. PICK p \in RequestType : p = requests[r] /\ Serves(p, command)
  BY <1>1, AwaitedRequest DEF proceed
<1>3. ASSUME command.kind = "draft", relayCreateCase(r, command.actor)
      PROVE  \E q : Become(r, q) /\ (q = Idle \/ Serves(q, command))
  <2>1. \E q : Become(r, q) /\ (q = Idle \/ q.step = "persistCaseUpdate")
    BY <1>3 DEF relayCreateCase, Answer
  <2> QED
    BY <1>3, <2>1 DEF Serves
<1>4. ASSUME command.kind = "upload", NEW documentType, NEW sha256Hash, NEW user,
             anchor(r, documentType, sha256Hash, user)
      PROVE  \E q : Become(r, q) /\ (q = Idle \/ Serves(q, command))
  <2>1. \E q : /\ Become(r, q)
               /\ \/ q = Idle
                  \/ q.step = "persistDocument" /\ q.caseId = requests[r].caseId
    BY <1>4 DEF anchor, deleteObject
  <2>2. requests[r].caseId = command.caseId
    BY <1>2, <1>4 DEF Serves
  <2> QED
    BY <1>4, <2>1, <2>2 DEF Serves, UploadSteps
<1>5. ASSUME command.kind = "action", NEW types,
             relayTransition(r, command.rule, command.actor, types,
                             command.ids, TRUE)
      PROVE  \E q : Become(r, q) /\ (q = Idle \/ Serves(q, command))
  <2>1. \E q : Become(r, q) /\ (q = Idle \/ q.step = "persistCaseUpdate")
    BY <1>5 DEF relayTransition, Answer
  <2> QED
    BY <1>5, <2>1 DEF Serves
<1>6. ASSUME relay(r, command)
      PROVE  \E q : Become(r, q) /\ (q = Idle \/ Serves(q, command))
  BY <1>3, <1>4, <1>5, <1>6 DEF relay
<1>7. ASSUME storeObject(r) \/ mirrorDocument(r)
      PROVE  \E q : Become(r, q) /\ (q = Idle \/ Serves(q, command))
  <2>1. p.step \in {"storeObject", "persistDocument"}
    BY <1>2, <1>7 DEF storeObject, mirrorDocument
  <2>2. command.kind = "upload" /\ p.caseId = command.caseId
    BY <1>2, <2>1 DEF Serves
  <2>3. \E q : /\ Become(r, q)
               /\ q.step \in {"anchor", "persistSnapshot"}
               /\ q.caseId = p.caseId
    BY <1>2, <1>7, <2>1 DEF storeObject, mirrorDocument, RequestType
  <2> QED
    BY <2>2, <2>3 DEF Serves, UploadSteps
<1>8. ASSUME \/ refuseCase(r) \/ refuseAnchor(r) \/ failStore(r)
             \/ failUpload(r) \/ failCaseUpdate(r)
      PROVE  Become(r, Idle)
  BY <1>8 DEF refuseCase, refuseAnchor, failStore, failUpload, failCaseUpdate,
     deleteObject
<1> QED
  BY <1>1, <1>6, <1>7, <1>8 DEF proceed

\* The page goes on waiting for its request, or is told of an error.
LEMMA ProceedingPreserves ==
  ASSUME WorkspaceInv, NEW r \in Requests, proceed(r)
  PROVE  PageInv' /\ RequestAwaited' /\ OutcomeMirrored'
<1>1. /\ handler.step = "sent" /\ handler.slot = r
      /\ UNCHANGED restOfPage
      /\ PageInv /\ BackendInv
  BY DEF proceed, Awaited, WorkspaceInv
<1>2. CASE requests'[r] = Idle
  BY <1>1, <1>2, CommandEnds DEF proceed, handleError
<1>3. CASE requests'[r] # Idle
  <2>1. UNCHANGED handler /\ handler \in CommandTypes
    BY <1>1, <1>3 DEF proceed, PageInv, PageTyped
  <2>2. PageInv'
    BY <1>1, <2>1, CommandMoves
  <2>3. Serves(requests'[r], handler.command)
    BY <1>1, <1>3, RequestServes, SlotBecomes
  <2> QED
    BY <1>1, <2>1, <2>2, <2>3 DEF RequestAwaited, OutcomeMirrored
<1> QED
  BY <1>2, <1>3

\* What a command is answered has just been mirrored.
LEMMA AnsweringPreserves ==
  ASSUME WorkspaceInv, NEW r \in Requests, succeed(r)
  PROVE  PageInv' /\ RequestAwaited' /\ OutcomeMirrored'
<1>1. PICK command \in PostedCommands : command = handler.command
  BY AwaitedRequest DEF succeed
<1>2. PICK q \in RequestType :
        q = requests[r] /\ RequestSound(q) /\ MirrorsUpload(q) /\ Serves(q, command)
  BY <1>1, AwaitedRequest DEF succeed
<1>3. /\ UNCHANGED restOfPage
      /\ mirrorCaseUpdate(r) \/ mirrorSnapshot(r)
      /\ handler' = [step |-> "overview", kind |-> command.kind,
           caseId |-> IF command.kind = "upload" THEN command.caseId ELSE q.caseId,
           outcome |-> IF command.kind = "upload" THEN q.documentId ELSE q.event]
      /\ PageInv /\ BackendInv
  BY <1>1, <1>2 DEF succeed, WorkspaceInv
<1>4. command.kind \in {"draft", "upload", "action"}
  BY PostedFields
<1>5. /\ handler' \in AnsweredCommands
      /\ (handler.outcome \in IF handler.kind = "upload"
                              THEN listCaseDocuments(handler.caseId)
                              ELSE reconstructAuditTimeline(handler.caseId))'
  <2>1. CASE mirrorCaseUpdate(r)
    <3>1. q.step = "persistCaseUpdate" /\ command.kind # "upload"
      BY <1>2, <2>1 DEF mirrorCaseUpdate, Serves, UploadSteps
    <3>2. q.caseId \in CaseIds /\ q.event \in WorkflowEvent
      BY <3>1, RequestFields
    <3>3. q.event \in mirrorEvents' /\ q.event.caseId = q.caseId
      BY <1>2, <1>3, <2>1, <3>1, EventsStayMirrored
      DEF RequestSound, AnswerSound, Trail
    <3>4. handler' = [step |-> "overview", kind |-> command.kind,
                      caseId |-> q.caseId, outcome |-> q.event]
      BY <1>3, <3>1
    <3>5. handler' \in AnsweredCommands
      BY <1>4, <3>2, <3>4 DEF AnsweredCommands
    <3> QED
      BY <3>1, <3>3, <3>4, <3>5 DEF reconstructAuditTimeline
  <2>2. CASE mirrorSnapshot(r)
    <3>1. q.step = "persistSnapshot"
      BY <1>2, <2>2 DEF mirrorSnapshot
    <3>2. command.kind = "upload" /\ q.caseId = command.caseId
      BY <1>2, <3>1 DEF Serves
    <3>3. q.caseId \in CaseIds /\ q.documentId \in DocumentIds
      BY <3>1, RequestFields
    <3>4. q.documentId \in listCaseDocuments(q.caseId)
      BY <1>2, <3>1 DEF MirrorsUpload
    <3>5. UNCHANGED mirrorDocuments
      BY <2>2 DEF mirrorSnapshot, persistCaseSnapshot
    <3>6. handler' = [step |-> "overview", kind |-> command.kind,
                      caseId |-> q.caseId, outcome |-> q.documentId]
      BY <1>3, <3>2
    <3>7. handler' \in AnsweredCommands
      BY <1>4, <3>3, <3>6 DEF AnsweredCommands
    <3> QED
      BY <3>2, <3>4, <3>5, <3>6, <3>7 DEF listCaseDocuments
  <2> QED
    BY <1>3, <2>1, <2>2
<1>6. handler'.step = "overview" /\ handler' \in CommandTypes
  BY <1>3, <1>5 DEF CommandTypes
<1>7. PageInv'
  BY <1>3, <1>6, CommandMoves
<1> QED
  BY <1>5, <1>6, <1>7 DEF RequestAwaited, OutcomeMirrored

\* Whatever the backend does for the page or for others, or when it fails.
LEMMA ServingPreserves ==
  ASSUME WorkspaceInv, MirrorKept, Serving
  PROVE  PageInv' /\ RequestAwaited' /\ OutcomeMirrored'
<1>1. PageInv /\ PageTyped /\ BackendInv /\ RequestAwaited /\ OutcomeMirrored
  BY DEF WorkspaceInv, PageInv
<1>2. ASSUME NEW r \in Requests, elsewhere(r)
      PROVE  PageInv' /\ RequestAwaited' /\ OutcomeMirrored'
  <2>1. /\ ~Awaited(r) /\ UNCHANGED pageVars
        /\ CaseRequest(r) \/ UploadRequest(r)
    BY <1>2 DEF elsewhere
  <2>2. UNCHANGED handler
    BY <2>1 DEF pageVars
  <2>3. PageInv'
    BY <1>1, <2>1, PageStays
  <2>4. \E q : Become(r, q)
    BY <1>1, <2>1, OneRequestMoves
  <2>5. RequestAwaited'
    BY <1>1, <2>1, <2>2, <2>4, AwaitedStays
  <2>6. OutcomeMirrored'
    BY <1>1, <2>2, OutcomeStays
  <2> QED
    BY <2>3, <2>5, <2>6
<1>3. CASE disconnect
  BY <1>1, <1>3, CommandEnds DEF disconnect, handleError
<1>4. CASE backendStops
  <2>1. CASE handler.step = "sent"
    BY <1>1, <1>4, <2>1, CommandEnds DEF backendStops, handleError
  <2>2. CASE handler.step # "sent"
    <3>1. UNCHANGED handler /\ UNCHANGED pageVars
      BY <1>4, <2>2 DEF backendStops, pageVars, restOfPage
    <3>2. PageInv'
      BY <1>1, <3>1, PageStays
    <3>3. RequestAwaited'
      BY <2>2, <3>1 DEF RequestAwaited
    <3>4. OutcomeMirrored'
      BY <1>1, <3>1, OutcomeStays
    <3> QED
      BY <3>2, <3>3, <3>4
  <2> QED
    BY <2>1, <2>2
<1> QED
  BY <1>2, <1>3, <1>4, ArrivalPreserves, ProceedingPreserves, AnsweringPreserves
  DEF Serving

-----------------------------------------------------------------------------
(* The invariant and the theorems.                                         *)

\* The page as it is opened, on a backend that starts.
LEMMA OpenedInv == WorkspaceInit => WorkspaceInv
<1> SUFFICES ASSUME WorkspaceInit PROVE WorkspaceInv
  OBVIOUS
<1>1. BackendInv /\ BackendInit
  BY BackendInvInit DEF WorkspaceInit
<1>2. UploadsMirrored
  BY <1>1 DEF BackendInit, UploadsMirrored, MirrorsUpload, Idle
<1>3. RequestAwaited /\ OutcomeMirrored
  BY DEF WorkspaceInit, RequestAwaited, OutcomeMirrored, Idle
<1>4. buildActor("applicant_case_manager") \in Profiles
  BY WorkspaceAssumption DEF Profiles
<1>5. PageTyped
  BY <1>4 DEF WorkspaceInit, PageTyped, LoadTypes, ShownTypes, OverviewTypes,
     CommandTypes
<1>6. SelectionShown
  BY DEF WorkspaceInit, SelectionShown, Nothing
<1>7. OutcomeLoaded /\ CommandOffered
  BY DEF WorkspaceInit, OutcomeLoaded, CommandOffered, Idle
<1> QED
  BY <1>1, <1>2, <1>3, <1>5, <1>6, <1>7 DEF WorkspaceInv, PageInv

\* Every step of the page, of its commands and of others preserves it.
LEMMA WorkspaceInvNext ==
  WorkspaceInv /\ [WorkspaceNext]_workspaceVars => WorkspaceInv'
<1> SUFFICES ASSUME WorkspaceInv, [WorkspaceNext]_workspaceVars
             PROVE  WorkspaceInv'
  OBVIOUS
<1>1. PageInv /\ PageTyped /\ BackendInv /\ RequestAwaited /\ OutcomeMirrored
  BY DEF WorkspaceInv, PageInv
<1>2. [BackendNext]_backendVars
  BY <1>1, PageIsClient
<1>3. BackendInv' /\ MirrorKept /\ UploadsMirrored'
  BY <1>1, <1>2, BackendInvNext, MirrorStays, UploadsStayMirrored DEF WorkspaceInv
<1>4. PageInv' /\ RequestAwaited' /\ OutcomeMirrored'
  <2>1. CASE User
    BY <1>1, <1>3, <2>1, UserPreserves, PageKeepsThread
  <2>2. CASE Loading
    BY <1>3, <2>2, LoadingPreserves, PageKeepsThread
  <2>3. CASE Serving
    BY <1>3, <2>3, ServingPreserves
  <2>4. CASE UNCHANGED workspaceVars
    <3>1. UNCHANGED pageVars /\ UNCHANGED handler /\ UNCHANGED requests
      BY <2>4 DEF workspaceVars, pageVars, backendVars
    <3> QED
      BY <1>1, <1>3, <3>1, PageStays, AwaitedStays, OutcomeStays
  <2> QED
    BY <2>1, <2>2, <2>3, <2>4 DEF WorkspaceNext
<1> QED
  BY <1>3, <1>4 DEF WorkspaceInv

\* It holds as long as the page is open.
LEMMA WorkspaceInvariance == WorkspaceSpec => []WorkspaceInv
BY OpenedInv, WorkspaceInvNext, PTL DEF WorkspaceSpec

\* The screen catches up with the selection, whatever moves it, unless a load
\* fails or loads cross (setSelectedCaseId, loadCaseDetails).
THEOREM SelectionCorrect == WorkspaceSpec => []SelectionShown
<1>1. WorkspaceInv => SelectionShown
  BY DEF WorkspaceInv, PageInv
<1> QED
  BY <1>1, WorkspaceInvariance, PTL

\* What a step shows that reports a success.
LEMMA OutcomeShown ==
  ASSUME WorkspaceInv, WorkspaceNext,
         handler.step = "details", handler'.step = "idle", backendReady'
  PROVE  /\ shown'.caseId = handler.caseId
         /\ handler.outcome \in IF handler.kind = "upload" THEN shown'.documents
                                ELSE shown'.timeline
<1>1. handler' # handler /\ isBusy
  BY DEF isBusy, Idle
<1>2. ~User
  BY <1>1 DEF User, openPage, setWorkspaceKey, selectCase, setSelectedDocumentIds,
              handleCreateDraft, handleUploadDocument, handleExecuteAction, Submit
<1>3. ~Serving
  <2>1. ASSUME NEW r \in Requests, elsewhere(r) PROVE FALSE
    BY <1>1, <2>1 DEF elsewhere, pageVars
  <2>2. ASSUME NEW r \in Requests, arrive(r) \/ proceed(r) \/ succeed(r)
        PROVE FALSE
    BY <2>2 DEF arrive, proceed, succeed, Awaited
  <2>3. ~disconnect /\ ~backendStops
    BY <1>1 DEF disconnect, backendStops
  <2> QED
    BY <2>1, <2>2, <2>3 DEF Serving
<1>4. refreshDetails
  BY <1>1, <1>2, <1>3
  DEF WorkspaceNext, Loading, answerLoad, loadCaseDetails, refreshOverview,
      failOverview, refreshQueue
<1>5. showDetails("handler")
  BY <1>4 DEF refreshDetails, failDetails
<1> QED
  BY <1>5 DEF showDetails, WorkspaceInv, PageInv, OutcomeLoaded

\* A success that is reported with the banner green shows its case with the
\* event or document it was answered, although the load reads the mirror and
\* other requests overlap (refreshAll, cases.service.ts, persistEvent).
THEOREM SuccessCorrect == WorkspaceSpec => SuccessShown
<1>1. WorkspaceInv /\ [WorkspaceNext]_workspaceVars =>
        [handler.step = "details" /\ handler'.step = "idle" =>
           \/ ~backendReady'
           \/ /\ shown'.caseId = handler.caseId
              /\ handler.outcome \in
                   IF handler.kind = "upload" THEN shown'.documents
                   ELSE shown'.timeline
        ]_workspaceVars
  BY OutcomeShown
<1> QED
  BY <1>1, WorkspaceInvariance, PTL DEF WorkspaceSpec, SuccessShown

-----------------------------------------------------------------------------
(* Authority. *)

\* Everywhere else the table and the matrix agree (TRANSITIONS,
\* ROLE_PERMISSION_MATRIX).
LEMMA TableMatchesMatrix ==
  ASSUME NEW rule \in TRANSITIONS, NEW role \in rule.allowedRoles
  PROVE  rule.action \in AllowedActions[role]
           <=> <<role, rule.action>> \notin UnmatchedOffers
<1> USE DEF Rule, AllowedActions, UnmatchedOffers, ApplicantRoles, ReviewerRoles,
            NationalRoles
<1>1. CASE rule = SubmitCaseRule
  BY <1>1 DEF SubmitCaseRule
<1>2. CASE rule = RecordDomesticReviewRule
  BY <1>2 DEF RecordDomesticReviewRule
<1>3. CASE rule = RequestMoreInformationRule
  BY <1>3 DEF RequestMoreInformationRule
<1>4. CASE rule = RespondToInformationRequestRule
  BY <1>4 DEF RespondToInformationRequestRule
<1>5. CASE rule = ForwardToCoordinationRule
  BY <1>5 DEF ForwardToCoordinationRule
<1>6. CASE rule = ForwardToForeignAuthorityRule
  BY <1>6 DEF ForwardToForeignAuthorityRule
<1>7. CASE rule = RecordForeignReviewRule
  BY <1>7 DEF RecordForeignReviewRule
<1>8. CASE rule = ApproveCaseRule
  BY <1>8 DEF ApproveCaseRule
<1>9. CASE rule = RejectCaseRule
  BY <1>9 DEF RejectCaseRule
<1>10. CASE rule = InitiateNonSubstantiveAmendmentRule
  BY <1>10 DEF InitiateNonSubstantiveAmendmentRule
<1>11. CASE rule = InitiateSubstantiveAmendmentRule
  BY <1>11 DEF InitiateSubstantiveAmendmentRule
<1>12. CASE rule = IssueAssuranceRule
  BY <1>12 DEF IssueAssuranceRule
<1>13. CASE rule = AmendAssuranceRule
  BY <1>13 DEF AmendAssuranceRule
<1>14. CASE rule = RejectAmendmentRule
  BY <1>14 DEF RejectAmendmentRule
<1>15. CASE rule = RevokeAssuranceRule
  BY <1>15 DEF RevokeAssuranceRule
<1>16. CASE rule = CloseCaseRule
  BY <1>16 DEF CloseCaseRule
<1> QED BY <1>1, <1>2, <1>3, <1>4, <1>5, <1>6, <1>7, <1>8, <1>9, <1>10,
           <1>11, <1>12, <1>13, <1>14, <1>15, <1>16
  DEF TRANSITIONS

\* The two contracts tell who is in good standing alike.
LEMMA SameStanding ==
  ASSUME NEW user \in UserClaims
  PROVE  Documents!ActorInGoodStanding(user) <=> ActorInGoodStanding(user)
BY DEF Documents!ActorInGoodStanding, ActorInGoodStanding,
       Documents!OrganizationOf, OrganizationOf

\* What the page offers is authorised exactly where it does not overreach.
LEMMA OfferedIsAuthorised == ASSUME PageInv PROVE SubmissionsAuthorised
<1> SUFFICES ASSUME handler.step = "post"
             PROVE  Authorised(handler) <=> ~Overreach(handler)
  BY DEF SubmissionsAuthorised
<1>1. PICK command \in PostedCommands : command = handler
  BY CommandSteps DEF PageInv, PageTyped
<1>2. /\ command.actor \in Profiles
      /\ command.kind \in {"draft", "upload", "action"}
  BY PostedFields
<1>3. /\ command.actor \in UserClaims
      /\ ActorInGoodStanding(command.actor)
  BY <1>2, ProfileClaims
<1>4. ASSUME command.kind = "draft"
      PROVE  Authorised(command) /\ ~Overreach(command)
  <2>1. assertCreateCaseAllowed(command.actor)
    BY <1>1, <1>3, <1>4 DEF PageInv, CommandOffered, isCreateCaseAllowed,
                            assertCreateCaseAllowed
  <2> QED
    BY <1>4, <2>1 DEF Authorised, Overreach
<1>5. ASSUME command.kind = "upload"
      PROVE  Authorised(command) <=> ~Overreach(command)
  <2>1. command.actor.role # "auditor"
    BY <1>1, <1>2, <1>5, ProfileClaims DEF PageInv, CommandOffered, isUploadAllowed
  <2>2. Documents!ActorInGoodStanding(command.actor)
    BY <1>3, SameStanding
  <2>3. Authorised(command) <=>
          Documents!assertDocumentMutationAllowed(command.actor, command.documentType)
    BY <1>5 DEF Authorised
  <2> QED
    BY <1>5, <2>1, <2>2, <2>3
    DEF Overreach, Documents!assertDocumentMutationAllowed
<1>6. ASSUME command.kind = "action"
      PROVE  Authorised(command) <=> ~Overreach(command)
  <2>1. /\ command.rule \in TRANSITIONS
        /\ command.actor.role \in command.rule.allowedRoles
        /\ command.actor.organizationType
             \in command.rule.allowedOrganizationTypes
    BY <1>1, <1>6, PostedFields DEF PageInv, CommandOffered
  <2>2. command.rule.action \in AllowedActions[command.actor.role]
          <=> <<command.actor.role, command.rule.action>> \notin UnmatchedOffers
    BY <2>1, TableMatchesMatrix
  <2>3. Authorised(command) <=> ActorAllowed(command.rule, command.actor)
    BY <1>6 DEF Authorised
  <2> QED
    BY <1>3, <1>6, <2>1, <2>2, <2>3 DEF Overreach, ActorAllowed
<1> QED
  BY <1>1, <1>2, <1>4, <1>5, <1>6

\* Whatever is stale on the screen, a command exceeds its role's authority in
\* exactly the cases that Overreach names (getAvailableTransitions,
\* isCreateCaseAllowed, isUploadAllowed).
THEOREM SubmissionsCorrect == WorkspaceSpec => []SubmissionsAuthorised
<1>1. WorkspaceInv => SubmissionsAuthorised
  BY OfferedIsAuthorised DEF WorkspaceInv
<1> QED
  BY <1>1, WorkspaceInvariance, PTL

\* So a workspace without these two roles submits no draft and no action that
\* its role has no authority for (getAvailableTransitions).
THEOREM MatchedRolesAuthorised ==
  WorkspaceRoles \cap {"coordination_officer", "admin"} = {} /\ WorkspaceSpec
    => [](handler.step = "post" /\ handler.kind # "upload" => Authorised(handler))
<1> DEFINE Matched == WorkspaceRoles \cap {"coordination_officer", "admin"} = {}
           MatchedInv == Matched /\ WorkspaceInv
           Authority ==
             handler.step = "post" /\ handler.kind # "upload" => Authorised(handler)
<1>1. Matched /\ WorkspaceInit => MatchedInv
  BY OpenedInv
<1>2. MatchedInv /\ [WorkspaceNext]_workspaceVars => MatchedInv'
  BY WorkspaceInvNext
<1>3. MatchedInv => Authority
  <2> SUFFICES ASSUME MatchedInv, handler.step = "post", handler.kind # "upload"
               PROVE  Authorised(handler)
    OBVIOUS
  <2>1. handler \in PostedCommands
    BY CommandSteps DEF WorkspaceInv, PageInv, PageTyped
  <2>2. handler.actor.role \in WorkspaceRoles
    BY <2>1, PostedFields, ProfileClaims
  <2>3. ~Overreach(handler)
    BY <2>2 DEF Overreach, UnmatchedOffers
  <2> QED
    BY <2>3, OfferedIsAuthorised DEF WorkspaceInv, SubmissionsAuthorised
<1> QED
  <2> HIDE DEF MatchedInv
  <2> QED
    BY <1>1, <1>2, <1>3, PTL DEF WorkspaceSpec

-----------------------------------------------------------------------------
(* The backend and the ledger under the page. *)

\* Whatever is submitted from a stale screen, and whenever the page stops
\* waiting, it does to the backend what any client might.  So the mirror under
\* it only ever shows what the ledger held, the ledger's records and trails stay
\* in order, and nothing that was recorded is rewritten or removed
\* (handleCreateDraft, handleUploadDocument, handleExecuteAction).
THEOREM WorkspaceIsClient ==
  WorkspaceSpec =>
    /\ BackendSpec
    /\ [](MirrorShowsPast /\ MirrorDocumentsSound)
    /\ [](VersionCountsInstruments /\ EveryInstrumentReviewed)
    /\ TrailAppendOnly /\ ReferencesImmutable
<1>1. WorkspaceInit => BackendInit
  BY DEF WorkspaceInit
<1>2. WorkspaceInv /\ [WorkspaceNext]_workspaceVars => [BackendNext]_backendVars
  BY PageIsClient DEF WorkspaceInv, PageInv
<1>3. WorkspaceSpec => BackendSpec
  BY <1>1, <1>2, WorkspaceInvariance, PTL DEF WorkspaceSpec, BackendSpec
<1> QED
  BY <1>3, BackendIsClient, BackendInstrumentsReviewed, MirrorHistoryCorrect,
     MirrorDocumentsCorrect, LedgerNeverRewrites, PTL

=============================================================================
