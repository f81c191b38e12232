----------------------------- MODULE Workspace ------------------------------
(***************************************************************************)
(* One browser with the workspace open (AppProfessional.tsx), in front of  *)
(* the backend that other people use as well.  The page reads what the     *)
(* mirror shows; its commands are requests of the backend, which may fail, *)
(* outlive the page's interest in them, or overlap with those of others.   *)
(*                                                                         *)
(*   actor           the claims of the role the user has chosen            *)
(*   listed          the cases in the queue                                *)
(*   selectedCaseId  the case commands are sent to                         *)
(*   shown           the details on the screen, of the case they are of    *)
(*   ticked          selectedDocumentIds, sent along with an action        *)
(*   backendReady    whether the banner says that the backend is connected *)
(*   overview        the load of the queue that opening the page starts    *)
(*   loads           the loads of details in flight, by slot               *)
(*   handler         the command being carried out; isBusy while there is  *)
(*                   one                                                   *)
(*   mishap          history: since the selected case was last loaded, a   *)
(*                   load has failed or that of another case came in       *)
(*                                                                         *)
(* React applies the setters of an answer and runs the effects they        *)
(* trigger before the next event, so a handler and its effects are one     *)
(* step.  Forms, filters, screens and verification change none of this.    *)
(***************************************************************************)
EXTENDS Backend

CONSTANTS
  Loads,           \* slots for the loads that a change of selection starts
  WorkspaceRoles   \* the roles of the workspace profiles

\* WORKSPACE_PROFILES: each role acts for its own organisation.
buildActor(role) ==
  [role |-> role, organizationType |-> OrganizationOf[role], activeFlag |-> TRUE]

Profiles == {buildActor(role) : role \in WorkspaceRoles}

ASSUME WorkspaceAssumption ==
  /\ Loads \cap {"handler"} = {}
  /\ WorkspaceRoles \subseteq UserRoles
  /\ "applicant_case_manager" \in WorkspaceRoles
  /\ Profiles \subseteq Actors

VARIABLES
  actor, listed, selectedCaseId, shown, ticked, backendReady,
  overview, loads, handler, mishap

pageVars ==
  <<actor, listed, selectedCaseId, shown, ticked, backendReady,
    overview, loads, handler, mishap>>

workspaceVars == <<backendVars, pageVars>>

isBusy == handler # Idle

Nothing == [caseId |-> Undefined, documents |-> {}, timeline |-> {}]

-----------------------------------------------------------------------------
(* What a role is offered. *)

\* Mutant: the states are matched, the role is not.
getAvailableTransitions_AnyRole(details, user) ==
  {rule \in TRANSITIONS :
     /\ details # Nothing
     /\ details.caseRecord.currentState \in rule.from}

getAvailableTransitions(details, user) ==
  {rule \in TRANSITIONS :
     /\ details # Nothing
     /\ details.caseRecord.currentState \in rule.from
     /\ user.role \in rule.allowedRoles
     /\ user.organizationType \in rule.allowedOrganizationTypes}

isCreateCaseAllowed(user) == "create_case" \in AllowedActions[user.role]
isUploadAllowed(user) == user.organizationType # "auditor_body"

-----------------------------------------------------------------------------
(* Selecting and loading. *)

Asked(caseId) == [step |-> "asked", caseId |-> caseId]

\* Mutant: nothing is loaded while another load is in flight.
loadsAfterSelecting_OneAtATime(caseId, started) ==
  LET after(new) ==
        [l \in DOMAIN loads |->
           IF l \in DOMAIN started THEN started[l]
           ELSE IF l \in new THEN Asked(caseId)
           ELSE loads[l]]
  IN IF \/ caseId \in {selectedCaseId, Undefined}
        \/ \E l \in Loads : loads[l] # Idle
     THEN {after({})}
     ELSE {after({l}) : l \in {k \in Loads : loads[k] = Idle}}

\* The effect on selectedCaseId: a new selection loads its details.
loadsAfterSelecting(caseId, started) ==
  LET after(new) ==
        [l \in DOMAIN loads |->
           IF l \in DOMAIN started THEN started[l]
           ELSE IF l \in new THEN Asked(caseId)
           ELSE loads[l]]
  IN IF caseId \in {selectedCaseId, Undefined} THEN {after({})}
     ELSE {after({l}) : l \in {k \in Loads : loads[k] = Idle}}

\* setSelectedCaseId, next to the loads that the caller starts itself.
setSelectedCaseId(caseId, started) ==
  /\ selectedCaseId' = caseId
  /\ loads' \in loadsAfterSelecting(caseId, started)
  /\ IF caseId = Undefined /\ selectedCaseId # Undefined
     THEN shown' = Nothing /\ ticked' = {}
     ELSE UNCHANGED <<shown, ticked>>

listCases == {caseId \in CaseIds : Mirrored(caseId)}

listCaseDocuments(caseId) ==
  {d \in DocumentIds :
     mirrorDocuments[d] # NoDocument /\ mirrorDocuments[d].caseId = caseId}

reconstructAuditTimeline(caseId) == {e \in mirrorEvents : e.caseId = caseId}

\* Record, documents and timeline are read from the mirror.  They are three
\* reads of the code: one step, because no property compares the parts.
answerLoad(l) ==
  /\ loads[l].step = "asked"
  /\ Mirrored(loads[l].caseId)
  /\ loads' = [loads EXCEPT ![l] =
       [step |-> "answered", caseId |-> loads[l].caseId,
        caseRecord |-> mirrorCases[loads[l].caseId],
        documents |-> listCaseDocuments(loads[l].caseId),
        timeline |-> reconstructAuditTimeline(loads[l].caseId)]]
  /\ UNCHANGED <<backendVars, actor, listed, selectedCaseId, shown, ticked,
                 backendReady, overview, handler, mishap>>

\* The answer is shown, whichever case is selected when it arrives.
showDetails(l) ==
  /\ loads[l].step = "answered"
  /\ shown' = [caseId |-> loads[l].caseId, caseRecord |-> loads[l].caseRecord,
               documents |-> loads[l].documents, timeline |-> loads[l].timeline]
  /\ loads' = [loads EXCEPT ![l] = Idle]
  /\ backendReady' = TRUE
  /\ mishap' = (loads[l].caseId # selectedCaseId)

failDetails(l) ==
  /\ loads[l] # Idle
  /\ loads' = [loads EXCEPT ![l] = Idle]
  /\ backendReady' = FALSE
  /\ mishap' = TRUE
  /\ UNCHANGED shown

loadCaseDetails(l) ==
  /\ showDetails(l) \/ failDetails(l)
  /\ UNCHANGED <<backendVars, actor, listed, selectedCaseId, ticked, overview,
                 handler>>

\* The page is opened, at a case or not: the queue and the case are loaded.
openPage(role, caseId) ==
  /\ overview = Idle
  /\ overview' = Asked(caseId)
  /\ actor' = buildActor(role)
  /\ setSelectedCaseId(caseId, <<>>)
  /\ UNCHANGED <<backendVars, listed, backendReady, handler, mishap>>

\* refreshOverview without a preference: the selection that was captured when
\* the page was opened, if it is still there, or the first case of the queue.
refreshOverview ==
  /\ overview.step = "asked"
  /\ overview' = [step |-> "done"]
  /\ listed' = listCases
  /\ \E next \in IF overview.caseId \in listCases THEN {overview.caseId}
                 ELSE IF listCases = {} THEN {Undefined} ELSE listCases :
       setSelectedCaseId(next, <<>>)
  /\ backendReady' = TRUE
  /\ UNCHANGED <<backendVars, actor, handler, mishap>>

failOverview ==
  /\ overview.step = "asked"
  /\ overview' = [step |-> "done"]
  /\ backendReady' = FALSE
  /\ mishap' = TRUE
  /\ UNCHANGED <<backendVars, actor, listed, selectedCaseId, shown, ticked,
                 loads, handler>>

-----------------------------------------------------------------------------
(* What the user does. *)

selectCase(caseId) ==
  /\ caseId \in listed \ {selectedCaseId}
  /\ setSelectedCaseId(caseId, <<>>)
  /\ UNCHANGED <<backendVars, actor, listed, backendReady, overview, handler,
                 mishap>>

setWorkspaceKey(role) ==
  /\ overview # Idle
  /\ actor # buildActor(role)
  /\ actor' = buildActor(role)
  /\ ticked' = {}
  /\ UNCHANGED <<backendVars, listed, selectedCaseId, shown, backendReady,
                 overview, loads, handler, mishap>>

setSelectedDocumentIds(documentId) ==
  /\ documentId \in shown.documents
  /\ ticked' = IF documentId \in ticked THEN ticked \ {documentId}
               ELSE ticked \cup {documentId}
  /\ UNCHANGED <<backendVars, actor, listed, selectedCaseId, shown,
                 backendReady, overview, loads, handler, mishap>>

Submit(command) ==
  /\ overview # Idle /\ ~isBusy
  /\ handler' = command
  /\ UNCHANGED <<backendVars, actor, listed, selectedCaseId, shown, ticked,
                 backendReady, overview, loads, mishap>>

handleCreateDraft ==
  /\ isCreateCaseAllowed(actor)
  /\ Submit([step |-> "post", kind |-> "draft", actor |-> actor])

\* Any document may be named as the one to supersede.
handleUploadDocument(documentType, superseded) ==
  /\ selectedCaseId # Undefined /\ shown # Nothing
  /\ isUploadAllowed(actor)
  /\ Submit([step |-> "post", kind |-> "upload", actor |-> actor,
             caseId |-> selectedCaseId, documentType |-> documentType,
             superseded |-> superseded])

\* The action offered for the case on the screen, sent to the case selected.
handleExecuteAction(rule) ==
  /\ selectedCaseId # Undefined
  /\ Submit([step |-> "post", kind |-> "action", actor |-> actor,
             caseId |-> selectedCaseId, rule |-> rule, ids |-> ticked])

-----------------------------------------------------------------------------
(* What becomes of a command. *)

handleError ==
  /\ handler' = Idle
  /\ backendReady' = FALSE

Awaited(r) == handler.step = "sent" /\ handler.slot = r

restOfPage ==
  <<actor, listed, selectedCaseId, shown, ticked, overview, loads, mishap>>

\* The command arrives as a request of the backend.
arrive(r) ==
  /\ handler.step = "post"
  /\ \/ /\ handler.kind = "draft"
        /\ \E caseId \in CaseIds : createDraft(r, caseId)
     \/ /\ handler.kind = "upload"
        /\ \E documentId \in DocumentIds :
             readForUpload(r, handler.caseId, documentId, handler.superseded)
     \/ /\ handler.kind = "action"
        /\ readCase(r, handler.caseId)
  /\ handler' = [step |-> "sent", slot |-> r, command |-> handler]
  /\ UNCHANGED <<restOfPage, backendReady>>

\* What the command asks for.  The types of the documents that were ticked are
\* left to the mirror.
relay(r, command) ==
  \/ /\ command.kind = "draft"
     /\ relayCreateCase(r, command.actor)
  \/ /\ command.kind = "upload"
     /\ \E sha256Hash \in Hashes :
          anchor(r, command.documentType, sha256Hash, command.actor)
  \/ /\ command.kind = "action"
     /\ Derivable(command.ids)
     /\ relayTransition(r, command.rule, command.actor,
          deriveDocumentTypes(command.ids), command.ids, TRUE)

\* The request goes on, or ends with an error.
proceed(r) ==
  /\ Awaited(r)
  /\ \/ relay(r, handler.command)
     \/ storeObject(r) \/ mirrorDocument(r)
     \/ refuseCase(r) \/ refuseAnchor(r)
     \/ failStore(r) \/ failUpload(r) \/ failCaseUpdate(r)
  /\ IF requests'[r] = Idle THEN handleError
     ELSE UNCHANGED <<handler, backendReady>>
  /\ UNCHANGED restOfPage

\* The request has written all of it to the mirror and is answered.
succeed(r) ==
  /\ Awaited(r)
  /\ mirrorCaseUpdate(r) \/ mirrorSnapshot(r)
  /\ handler' =
       LET command == handler.command
           upload == command.kind = "upload"
       IN [step |-> "overview", kind |-> command.kind,
           caseId |-> IF upload THEN command.caseId ELSE requests[r].caseId,
           outcome |-> IF upload THEN requests[r].documentId
                       ELSE requests[r].event]
  /\ UNCHANGED <<restOfPage, backendReady>>

\* The backend refuses the command at once, or the connection fails, before or
\* after the command has arrived: a request that has is carried on without the
\* page.
disconnect ==
  /\ handler.step \in {"post", "sent"}
  /\ handleError
  /\ UNCHANGED <<backendVars, restOfPage>>

-----------------------------------------------------------------------------
(* refreshAll: the queue, then the details, whether or not the queue loaded. *)

\* Mutant: the details of the case that was selected are refreshed.
targetCaseId_Selected(command) ==
  IF selectedCaseId = Undefined THEN command.caseId ELSE selectedCaseId

targetCaseId(command) == command.caseId

DetailsAsked == [l \in {"handler"} |-> Asked(targetCaseId(handler))]

refreshQueue ==
  /\ handler.step = "overview"
  /\ handler' = [handler EXCEPT !.step = "details"]
  /\ \/ /\ listed' = listCases
        /\ setSelectedCaseId(handler.caseId, DetailsAsked)
        /\ backendReady' = TRUE
        /\ UNCHANGED mishap
     \/ /\ loads' = [loads EXCEPT !["handler"] = DetailsAsked["handler"]]
        /\ backendReady' = FALSE
        /\ mishap' = TRUE
        /\ UNCHANGED <<listed, selectedCaseId, shown, ticked>>
  /\ UNCHANGED <<backendVars, actor, overview>>

\* Success is reported whether or not the details were loaded.
refreshDetails ==
  /\ handler.step = "details"
  /\ showDetails("handler") \/ failDetails("handler")
  /\ ticked' = IF handler.kind = "action" THEN {} ELSE ticked
  /\ handler' = Idle
  /\ UNCHANGED <<backendVars, actor, listed, selectedCaseId, overview>>

-----------------------------------------------------------------------------
(* Other people's requests, and those the page has given up on. *)

elsewhere(r) ==
  /\ ~Awaited(r)
  /\ CaseRequest(r) \/ UploadRequest(r)
  /\ UNCHANGED pageVars

backendStops ==
  /\ crash
  /\ IF handler.step = "sent" THEN handleError
     ELSE UNCHANGED <<handler, backendReady>>
  /\ UNCHANGED restOfPage

-----------------------------------------------------------------------------
WorkspaceInit ==
  /\ BackendInit
  /\ actor = buildActor("applicant_case_manager")
  /\ listed = {}
  /\ selectedCaseId = Undefined
  /\ shown = Nothing
  /\ ticked = {}
  /\ backendReady = TRUE
  /\ overview = Idle
  /\ loads = [l \in Loads \cup {"handler"} |-> Idle]
  /\ handler = Idle
  /\ mishap = FALSE

User ==
  \/ \E role \in WorkspaceRoles :
       \/ \E caseId \in CaseIds \cup {Undefined} : openPage(role, caseId)
       \/ setWorkspaceKey(role)
  \/ \E caseId \in CaseIds : selectCase(caseId)
  \/ \E documentId \in DocumentIds : setSelectedDocumentIds(documentId)
  \/ handleCreateDraft
  \/ \E documentType \in AnchoredTypes,
        superseded \in DocumentIds \cup {Undefined} :
       handleUploadDocument(documentType, superseded)
  \/ \E rule \in getAvailableTransitions(shown, actor) : handleExecuteAction(rule)

Loading ==
  \/ \E l \in DOMAIN loads : answerLoad(l)
  \/ \E l \in Loads : loadCaseDetails(l)
  \/ refreshOverview \/ failOverview
  \/ refreshQueue \/ refreshDetails

Serving ==
  \/ \E r \in Requests : arrive(r) \/ proceed(r) \/ succeed(r) \/ elsewhere(r)
  \/ disconnect
  \/ backendStops

WorkspaceNext == User \/ Loading \/ Serving

WorkspaceSpec == WorkspaceInit /\ [][WorkspaceNext]_workspaceVars

-----------------------------------------------------------------------------
(* Properties. *)

\* The case on the screen is the selected one, the one commands go to, unless
\* its details are on their way, a load has failed, or loads have crossed: no
\* way of moving the selection (the user, the queue, a command) leaves the
\* screen behind without any such mishap.
SelectionShown ==
  \/ shown.caseId = selectedCaseId
  \/ \E l \in DOMAIN loads :
       loads[l] # Idle /\ loads[l].caseId = selectedCaseId
  \/ mishap

\* A page reads what it wrote: when a command is reported as a success and the
\* banner is green, the screen shows the command's case with the event or the
\* document it was answered, although the load reads the mirror while requests
\* of others overlap.  Only the record beside them may be older than the event,
\* as the mirror's record may be.
SuccessShown ==
  [][handler.step = "details" /\ handler'.step = "idle" =>
       \/ ~backendReady'
       \/ /\ shown'.caseId = handler.caseId
          /\ handler.outcome \in
               IF handler.kind = "upload" THEN shown'.documents
               ELSE shown'.timeline
    ]_workspaceVars

\* What the contracts' own checks of role and organisation make of a command.
Authorised(command) ==
  CASE command.kind = "draft"  -> assertCreateCaseAllowed(command.actor)
    [] command.kind = "upload" ->
         Documents!assertDocumentMutationAllowed(command.actor, command.documentType)
    [] command.kind = "action" -> ActorAllowed(command.rule, command.actor)

\* The actions that a rule of the table gives to a role whose entry in the
\* permission matrix does not list them.
UnmatchedOffers ==
  {<<"coordination_officer", "reject_case">>,
   <<"admin", "respond_to_information_request">>}

\* The commands that the page offers to a role the contracts refuse: unmatched
\* actions, and documents of a type that other organisations own.
Overreach(command) ==
  \/ /\ command.kind = "action"
     /\ <<command.actor.role, command.rule.action>> \in UnmatchedOffers
  \/ /\ command.kind = "upload"
     /\ command.documentType \in DOMAIN Documents!REGULATOR_DOCUMENT_OWNERS
     /\ command.actor.organizationType
          \notin Documents!REGULATOR_DOCUMENT_OWNERS[command.documentType]

\* Whatever is stale on the screen, a command is one its role has the authority
\* for, except for exactly those two actions and the foreign document types: any
\* other command the contracts refuse is refused for the state of its case, its
\* documents or its justification.
SubmissionsAuthorised ==
  handler.step = "post" => (Authorised(handler) <=> ~Overreach(handler))

=============================================================================
