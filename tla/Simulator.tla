----------------------------- MODULE Simulator ------------------------------
(***************************************************************************)
(* The interoperability simulator (simulator.service.ts): the messages of  *)
(* an emulated domestic authority and a simulated foreign regulator, each  *)
(* carried out as a sequence of service calls.                             *)
(*                                                                         *)
(*   exchanges    the messages being processed, by slot                    *)
(*   exchangeLog  how often a kind of exchange was recorded for a case     *)
(*   disturbed    whether a call has failed or the process has stopped     *)
(*                                                                         *)
(* Nothing identifies a message that was already processed, so any message *)
(* may arrive again at any time.  A service call is one transaction of the *)
(* chaincode; other exchanges and the officers' own work run in between.   *)
(* Status and forwarding messages only read and are left out, and so are   *)
(* their records, which have the status "generated".                       *)
(***************************************************************************)
EXTENDS Chaincode, Sequences

CONSTANTS
  Exchanges,      \* slots for messages being processed
  OfficerActions, \* what applicant and authorities do outside the simulator
  DocumentPool,   \* per document type, the identifiers uploads may draw
  Manifests,      \* the document lists of intake messages
  MaxRecords,     \* bound on the records of one kind
  MayFail         \* whether a call may fail and the process may stop

ASSUME SimulatorAssumption ==
  /\ OfficerActions \subseteq WorkflowActions
  /\ DocumentPool \in [AnchoredTypes -> SUBSET DocumentIds]
  /\ Manifests \subseteq Seq([documentType : AnchoredTypes, inline : BOOLEAN])
  /\ MaxRecords \in Nat
  /\ IsFiniteSet(Exchanges)

VARIABLES exchanges, exchangeLog, disturbed

simulatorVars == <<chaincodeVars, exchanges, exchangeLog, disturbed>>

Idle == [step |-> "idle"]

Become(x, exchange) == exchanges' = [exchanges EXCEPT ![x] = exchange]

Decisions == {"approved", "rejected", "more_information_requested"}

\* The kinds of exchange with status "applied".
ExchangeKinds == {"domestic_intake", "foreign_acknowledgement"} \cup Decisions

recordExchange(caseId, kind) ==
  /\ exchangeLog[caseId][kind] < MaxRecords
  /\ exchangeLog' = [exchangeLog EXCEPT ![caseId][kind] = @ + 1]

-----------------------------------------------------------------------------
(* The service calls an exchange makes. *)

\* uploadDocument of a first version.
uploadDocument(documentId, caseId, documentType, actor) ==
  /\ documentId \in DocumentPool[documentType]
  /\ \E sha256Hash \in Hashes :
       Documents!addDocumentReference(documentId,
         [caseId |-> caseId, documentType |-> documentType,
          sha256Hash |-> sha256Hash, version |-> 1,
          supersedesDocumentId |-> Undefined, isActive |-> TRUE], actor)
  /\ UNCHANGED <<stateIndex, events>>

transitionCase(caseId, rule, actor, ids, types) ==
  /\ performTransition(caseId, rule, actor, types, ids, TRUE)
  /\ UNCHANGED <<documents, caseDocuments>>

\* The chaincode answers such a transition with an error.
Refused(caseId, rule, actor, types) ==
  ~ (/\ Exists(caseId)
     /\ evaluateTransition(cases[caseId], rule, actor, types, TRUE))

FOREIGN_ACTOR == OfficerOf("foreign_regulator_officer")
ApplicantActor == OfficerOf("applicant_case_manager")

-----------------------------------------------------------------------------
(* Domestic intake. *)

REQUIRED_INTAKE_DOCUMENTS ==
  {"assurance_application_form", "item_technical_specification",
   "end_use_declaration"}

\* Mutant: a listed document counts whether or not its content is there.
assertDomesticIntakeMessage_Listed(manifest, autoSubmit) ==
  autoSubmit =>
    \A type \in REQUIRED_INTAKE_DOCUMENTS :
      \E i \in DOMAIN manifest : manifest[i].documentType = type

\* An automatic submission needs each required document inline: of several
\* entries of a type the first one is looked at.
assertDomesticIntakeMessage(manifest, autoSubmit) ==
  autoSubmit =>
    \A type \in REQUIRED_INTAKE_DOCUMENTS :
      \E i \in DOMAIN manifest :
        /\ manifest[i].documentType = type
        /\ manifest[i].inline
        /\ \A j \in 1 .. i - 1 : manifest[j].documentType # type

receiveIntake(x, caseId, manifest, autoSubmit) ==
  /\ exchanges[x] = Idle
  /\ assertDomesticIntakeMessage(manifest, autoSubmit)
  /\ ~Exists(caseId)
  /\ \A y \in Exchanges : exchanges[y] # Idle => exchanges[y].caseId # caseId
  /\ Become(x, [kind |-> "domestic_intake", step |-> "createDraft",
                caseId |-> caseId, autoSubmit |-> autoSubmit,
                manifest |-> manifest,
                pending |-> {i \in DOMAIN manifest : manifest[i].inline},
                uploaded |-> {}])
  /\ UNCHANGED <<chaincodeVars, exchangeLog, disturbed>>

intakeDraft(x) ==
  /\ exchanges[x].step = "createDraft"
  /\ createCase(exchanges[x].caseId, ApplicantActor)
  /\ Become(x, [exchanges[x] EXCEPT !.step = "uploadManifest"])
  /\ UNCHANGED <<documents, caseDocuments, exchangeLog, disturbed>>

\* The entries with content are uploaded in the manifest's order.
intakeUpload(x, documentId) ==
  LET exchange == exchanges[x]
  IN
  /\ exchange.step = "uploadManifest"
  /\ \E next \in exchange.pending :
       /\ \A i \in exchange.pending : next <= i
       /\ uploadDocument(documentId, exchange.caseId,
                         exchange.manifest[next].documentType, ApplicantActor)
       /\ Become(x, [exchange EXCEPT !.pending = @ \ {next},
                                     !.uploaded = @ \cup {documentId}])
  /\ UNCHANGED <<exchangeLog, disturbed>>

intakeSubmit(x) ==
  LET exchange == exchanges[x]
  IN
  /\ exchange.step = "uploadManifest"
  /\ exchange.pending = {}
  /\ exchange.autoSubmit
  /\ transitionCase(exchange.caseId, SubmitCaseRule, ApplicantActor,
       exchange.uploaded, {documents[d].documentType : d \in exchange.uploaded})
  /\ Become(x, [exchange EXCEPT !.step = "record"])
  /\ UNCHANGED <<exchangeLog, disturbed>>

\* Without automatic submission the draft is recorded as it is.
intakeKeepDraft(x) ==
  /\ exchanges[x].step = "uploadManifest"
  /\ exchanges[x].pending = {}
  /\ ~exchanges[x].autoSubmit
  /\ Become(x, [exchanges[x] EXCEPT !.step = "record"])
  /\ UNCHANGED <<chaincodeVars, exchangeLog, disturbed>>

intakeRefused(x) ==
  LET exchange == exchanges[x]
  IN
  /\ exchange.step = "uploadManifest"
  /\ exchange.pending = {}
  /\ exchange.autoSubmit
  /\ Refused(exchange.caseId, SubmitCaseRule, ApplicantActor,
             {documents[d].documentType : d \in exchange.uploaded})
  /\ Become(x, Idle)
  /\ UNCHANGED <<chaincodeVars, exchangeLog, disturbed>>

-----------------------------------------------------------------------------
(* Foreign acknowledgements and decisions. *)

receiveAcknowledgement(x, caseId) ==
  /\ exchanges[x] = Idle
  /\ Become(x, [kind |-> "foreign_acknowledgement", step |-> "transitionCase",
                caseId |-> caseId, evidence |-> {}])
  /\ UNCHANGED <<chaincodeVars, exchangeLog, disturbed>>

\* The document that carries a decision.
DecisionDocument ==
  [approved |-> "foreign_regulator_response",
   more_information_requested |-> "request_for_information_notice"]

receiveDecision(x, caseId, decision) ==
  /\ exchanges[x] = Idle
  /\ decision # "rejected" =>
       \E d \in DocumentPool[DecisionDocument[decision]] :
         documents[d] = NoDocument
  /\ Become(x, [kind |-> decision, caseId |-> caseId, evidence |-> {},
                step |-> IF decision = "rejected" THEN "transitionCase"
                         ELSE "uploadDecision"])
  /\ UNCHANGED <<chaincodeVars, exchangeLog, disturbed>>

uploadDecision(x, documentId) ==
  LET exchange == exchanges[x]
  IN
  /\ exchange.step = "uploadDecision"
  /\ uploadDocument(documentId, exchange.caseId,
                    DecisionDocument[exchange.kind], FOREIGN_ACTOR)
  /\ Become(x, [exchange EXCEPT !.step = "transitionCase",
                                !.evidence = {documentId}])
  /\ UNCHANGED <<exchangeLog, disturbed>>

\* uploadDocument throws for a case that is not there.
uploadUnknownCase(x) ==
  /\ exchanges[x].step = "uploadDecision"
  /\ ~Exists(exchanges[x].caseId)
  /\ Become(x, Idle)
  /\ UNCHANGED <<chaincodeVars, exchangeLog, disturbed>>

RuleOf ==
  [foreign_acknowledgement    |-> RecordForeignReviewRule,
   approved                   |-> ApproveCaseRule,
   rejected                   |-> RejectCaseRule,
   more_information_requested |-> RequestMoreInformationRule]

EvidenceTypes(kind) ==
  IF kind \in DOMAIN DecisionDocument THEN {DecisionDocument[kind]} ELSE {}

applyMessage(x) ==
  LET exchange == exchanges[x]
  IN
  /\ exchange.step = "transitionCase"
  /\ transitionCase(exchange.caseId, RuleOf[exchange.kind], FOREIGN_ACTOR,
                    exchange.evidence, EvidenceTypes(exchange.kind))
  /\ Become(x, [exchange EXCEPT !.step = "record"])
  /\ UNCHANGED <<exchangeLog, disturbed>>

\* Mutant: a message the case is past is recorded as applied.
messageRefused_Recorded(x) ==
  LET exchange == exchanges[x]
  IN
  /\ exchange.step = "transitionCase"
  /\ Refused(exchange.caseId, RuleOf[exchange.kind], FOREIGN_ACTOR,
             EvidenceTypes(exchange.kind))
  /\ Exists(exchange.caseId)
  /\ Become(x, [exchange EXCEPT !.step = "record"])
  /\ UNCHANGED <<chaincodeVars, exchangeLog, disturbed>>

\* The error leaves a document uploaded before it where it is.
messageRefused(x) ==
  LET exchange == exchanges[x]
  IN
  /\ exchange.step = "transitionCase"
  /\ Refused(exchange.caseId, RuleOf[exchange.kind], FOREIGN_ACTOR,
             EvidenceTypes(exchange.kind))
  /\ Become(x, Idle)
  /\ UNCHANGED <<chaincodeVars, exchangeLog, disturbed>>

\* Only what was carried out to the end is recorded.
recordApplied(x) ==
  /\ exchanges[x].step = "record"
  /\ recordExchange(exchanges[x].caseId, exchanges[x].kind)
  /\ Become(x, Idle)
  /\ UNCHANGED <<chaincodeVars, disturbed>>

-----------------------------------------------------------------------------
(* Failures and the rest of the world. *)

\* A call fails, before or after its effect: the exchange ends with an error.
failExchange(x) ==
  /\ MayFail
  /\ exchanges[x] # Idle
  /\ Become(x, Idle)
  /\ disturbed' = TRUE
  /\ UNCHANGED <<chaincodeVars, exchangeLog>>

\* The process stops: the log is in its memory.
crash ==
  /\ MayFail
  /\ exchanges' = [x \in Exchanges |-> Idle]
  /\ exchangeLog' = [c \in CaseIds |-> [k \in ExchangeKinds |-> 0]]
  /\ disturbed' = TRUE
  /\ UNCHANGED chaincodeVars

\* The foreign regulator speaks through the simulator only.
DomesticRoles == UserRoles \ {"foreign_regulator_officer"}

\* Applicant and authorities work on the case with the documents they need.
officerStep(caseId, rule, role) ==
  /\ rule.action \in OfficerActions
  /\ transitionCase(caseId, rule, OfficerOf(role), {}, DOCUMENT_TYPES)
  /\ UNCHANGED <<exchanges, exchangeLog, disturbed>>

SimulatorInit ==
  /\ ChaincodeInit
  /\ exchanges = [x \in Exchanges |-> Idle]
  /\ exchangeLog = [c \in CaseIds |-> [k \in ExchangeKinds |-> 0]]
  /\ disturbed = FALSE

\* A message arrives, for the first time or again.
Receive(x) ==
  \E caseId \in CaseIds :
    \/ \E manifest \in Manifests, autoSubmit \in BOOLEAN :
         receiveIntake(x, caseId, manifest, autoSubmit)
    \/ receiveAcknowledgement(x, caseId)
    \/ \E decision \in Decisions : receiveDecision(x, caseId, decision)

\* The next call of an exchange, or its record.
Proceed(x) ==
  \/ intakeDraft(x)
  \/ \E documentId \in DocumentIds :
       intakeUpload(x, documentId) \/ uploadDecision(x, documentId)
  \/ intakeSubmit(x) \/ intakeKeepDraft(x) \/ intakeRefused(x)
  \/ uploadUnknownCase(x)
  \/ applyMessage(x) \/ messageRefused(x)
  \/ recordApplied(x)

SimulatorNext ==
  \/ \E x \in Exchanges : Receive(x) \/ Proceed(x) \/ failExchange(x)
  \/ crash
  \/ \E caseId \in CaseIds, role \in DomesticRoles :
       \E rule \in {t \in TRANSITIONS : role \in t.allowedRoles} :
         officerStep(caseId, rule, role)

SimulatorSpec == SimulatorInit /\ [][SimulatorNext]_simulatorVars

-----------------------------------------------------------------------------
(* Properties. *)

Count(caseId, action) ==
  Cardinality({e \in Trail(caseId) : e.actionType = action})

Unrecorded(caseId, kind) ==
  Cardinality({x \in Exchanges :
     /\ exchanges[x].step = "record"
     /\ exchanges[x].caseId = caseId /\ exchanges[x].kind = kind})

\* The exchange log tells the truth about the ledger: an acknowledgement or an
\* approval is recorded as applied at most once for each event it caused, and,
\* unless a call has failed, exactly once.
ExchangeLogTrue ==
  \A caseId \in CaseIds :
    \A kind \in {"foreign_acknowledgement", "approved"} :
      LET applied == exchangeLog[caseId][kind] + Unrecorded(caseId, kind)
          caused  == Count(caseId, RuleOf[kind].action)
      IN applied <= caused /\ (~disturbed => applied = caused)

\* A message that arrives again is applied again only if the case has come back
\* for it: an acknowledgement after another forwarding, an approval after
\* another review, a request after a response, a rejection never.
RepeatsRefused ==
  \A caseId \in CaseIds :
    LET log(kind) == exchangeLog[caseId][kind]
    IN /\ log("foreign_acknowledgement")
            <= Count(caseId, "forward_to_foreign_authority")
       /\ log("approved") <= Count(caseId, "record_foreign_review")
       /\ log("more_information_requested")
            <= Count(caseId, "respond_to_information_request") + 1
       /\ log("rejected") <= 1

\* A validated intake that asks for submission is never left half-way by a
\* refusal: once its documents are uploaded the chaincode accepts the
\* submission, unless somebody else has submitted the draft meanwhile.
IntakeSubmittable ==
  \A x \in Exchanges :
    LET exchange == exchanges[x]
    IN /\ exchange.step = "uploadManifest"
       /\ exchange.autoSubmit
       /\ exchange.pending = {}
       => \/ Count(exchange.caseId, "submit_case") > 0
          \/ ~Refused(exchange.caseId, SubmitCaseRule, ApplicantActor,
                      {documents[d].documentType : d \in exchange.uploaded})

=============================================================================
