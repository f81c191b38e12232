# A TLA+ model of the nuclear assurance prototype

This directory models the workflow, the chaincode, the ledger gateway, the
backend services, the interoperability simulator, the browser workspace and the
evaluation tools of the cross-border nuclear assurance prototype: how an
application for an assurance travels between an applicant, a domestic
regulator, a coordinating authority and a foreign regulator, what the ledger
keeps of it, and what mirror, file store, screen and reports make of that.

## 1. The system

| component | state it keeps | operations | interacts with |
|---|---|---|---|
| Workflow rules, `packages/shared/src/workflow.ts` (with `domain.ts`, `permissions.ts`) | none: pure functions | `createDraftTransition`, `evaluateTransition`, `applyTransition` over `TRANSITIONS` and `ROLE_PERMISSION_MATRIX` | imported by chaincode, backend and frontend |
| CaseContract, `smart-contracts/chaincode/src/contracts/case.contract.ts` | case records, state index, event trail in the world state | `createCase`, sixteen transitions, four queries | called through a Fabric gateway |
| DocumentContract, `document.contract.ts` | document references, case-document index; rewrites the case record's `activeDocumentIds` | `addDocumentReference`, `updateDocumentVersion`, `deactivateDocument`, three queries | shares the world state with CaseContract |
| Fabric ledger (external) | endorsed, ordered, validated transactions | endorse, order, validate, commit | runs the contracts |
| Fabric gateway service, `apps/backend/src/modules/fabric` | gateway sessions | plans endorsers, submits, waits for the commit; a simulated mode without a ledger | backend services, ledger |
| Case and document services, `modules/cases`, `modules/documents` | none | draft, transition, upload, verify | storage, gateway, projections |
| Projections, `modules/projections` | PostgreSQL mirror, or in-memory maps, of cases, events, documents | snapshots and upserts, listings | written after each ledger call |
| Object storage, `modules/storage` | stored files | put, get, delete | document service |
| Simulator, `modules/simulator` | log of exchanges, in memory | intake, forwarding, acknowledgement, decision | case and document services |
| Metrics, `modules/metrics` | samples | record, percentile, summary | written by the services |
| Seeding, `modules/seeding` | none | creates the benchmark's cases, reports counts | case and document services |
| Frontend, `apps/frontend/src` | role, selected case, shown details, ticked documents | load, refresh, offer and execute an action | backend API |
| Scenario runner and screenshot pack, `evaluation/scenario-runner` | results, errors | nine scenarios, eight samples | backend API |
| Caliper benchmark, `evaluation/caliper` | request counters of workers | seven rounds | ledger |

What is hard about it, component by component, is the list of hazards in
`PROJECT.json`. In short:

* **Workflow rules.** Sixteen rules over a record whose fields (state, lane to
  resume, review mode of an amendment, base state, five statuses, version) are
  assigned piecemeal and read many transactions later by other actors. Wrong
  combinations appear only after long sequences. Correct means: the statuses
  agree with the state and with each other, an amendment never costs the
  assurance it amends, nothing is issued without a review of its own, no case
  is stuck, outcomes are final.
* **CaseContract.** Three families of keys must agree after each transaction.
  Correct means: the index is exact, the trail has no gap, fork or overwrite
  and replays to the record.
* **DocumentContract.** Both contracts rewrite the same record. Correct means:
  references are immutable and chained, no active document is lost, and the
  workflow does not notice documents.
* **Ledger and gateway.** Concurrent endorsements on one version of a record, commit
  status lost after submission, endorsers chosen from a stale view.
* **Backend services.** Reads of the mirror before an await and use after it,
  a crash between commit and mirror, compensation that deletes an anchored
  file.
* **Default configuration.** Without a ledger nothing validates a write: an
  upload puts back the record it read before its file was stored. Correct means
  that whatever is put back is still a record the workflow can reach.
* **Simulator.** Repeated messages, exchanges that stop half-way or interleave
  with each other and with officers, a log that is lost with the process.
  Correct means: what is logged as applied was applied, and as often.
* **Frontend.** Answers that arrive out of order, for a case that is no longer
  selected or a role that is no longer chosen, or from a mirror that is behind.
  Correct means: the screen follows the selection, a reported success is shown,
  and where a command exceeds the role it is known to.
* **Evaluation.** Calls that fail midway, restarts, several workers on one set
  of cases. Correct means: what is published is true of the ledger.

## 2. Modules

| module | models | kind |
|---|---|---|
| `Workflow` | `workflow.ts`, `domain.ts`, `permissions.ts` | pure operators |
| `CaseRecords` | what the fields of a record say of each other | predicates the properties use |
| `CaseContract` | `case.contract.ts`, `policy.ts`, `keys.ts` | state machine and its properties |
| `AssuranceLifecycle` | what an observer outside the review is promised | abstract state machine |
| `DocumentContract` | `document.contract.ts`, `policy.ts` | actions on documents and cases |
| `Chaincode` | both contracts on one world state | composition |
| `FabricLedger` | `fabric.service.ts` over an external Fabric network | state machine that implements `CaseContract` |
| `Backend` | `cases`, `documents`, `fabric`, `projections`, `storage` services | requests over `Chaincode`, a mirror and a file store |
| `Simulated` | the same services in the default configuration, without a ledger | state machine |
| `Simulator` | `simulator.service.ts` | exchanges over `Chaincode` |
| `Workspace` | `AppProfessional.tsx`, `frontend-helpers.tsx`, `session.ts`, `api.ts` | a page over `Backend` |
| `Scripts` | scenarios, screenshot samples, seeding series, benchmark rounds | data |
| `Evaluation` | the tools that carry out `Scripts` | state machine over `Chaincode` |
| `CaseRecordProofs` | every transition preserves the agreements of `CaseRecords` | proofs |
| `ChaincodeProofs` | `CaseContract`: inductive invariant, safety, progress, finality, refinement of `AssuranceLifecycle`, records against the trail; `Chaincode`: the document invariants, what any client of the ledger is promised, the chaincode implements `CaseContract` | proofs |
| `FabricLedgerProofs` | the ledger implements the atomic contract, answers are true | proofs |
| `SimulatedProofs` | records and trails of the default configuration | proofs |
| `BackendProofs` | the mirror, the files and the ledger behind the backend | proofs |
| `SimulatorProofs` | the exchange log, repetitions, intakes, and the ledger behind them | proofs |
| `WorkspaceProofs` | selection, reported successes and authority of the page, and the backend under it | proofs |
| `EvaluationProofs` | the reports of the tools, the split of a round among workers, and the ledger behind them | proofs |
| `MCCaseContract`, `MCChaincode`, `MCFabricLedger`, `MCBackend`, `MCSimulated`, `MCSimulator`, `MCWorkspace`, `MCEvaluation` | instances for TLC | model values |

### Workflow

A rule of `TRANSITIONS` is a record made by `Rule`, one definition per entry of
the table. `evaluateTransition` has a conjunct for each reason the code may
push; `applyTransition` builds the new record from one operator per field it
may assign (`nextSubstate`, `nextVersion`, ...), so each assignment of the code
is in the operator of its field. A case record keeps the fields the rules read
or write. Names, item descriptions and timestamps are left out;
a justification is only blank or not; `undefined` is the string `Undefined`.
`CaseRecords` adds the agreements between those fields that the invariants of
`CaseContract` and `Simulated` are made of; no code corresponds to it.

### CaseContract

`cases`, `stateIndex` and `events` stand for the three families of keys of
`keys.ts`. A transaction is one action: it reads committed state and its writes
commit together. A call that throws writes nothing, so a refused call is a
disabled action. The document types and identifiers a caller passes are
arbitrary, as they are in the code. `MaxAuditSequence` bounds the trail.

### DocumentContract and Chaincode

`documents` and `caseDocuments` are the document keys; the contract's rewriting
of the case record is `putCaseRecord`, which keeps every field but
`activeDocumentIds`. `Chaincode` interleaves the transactions of the two
contracts; it is the specification in which statements about documents and
workflow together are checked.

### FabricLedger

`CaseContract` takes a transaction for one atomic step. `FabricLedger` is where
that is justified. A call of `submitWithContract` fills a slot of
`submissions`: peers run the contract on the committed state (`submitAsync`),
which records the version of the case key they read and the writes to make.
Later the network commits the writes if that version is still current
(`commitTransaction`) or records the transaction as invalid
(`invalidateTransaction`); these two, and `keyVersions`, model Fabric and are
external. Last, the service learns the status (`getStatus`) or loses the
connection (`loseStatus`), which does not stop the transaction. Other
submissions run in between. A slot is reused once its transaction and its
caller are both done. Document transactions read and write the same case key;
they are not in this module.

### Backend

A request (`requests`) is a sequence of steps, one per awaited call, so that
everything the code holds across an `await` (the case read before an upload,
the state the endorsers are chosen by) is in the request and may be stale when
it is used:

| operation | steps |
|---|---|
| `createDraft` | `createDraft`, `relayCreateCase`, `mirrorCaseUpdate` |
| `transitionCase` | `readCase`, `transitionCase`, `mirrorCaseUpdate` |
| `uploadDocument` | `readForUpload`, `storeObject`, `anchor`, `mirrorDocument`, `mirrorSnapshot` |

A refusal ends a request (`refuseCase`, `refuseAnchor`). Before it anchors a
reference the relay makes the checks of `packages/shared/src/document-policy.ts`
(`fabric.service.ts:192-195`); they are those of the contract's `policy.ts`, so
the guard of `DocumentContract` stands for both. Where `MayFail` is
true the commit status may be lost after the commit, a database write
(`failCaseUpdate`, `failUpload`), the file store (`failStore`) or a deletion
may fail, and the process may stop with everything in flight (`crash`). The
catch block of `uploadDocument` is `deleteObject`. The ledger is that of
`Chaincode`; the mirror is `mirrorCases`, `mirrorEvents` and
`mirrorDocuments`, with the code's upserts. The model is of `FABRIC_MODE=real`
and `PROJECTION_STORE_MODE=postgres`.

Two choices are coarser than the code. The reads at the start of an upload are
one step: of the superseded document only fields that never change are used,
and the first read of the case is discarded. The case number is left out:
nothing depends on it.

### Simulated

`FABRIC_MODE=simulated` and `PROJECTION_STORE_MODE=memory` are the defaults.
The relay computes the result of a call with the functions of `Workflow` and
the maps keep it. An `await` on a map resolves before the process takes up
another request, so a draft or a transition is one step (`relayTransition`,
`transitionCase`). Writing a file is not: an upload is `readForUpload`, which
remembers the case, and later `uploadDocument`, which checks the predecessor as
it is then and puts the remembered case back (`updatedCase`). Events are kept in
the order they were appended, so `trails` are sequences: after a late upload two
events carry the same number. `refuseUpload` stands for a refused reference and
a file that cannot be written.

### Simulator

An exchange (`exchanges`) is one message being carried out: an intake creates a
draft, uploads the inline documents of its manifest in order (`pending` are the
positions still to come) and may submit; an acknowledgement is a transition; a decision uploads its document and is a
transition. One service call is one step, a transaction of `Chaincode`; what is
recorded is counted in `exchangeLog`, by case and kind. At any
time a message may arrive, the first time or again (`Receive`), an officer may
act (`officerStep`), a call may fail before or after its effect
(`failExchange`), and the process may stop and lose its log (`crash`).
`disturbed` remembers that one of these has happened, because a lost record is
only then allowed. The mirror is taken to be in step with the ledger; how far
it is not is the subject of `Backend`. Status and forwarding messages read a
case and write a record of their own kind; they are left out.

### Workspace

One page in front of `Backend`: `actor` (the chosen role), `selectedCaseId`,
`shown`, `ticked`, and what is in flight, which is the load of the queue that
opening the page starts (`overview`), the loads of details that each change of
selection starts (`loads`) and the command being carried out with its refresh
(`handler`, `isBusy` while there is one). `setSelectedCaseId` includes the
effect React runs for it.

Everything the page shows is read from the mirror, as `GET /cases`,
`GET /cases/:id`, its timeline and the documents of a case are
(`listCases`, `answerLoad`), so it may be older than the ledger. The three reads
of one load are one step; no property compares what they return with each other.
A command is posted (`handleCreateDraft`, `handleUploadDocument`,
`handleExecuteAction`), becomes a request of the backend (`arrive`), whose steps
are those of `Backend` (`proceed`, with `relay` naming what the command asks
for), and is answered when the request has written its last row (`succeed`). The
connection may fail before or after the command has arrived (`disconnect`); then
the request goes on without the page. The refresh is `refreshQueue` and
`refreshDetails`, and either load may fail without undoing the report of
success. All other requests, of other people and those the page has given up on,
are `elsewhere`; the process may stop (`backendStops`). So the page is a client
of `BackendSpec`, and what holds of the backend holds under it
(`WorkspaceIsClient`).

The production build is modelled; React's strict mode runs effects twice. So is
the backend with a ledger and a database: in the default configuration, the one
of `Simulated`, a page reads the maps, and what late uploads do to those is the
subject of that module.

Observed while modelling, and allowed by the properties: the first load of the
queue pulls the selection back to the case the page was opened on; after a
failed refresh of the queue a new draft is shown while commands still go to the
case selected before; a slow load replaces a newer one; after a success the
record on the screen may be older than the event beside it, because the mirror's
is; ticked documents survive a change of case; the screen checks required
documents against all active ones, the backend against those ticked.

### Scripts and Evaluation

`Scripts` writes each scenario, sample and series as the sequence of its calls;
the parts they share are the helper functions of the source. `Evaluation` takes
a tool and carries its scripts out on `Chaincode`: `performCall` is the next
call, `expectScenarioFailure` a call that has to be refused for the expected
reason, `failCall` a call that fails for a reason outside the system, with or
without effect. What the ledger checks before it writes is written out once
more in `Accepts`, so that a refusal is a condition on the state. Cases and documents
are named by strings; of the names of documents the model assumes no more than
that they are distinct (`DocumentIdOf`, `IdentifiersAssumption`), as those of
the seeding are by construction and those the backend draws in practice. The suite records an error and goes on, pack and seeding stop;
`seedAgain` is another start of the seeding. On a published seeding the workers
of the benchmark send the requests of each round in any order
(`submitTransaction`, with `buildLogicalIndex` choosing the case). That the
requests of a worker are sent whether or not the last one was refused is the
benchmark's; how many each worker gets is Caliper's and external.

## 3. Runs

| run | module | bound | states | shows |
|---|---|---|---|---|
| `case_contract` | `MCCaseContract` | 1 case, 18 events | 14 831 | twelve invariants and three action properties of the case contract, and that it implements `AssuranceLifecycle` |
| `chaincode` | `MCChaincode` | 1 case, 8 events, 3 documents | 13 794 | document invariants, immutability, workflow undisturbed |
| `fabric_ledger` | `MCFabricLedger` | 1 case, 5 events, 3 submissions | 54 968 | the ledger implements `CaseContract`; answers are true |
| `backend_failures` | `MCBackend` | 1 case, 3 events, 2 documents, 2 requests, failures | 14 443 | the mirror shows only what the ledger has or had |
| `backend_serial` | `MCBackend` | 1 case, 12 events, 2 documents, 1 request | 32 266 | the mirror is exact and always catches up, the foreign lane is endorsed, anchored files are kept |
| `simulated` | `MCSimulated` | 1 case, 8 events, 2 documents, 2 uploads | 98 413 | late uploads leave legal records and a trail that is a tree, and are the only undoing |
| `simulator` | `MCSimulator` | 1 case, 9 events, 7 documents, 2 exchanges, failures | 643 199 | the exchange log is true, repetitions are refused, validated intakes can be submitted |
| `workspace` | `MCWorkspace` | 2 cases, 4 events, 1 document, 2 requests, 2 loads, all 6 roles, failures; three kinds of sessions | 143 598 | the screen follows the selection, successes are shown though the mirror is behind, authority is exceeded exactly where `Overreach` says |
| `evaluation` | `MCEvaluation` | 3 cases per series, 2 workers, 1 failed call | 14 107 | reports are true, tools conclude, each seeded case is used once |
| `instrument_anchored` | `MCChaincode` | 1 case, 1 document | violation | an issue without an anchored instrument |
| `mirror_in_sync` | `MCBackend` | 1 case, 2 events, 2 documents, 2 requests, no failures | violation | a lost update of the mirror |
| `anchored_file` | `MCBackend` | 1 case, 2 events, 2 documents, 1 request, failures | violation | a file deleted after its anchoring |

**Bounds.** An issue takes eight events and a substantive amendment
six more, so eighteen events cover an issue, an amendment of either kind, the
start, information round or rejection of another one, revocation and closure.
Cases interact only through the shared index and trail, whose keys carry the
case; several cases share them in `workspace` and `evaluation`, and the proofs
are for any number. In `chaincode`, eight events reach an issue, three documents are
the fewest with which a chain of versions has a middle and can fork, and the
document identifiers are symmetric: no definition distinguishes them. The
actors of `case_contract` are one officer of each role, an inactive one and one
whose role does not belong to its organisation; the document claims are all
types, none, and all but the instrument.

Three submissions are the fewest with which one commits, one is overtaken and
a third is endorsed after both; five events leave the first review, so
submissions compete in states with several successors. In `backend_failures`
two requests and three events give two answers to mirror in either order, and
two documents a version and its successor; with a fourth event the run was
211 636 states and as clean. `backend_serial` needs seven events for a case
to be decided before the foreign regulator and eight for an issue. Requests,
submissions and documents are symmetric.

`MirrorInSync` and `AnchoredFileKept` appear twice, on purpose. Both hold of one
request at a time without failures; the first breaks as soon as two requests
overlap, the second as soon as something fails. So `backend_serial` cannot meet
the interleavings and failures that the hazards of these lines describe: the two
violations do. Nor can it meet the stale plan of `fabric-invocation-plans.ts:91`;
`ForeignLaneEndorsed` says only that the plan is right when what it was made from
is current.

In `simulated` eight events reach an issue, and two uploads can overlap with
each other, with every transition on the way, and as a version and its
successor. In `simulator` nine events take a case to the foreign regulator,
into an information request and back to it; two answers and two requests for
information are the fewest with which a decision can be repeated with a document
of its own, and two exchanges let a message overtake its repetition. In
`workspace` cases, roles, requests and loads are each more than one, but not all
in the same session: the constraint `SessionsExplored` keeps to three kinds,
which a behaviour may enter one after the other. In `LoadsCross` the applicant
drafts and submits two cases; crossing loads need two of them, and the later load
may be answered first. In `RequestsOverlap` a domestic regulator records a
review and uploads a document while another request is in flight: an upload
writes back a record that the page's own action has overtaken, and the success is
shown with an older record beside its event. In `RolesChange` every role looks at
one case, screens grow stale, and what is submitted is checked but not carried
out; four events take the case into the domestic review and an information
request, so that both pairs of `UnmatchedOffers` are submitted, and so is a
document that the applicant may not anchor. The proofs have no such constraint.
In `evaluation` three cases are no multiple of
two workers, so their shares differ, and one failure reaches every call of
every script.

**Deadlock** is not checked: an archived case has no further transaction, and a
case stops at its bound. That no open case is stuck is the invariant
`NoCaseStuck`.

**Fairness.** The chaincode is passive: nothing obliges an officer to act, so
the code justifies no liveness of the workflow, and `CaseContract`,
`Chaincode`, `FabricLedger`, `Simulated`, `Simulator` and `Workspace` are safety
specifications. Two places run by themselves:

* `BackendFairSpec` assumes weak fairness of `Continue`, for each request: once
  the ledger has committed, the process awaits the database and the file store
  and goes on when they answer, which they do when nothing fails. Nothing is
  assumed of clients, of the ledger, or of a request that has stopped: the
  backend neither retries nor replays.
* `EvaluationSpec` assumes weak fairness of `Proceed`: each tool is a loop of
  awaited calls, and a call is answered or fails. A failure may be that answer,
  so fairness promises no success, and restarting a seeding is up to its user.

Every property of a passing run has a mutant (the `Name_Variant` operators that
stand before the definition they vary): a plausible mistake in the code that
the property detects.

## 4. What the violations say

* `IssuedInstrumentAnchored`: the workflow table names "final issuance document
  must be anchored" as a precondition of `issue_assurance`; the contract
  believes the document types it is passed.
* `MirrorInSync`: every row is marked "in_sync"; an upload writes back the case
  it read before, over a transition mirrored in between, and nothing repairs
  the row until the next transition of the case.
* `AnchoredFileKept`: "Off-chain files remain verifiable against anchored
  references"; the cleanup for a failed anchoring also runs after a successful
  one whose mirroring fails, or whose status is lost.

Five more observations follow from the modules and have no run of their own.

* `reject_case` has the same source states for all authorities, so a foreign
  regulator can reject a case before it is forwarded.
* A superseded version can be superseded again, so two successors of one
  instrument can be active: `VersionChainSound` says what the predecessor of each
  version is, not that a predecessor has one successor.
* A lost commit status is reported and counted as a failure although the
  transaction commits.
* The page offers what a rule allows (`getAvailableTransitions`,
  `frontend-helpers.tsx:206`) and does not ask the permission matrix, which the
  backend does ask. They disagree twice: an administrator is offered
  `respond_to_information_request` and a coordination officer `reject_case`,
  both counted under "Cases this role can act on now" and both always refused.
  It also offers each role that may upload all types of documents, of which the
  contract refuses those other organisations own. `SubmissionsAuthorised` says
  that these (`UnmatchedOffers`, `Overreach`) are all the commands that exceed
  their role, and exceed it; the run `workspace` and the proof are for all six
  roles.
* Neither document contract nor backend asks for the state of a case, so an
  archived case still accepts documents. `OutcomesAreFinal` is therefore a
  property of `CaseContract`, not of `Chaincode`; there it holds of everything
  but the active documents, by `WorkflowUndisturbed`.

## 5. Proofs

Eight modules hold the theorems: one for the two specifications of the
contracts, one for each specification above them, and
`CaseRecordProofs` for what they share. The theorems are for any value of the
constants under the named assumptions of the modules; further hypotheses are
written in the theorem and named below.

| specification | theorems on it | rest on |
|---|---|---|
| `CaseContract!Spec` | all properties of `case_contract` | `IInv`, `HistoryInv` |
| `ChaincodeSpec` | all properties of `chaincode`; index, trail and record invariants | `ChaincodeInv` |
| `LedgerSpec`, any client | reviews, versions, lifecycle, nothing rewritten | `LedgerInv` |
| `FabricSpec` | all properties of `fabric_ledger`; what `CaseContract` promises | `FInv` |
| `BackendSpec` | all safety properties of `backend_failures` and `backend_serial`; what the ledger promises | `BackendInv`, `FilesInv`, `SerialInv` |
| `SimulatedSpec` | all properties of `simulated` | `SimulatedInv` |
| `SimulatorSpec` | all properties of `simulator`; what the ledger promises | `SimulatorInv` |
| `WorkspaceSpec` | all properties of `workspace`; it implements `BackendSpec` | `WorkspaceInv` |
| `EvaluationSpec` | the invariant of `evaluation`; what the ledger promises; the split of a round | `EvaluationInv`, `SeedingInv`, `ScriptInv` |

### CaseContract

The assumptions are `CaseContractAssumption`: the absent
record is not a case record, actors are claims, claimed types are document
types.

The inductive invariant is `IInv`: the type invariant,
the exact index, the two trail invariants and `RecordInv` of each record. The
trail invariants need the type invariant and each other: an event is new
because its sequence number exceeds all those in the trail. `RecordInv`
conjoins the record predicates (`Resumable`, `BaselineKept`,
`IssuanceConsistent`, `Endorsed`, `Ungranted`) because none is inductive
alone: that a response resumes a review lane needs `Resumable` before; that a
rejected case has no assurance needs `Ungranted`, which needs `BaselineKept`;
that approval means endorsement needs the lane of the case.

The argument has three layers:

1. one lemma per record predicate: `applyTransition` preserves it, by cases
   over the sixteen rules (`TypedPreserved` ... `UngrantedPreserved`, in
   `CaseRecordProofs`, which knows one record and no state);
2. every step stores one record and one event with the next sequence number
   (`StepWrites`, `EventIsNew`), and such a write preserves the index and the
   trail (`StateIndexWritten`, `TrailGapFreeWritten`, `TrailReplaysWritten`);
3. the theorems of the specification (`Invariance` and its corollaries).

The lemmas of the second layer are about `CaseStep`, a transaction of an
arbitrary caller with arbitrary document types, of which the steps of `Next`
are instances (`NextCases`); so every client of the contract can cite them.

Some rule applies to every open record (`RecordProceeds`), a transition respects
finality (`TransitionIsFinal`), and every step is a move of `AssuranceLifecycle`
or a stutter (`TransitionIsMove`), which gives the refinement theorem.

`IInv` says of the trail only that it has no gap and replays to the current
state, so `HistoryInv` adds, for each case: the version is the number of
instruments recorded so far (`VersionCounted`); the last initiation started from
the base state (`BaselineRecorded`); the steps behind the current lane were all
taken since the round was opened (`LaneReached`); and the same of every
instrument in the trail at the time it was recorded (`InstrumentsReviewed`). The
last is not inductive without `LaneReached`: when an assurance is issued, only
the lane tells which events are in the trail. `LaneReached` excepts a
non-substantive amendment, which skips the review, and needs that such an
amendment cannot reach the lane *approved*, which is `BaselineKept`.
`VersionAdvances`, `BaselineAdvances` and `LaneAdvances` say what each rule does
to these, and `StepExtends` turns every transaction into one such step.

### Chaincode, and any client of it

The theorems are about `ChaincodeSpec`, under `ChaincodeAssumption` and
`NoDocumentAssumption` (the absent document is not a reference).
`DocumentSteps` reduces the transactions of the document contract to two kinds:
a reference is anchored, after a predecessor or as the first of its chain, or
one is switched off; each rewrites the active documents of one record and
nothing else of it (`Relists`). `ChaincodeInv` conjoins `IInv`, the shape of the
references and the three document invariants. They need each other: a case that
is created must not have references already, which follows from
`CaseDocumentsExact`; a successor's version is never 1, which needs that no
version is 0. A record that is relisted keeps `RecordInv`, so the theorems on
records, index and trail hold of the chaincode too (`CaseInvariantsCarryOver`).
The refinement `WorkflowUndisturbed` is proved by looking at a
record without its documents, which commutes with `applyTransition`
(`ViewApplies`) and does not change what `evaluateTransition` says
(`ViewEvaluates`), so each workflow transaction is the same transaction in the
view, called without documents; a document transaction leaves the view alone.

`LedgerSpec` allows every transaction of either contract, by any caller with any
claims: it is the chaincode seen by clients nobody has modelled. Its invariant
`LedgerInv` is `ChaincodeInv` and `HistoryInv`; a document transaction keeps the
second because it leaves trail, lane, version and base state of each record
alone (`RelistLeaves`). `LedgerHistoryCorrect` (each instrument has a review of
its own, the version counts them), `LedgerImplementsLifecycle` and
`LedgerNeverRewrites` are its theorems. `ChaincodeSpec`, `BackendSpec`,
`SimulatorSpec` and `EvaluationSpec` each imply `LedgerSpec` (`ChaincodeIsLedger`,
`BackendIsClient`, `SimulatorIsClient`, `EvaluationIsClient`), and so does
`WorkspaceSpec`, which implies `BackendSpec` (`WorkspaceIsClient`): whatever those services
have read too long ago, lose or repeat, each of their steps submits one
transaction or none. So the promises of the workflow hold end to end.

### FabricLedger

The invariant `FInv`, for any set of submissions, adds to `IInv` that an
endorsed submission whose read version is still current carries exactly the
writes that some transaction of the contract would compute from the record as it
is now (`EndorsementsSound`). Atomicity is not inductive without it: at the
commit, the refinement has to exhibit the actor, rule and documents of a
`CaseContract` step, and only the endorsement knew them. A commit raises the
key's version, so every other endorsement on that record stops being current,
and the invariant asks nothing of it. With `FInv` a commit is a step of
`CaseContract` (`CommitIsTransaction`) and every other action stutters, which
gives `LedgerIsSerializable`; the theorems about `CaseContract` then hold of the
ledger (`LedgerTrailCorrect`, `LedgerKeepsPromises`). `AnswersCorrect` needs
that a committed event has the next sequence number (`CommittedEventIsNext`), so
no two callers are told of one step.

### Simulated

`SimulatedSpec` is treated for any number of uploads in flight, under
`SimulatedAssumption`. The record an upload remembers is put back later, so
`SimulatedInv` says of it what it says of the stored ones: it is `Genuine`, a
record that satisfies `RecordInv` and that some event of the trail ended in.
Both parts survive whatever the trail gains meanwhile, which gives
`StoredRecordsCorrect` and `TrailTreeCorrect` although steps may be undone;
`LateUploadsOnly` says that nothing else undoes one.

### Backend

Three invariants, each an extension of the one before by what is known under
stronger hypotheses:

* `BackendInv` holds whatever fails and however requests interleave. It adds to
  `ChaincodeInv` that the mirror shows past states only, and of each request
  that what it carries across an await was true once (`RequestSound`): the
  record it read is one the ledger had, the answer it holds is in the trail, the
  reference it holds is anchored. None of this is undone by another
  request, because trail and references only grow (`NothingLost`); that is the
  lemma each action is measured against. `MirrorHistoryCorrect` and
  `MirrorDocumentsCorrect` follow.
* `FilesInv`, without failures (`~MayFail`): the identifier of an upload that
  has not been anchored yet is free and no other upload's (`FileSound`,
  `UploadsApart`), so the cleanup after a refusal deletes only a file that no
  reference names. This is `AnchoredFilesCorrect`, with any number of requests;
  `AnchoredFile.cfg` shows that `~MayFail` cannot be dropped.
* `SerialInv`, without failures and with one slot for requests: the mirror lacks
  exactly what the pending step of the request still writes, case by case of
  that step (`InStep`). Between requests nothing is pending and the mirror is
  the ledger (`SerialMirrorInSync`); a request that is relayed has looked at a
  mirror that was exact (`SerialForeignEndorsement`). `MirrorInSync.cfg` shows
  that one slot is needed.

### Simulator

`SimulatorInv` ties the trail of each case to its record by counting
(`RoundsCounted`): a case was forwarded once per foreign review, and once more
while it waits for one; there are no more approvals than reviews, one less while
the case is in the foreign lane; requests for information exceed responses only
while one is open; a case is rejected at most once. `RoundsAdvance` checks this
against the sixteen rules, and it is what makes a repeated message harmless:
each kind can be applied only as often as the workflow brought the case to it.
`LogCovered` then compares the log with the trail. Of an
exchange that was applied and is not recorded yet the log owes one; log and
debt together never exceed the events they stand for, and are equal while
nothing has been disturbed, for the kinds that only the simulator can cause.
Without the debt the statement is not inductive, since effect and record are two
steps. For `IntakesAccepted` the invariant says of each intake that the entries
still to be uploaded and the documents already uploaded together cover the
required types (`IntakeComplete`), which validation establishes and each upload
keeps. `Exchanges` is assumed finite, as the debt is a cardinality.

### Workspace

`WorkspaceSpec` is treated for any cases, documents, roles, loads and requests,
whatever fails, under `WorkspaceAssumption` (the applicant, whose workspace the
page starts in, is among the roles, and the claims of the roles are among the
backend's actors). `WorkspaceInv` has two halves.

The first is the backend's `BackendInv`, which the page preserves because each
of its steps is one of `BackendNext` or leaves the backend alone
(`PageIsClient`), and the thread of a command through it: the request a command
waits for is its own (`RequestAwaited`), an upload mirrors its document under
its own case (`UploadsMirrored`), and what a command was answered is in the
mirror (`OutcomeMirrored`). The last holds from `succeed` on, because a mirror
that may put back old records never loses an event, nor a document of a case
(`MirrorKept`). That is why the property promises the event or the document and
not the record.

The second half is the page: its types, `SelectionShown`, what was checked when
a command was submitted (`CommandOffered`), and that the load after a command is
of its case and, once answered, contains the outcome (`OutcomeLoaded`), from
which `SuccessCorrect` follows. `SubmissionsCorrect` follows from
`CommandOffered` and `TableMatchesMatrix`: the table and the matrix agree for
every rule and role it allows, but for the two of `UnmatchedOffers`.
`MatchedRolesAuthorised` draws the conclusion for workspaces without these two
roles.

`WorkspaceIsClient` gives the page `BackendSpec`, and with it what the mirror and
the ledger promise.

### Evaluation

Four results, for any number of seeded cases, workers and failed calls, under
`EvaluationCounts` and `IdentifiersAssumption`:

* `WorkersShareCases`: the requests of a round, each worker taking its share,
  name every seeded case and none twice. It is arithmetic on quotient and
  remainder, for shares that differ by one.
* `EvaluationIsClient` and `EvaluationKeepsHistory`: the tools submit
  transactions or nothing, so what the ledger promises holds of the cases they
  leave. `EvaluationInv` is `LedgerInv` and where the tool is in its plan.
* `ReportsCorrect`: `ReportsTruthful`, for the seeding by `SeedingInv`, for the
  suite and the pack by `ScriptInv`.

A call that takes effect is counted for what it adds to the ledger, and a
seeding that stops keeps its count. A second start resets the
count but not the ledger. `SeedingInv` says why no false report comes of that:
an interrupted seeding has left its first case behind, if anything, and the
first call of another start asks for that case and is refused.

What scripts report needs more. A script is first carried out on paper: a
`Situation` is the part of a record that the rules of the scripts look at,
with the documents uploaded so far; `Takes` says what one call does to it, `Leads`
what a sequence of calls does, and `LeadsJoin` puts sequences together, so that
the helpers of the source (baselines, rounds of information, amendments) have a
lemma each. From them follows that each script `Concludes` with its verdict: the nine
with the terminal state the catalogue announces (`ScenariosConclude`), the eight
samples with the state they are to show (`SamplesConclude`). Then the ledger is
held against the paper. `RunningInv` says that the case of the script under way
agrees with a situation from which the rest of the script leads to the verdict, and
that the cases of later scripts do not exist yet. A call that `Takes` is accepted by
the ledger (`TakesAccepts`) and leaves the ledger in agreement with the next situation
(`EffectTakes`); other cases are not touched (`OthersAgree`). So a call fails from
outside only, which is what the suite's errors are measured against. `Accounts`
says that each script that is done has its result or its error, `ReportInv` that
the ledger still shows what was reported, `TrailInv` that no attempt has left an event.

The model's bound on the trail must not get in the way of a script: the longest
takes fourteen events, hence the hypothesis `RoomForScripts`
(`MaxAuditSequence >= 14`; the run has 20). The code has no such bound.

### Only model-checked

* The liveness properties `MirrorCatchesUp` and `EvaluationConcludes`. Of the
  second, the split of the cases is proved; that the rounds are all applied is not.
* That the actions the proofs are about do happen: every run fires all of its
  actions, and every property has a mutant that breaks it.

## 6. Plan

What is left, in the order of importance:

1. document transactions in `FabricLedger`, so that it implements `Chaincode`
   and, through `LedgerSpec`, gives the backend its ledger;
2. the simulator's status and forwarding messages.

## 7. Not modelled

* Wording and layout of the frontend, its forms, filters and verification, and
  `AppCore.tsx`, which nothing imports.
* Metrics and their percentiles: no decision of the system depends on them.
* Gateway sessions, identities, hashing, deployment scripts: input and output.
* The key order of range scans and the timestamps that order the audit
  timeline: the trail is read by sequence number. Two hazards in `PROJECT.json`
  say where that matters.
* The case number: nothing reads it back.
* The benchmark's round of new cases and its rate control; the interoperability
  runner, whose fixed sequence of messages `Simulator` receives in any order.
