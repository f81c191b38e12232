----------------------------- MODULE Evaluation -----------------------------
(***************************************************************************)
(* The evaluation tools on the deployed system: the scenario suite         *)
(* (scenario-runner "all"), the screenshot pack, and the benchmark         *)
(* seeding followed by the Caliper rounds.  Each tool carries out scripts, *)
(* one case after the other; the suite records a failed scenario and goes  *)
(* on, the others stop at the first failure.                               *)
(*                                                                         *)
(*   tool      the tool that runs                                          *)
(*   phase     running, published (its report is out) or aborted           *)
(*   todo      the scripts to carry out, script the calls left of the first *)
(*   results   what it reports of completed scripts, errors of failed ones *)
(*   tally     the cases and documents it has counted                      *)
(*   failures  the calls that failed for a reason outside the system       *)
(*   round     the benchmark round, sent the requests of each worker       *)
(*   refused   the benchmark requests the ledger refused                   *)
(*                                                                         *)
(* A service call is one transaction of the chaincode; the projection is   *)
(* taken to be in step with it, as nobody else works on these cases.       *)
(***************************************************************************)
EXTENDS Chaincode, Scripts, Functions, TLC

CONSTANTS
  SeedCount,    \* the cases seeded per series
  Workers,      \* the number of benchmark workers
  MaxFailures,  \* bound on the calls that fail
  DocumentIdOf(_, _)  \* the identifier a document of a case is given

ASSUME EvaluationCounts ==
  /\ SeedCount \in Nat \ {0}
  /\ Workers \in Nat \ {0}
  /\ MaxFailures \in Nat

VARIABLES
  tool, phase, todo, script, results, errors, tally, failures,
  round, sent, refused

progress == <<tool, phase, todo, script, results, errors, tally, failures>>
benchmark == <<round, sent, refused>>
evaluationVars == <<chaincodeVars, progress, benchmark>>

-----------------------------------------------------------------------------
(* What each tool has to do. *)

seedId(stem, index) == stem \o "-" \o ToString(index)

\* Each series in turn, each with its cases in turn.
SeedPlan ==
  [i \in 1 .. Len(SeedSeries) * SeedCount |->
     LET series == SeedSeries[((i - 1) \div SeedCount) + 1]
     IN [id |-> seedId(series.id, ((i - 1) % SeedCount) + 1),
         script |-> series.script]]

Plan ==
  [suite   |-> EVALUATION_SCENARIOS,
   pack    |-> ScreenshotSamples,
   seeding |-> SeedPlan]

caseId == Head(todo).id
Call   == Head(script)

\* Every case that some script, or a round, names.
ScriptedCases ==
  (UNION {{Plan[t][i].id : i \in DOMAIN Plan[t]} : t \in DOMAIN Plan})
    \cup {seedId(r.series, i) : r \in Range(BenchmarkRounds), i \in 1 .. SeedCount}

\* Documents are uploaded under identifiers of their own, and the first use of
\* a type may be followed by a second.
ScriptedKeys == [type : DOCUMENT_TYPES, n : {1, 2}]

ASSUME IdentifiersAssumption ==
  /\ ScriptedCases \subseteq CaseIds
  /\ Hashes # {}
  /\ \A case \in ScriptedCases, key \in ScriptedKeys :
       /\ DocumentIdOf(case, key) \in DocumentIds
       /\ \A other \in ScriptedCases, otherKey \in ScriptedKeys :
            DocumentIdOf(case, key) = DocumentIdOf(other, otherKey)
              => case = other /\ key = otherKey

-----------------------------------------------------------------------------
(* One call, as the ledger carries it out. *)

uploadDocument(case, call) ==
  LET payload ==
        [caseId |-> case, documentType |-> call.key.type,
         sha256Hash |-> CHOOSE h \in Hashes : TRUE,
         version |-> call.key.n,
         supersedesDocumentId |-> Undefined, isActive |-> TRUE]
      id == DocumentIdOf(case, call.key)
  IN /\ IF call.supersedes = {}
        THEN Documents!addDocumentReference(id,
               [payload EXCEPT !.version = 1], OfficerOf(call.role))
        ELSE \E key \in call.supersedes :
               Documents!updateDocumentVersion(id,
                 [payload EXCEPT !.supersedesDocumentId = DocumentIdOf(case, key)],
                 OfficerOf(call.role))
     /\ UNCHANGED <<stateIndex, events>>

transitionCase(case, call) ==
  /\ performTransition(case, call.rule, OfficerOf(call.role),
                       {key.type : key \in call.keys},
                       {DocumentIdOf(case, key) : key \in call.keys}, TRUE)
  /\ UNCHANGED <<documents, caseDocuments>>

\* The call takes effect; the reads that end a scenario have none.
Effect(case, call) ==
  \/ /\ call.call = "createDraft"
     /\ createCase(case, OfficerOf(Applicant))
     /\ UNCHANGED <<documents, caseDocuments>>
  \/ call.call = "upload" /\ uploadDocument(case, call)
  \/ call.call \in {"transition", "attempt"} /\ transitionCase(case, call)
  \/ call.call = "finalize" /\ UNCHANGED chaincodeVars

\* What the ledger checks before it writes: the call would take effect.
AcceptsDraft(case) ==
  /\ assertCreateCaseAllowed(OfficerOf(Applicant))
  /\ ~Exists(case)
  /\ MaxAuditSequence >= 1

AcceptsDocument(case, call) ==
  /\ Documents!assertDocumentMutationAllowed(OfficerOf(call.role), call.key.type)
  /\ Exists(case)
  /\ documents[DocumentIdOf(case, call.key)] = NoDocument
  /\ call.supersedes # {} =>
       \E key \in call.supersedes :
         LET superseded == documents[DocumentIdOf(case, key)]
         IN /\ superseded # NoDocument
            /\ superseded.caseId = case
            /\ superseded.documentType = call.key.type
            /\ call.key.n = superseded.version + 1

AcceptsTransition(case, call) ==
  /\ Exists(case)
  /\ cases[case].auditSequenceNumber < MaxAuditSequence
  /\ evaluateTransition(cases[case], call.rule, OfficerOf(call.role),
                        {key.type : key \in call.keys}, TRUE)

Accepts(case, call) ==
  \/ call.call = "createDraft" /\ AcceptsDraft(case)
  \/ call.call = "upload" /\ AcceptsDocument(case, call)
  \/ call.call \in {"transition", "attempt"} /\ AcceptsTransition(case, call)
  \/ call.call = "finalize"

\* What the message of a refusal tells: without a transition from the current
\* state nothing else is looked at, otherwise every reason is listed.
refusalReasons(caseRecord, call) ==
  IF caseRecord.currentState \notin call.rule.from THEN {"no_transition"}
  ELSE {reason \in {"not_allowed", "missing_documents", "record"} :
          CASE reason = "not_allowed" ->
                 ~ActorAllowed(call.rule, OfficerOf(call.role))
            [] reason = "missing_documents" ->
                 ~ (call.rule.requiredDocumentTypes
                      \subseteq {key.type : key \in call.keys})
            [] reason = "record" ->
                 ~RecordAllows(caseRecord, call.rule.action)}

-----------------------------------------------------------------------------
(* Carrying out the scripts. *)

terminalState(case) ==
  IF Call.call = "finalize" /\ Call.override # Undefined THEN Call.override
  ELSE cases'[case].currentState

\* The tool turns to its next script or, after the last one, publishes.
nextScript ==
  /\ todo' = Tail(todo)
  /\ IF todo' = <<>>
     THEN script' = <<>> /\ phase' = "published"
     ELSE script' = Head(todo').script /\ UNCHANGED phase

\* The call has succeeded: the next one, or the result of the script.
advance ==
  IF Len(script) > 1
  THEN script' = Tail(script) /\ UNCHANGED <<todo, phase, results>>
  ELSE /\ results' =
            Append(results, [id |-> caseId, terminalState |-> terminalState(caseId)])
       /\ nextScript

count ==
  tally' = [cases |-> tally.cases + IF Call.call = "createDraft" THEN 1 ELSE 0,
            documents |-> tally.documents + IF Call.call = "upload" THEN 1 ELSE 0]

\* The suite notes the error and goes on; pack and seeding let it end them.
giveUp ==
  /\ IF tool = "suite"
     THEN errors' = Append(errors, caseId) /\ nextScript
     ELSE phase' = "aborted" /\ UNCHANGED <<errors, todo, script>>
  /\ UNCHANGED <<results, tally>>

performCall ==
  /\ phase = "running"
  /\ Call.call # "attempt"
  /\ Effect(caseId, Call)
  /\ advance
  /\ count
  /\ UNCHANGED <<tool, errors, failures, benchmark>>

\* expectScenarioFailure: the attempt is refused for the reason looked for.
expectScenarioFailure ==
  /\ phase = "running"
  /\ Call.call = "attempt"
  /\ Call.expected \in refusalReasons(cases[caseId], Call)
  /\ advance
  /\ UNCHANGED <<chaincodeVars, tool, errors, tally, failures, benchmark>>

\* The call fails by itself: the ledger refuses it or, for an attempt, does
\* anything but refuse it for the reason looked for.
FailsByItself ==
  IF Call.call = "attempt"
  THEN Call.expected \notin refusalReasons(cases[caseId], Call)
  ELSE ~Accepts(caseId, Call)

\* Mutant: once a case exists, an answer with an error status is taken
\* for a result.
failCall_Unnoticed(committed) ==
  /\ phase = "running"
  /\ LET outside == IF FailsByItself THEN 0 ELSE 1
     IN /\ failures + outside <= MaxFailures
        /\ failures' = failures + outside
  /\ IF committed THEN Effect(caseId, Call) ELSE UNCHANGED chaincodeVars
  /\ IF Exists(caseId)
     THEN advance /\ count /\ UNCHANGED errors
     ELSE giveUp
  /\ UNCHANGED <<tool, benchmark>>

\* The call fails, by itself or because a request or its answer is lost, with
\* or without having taken effect.
failCall(committed) ==
  /\ phase = "running"
  /\ LET outside == IF FailsByItself THEN 0 ELSE 1
     IN /\ failures + outside <= MaxFailures
        /\ failures' = failures + outside
  /\ IF committed THEN Effect(caseId, Call) ELSE UNCHANGED chaincodeVars
  /\ giveUp
  /\ UNCHANGED <<tool, benchmark>>

\* An interrupted seeding is started again from its first series.
seedAgain ==
  /\ tool = "seeding"
  /\ phase = "aborted"
  /\ failures > 0
  /\ todo' = Plan[tool] /\ script' = Head(todo').script /\ phase' = "running"
  /\ tally' = [cases |-> 0, documents |-> 0]
  /\ results' = <<>>
  /\ UNCHANGED <<chaincodeVars, tool, errors, failures, benchmark>>

-----------------------------------------------------------------------------
(* The benchmark on the seeded cases. *)

InRounds ==
  /\ tool = "seeding"
  /\ phase = "published"
  /\ round <= Len(BenchmarkRounds)

\* Caliper's split of a round's requests among its workers.
ShareOf(worker) ==
  (SeedCount \div Workers) + IF worker < SeedCount % Workers THEN 1 ELSE 0

\* Mutant: every worker starts at the first case.
buildLogicalIndex_SameStart(startIndex, requestIndex, worker, totalWorkers) ==
  startIndex + requestIndex * totalWorkers

buildLogicalIndex(startIndex, requestIndex, worker, totalWorkers) ==
  startIndex + worker + requestIndex * totalWorkers

\* A worker sends its next request, whatever becomes of the last one.
submitTransaction(worker) ==
  LET request == BenchmarkRounds[round]
      case == seedId(request.series,
                     buildLogicalIndex(1, sent[worker], worker, Workers))
  IN /\ InRounds
     /\ sent[worker] < ShareOf(worker)
     /\ IF Accepts(case, request.call)
        THEN Effect(case, request.call) /\ UNCHANGED refused
        ELSE refused' = refused + 1 /\ UNCHANGED chaincodeVars
     /\ sent' = [sent EXCEPT ![worker] = @ + 1]
     /\ UNCHANGED <<progress, round>>

nextRound ==
  /\ InRounds
  /\ \A worker \in DOMAIN sent : sent[worker] = ShareOf(worker)
  /\ round' = round + 1
  /\ sent' = [worker \in DOMAIN sent |-> 0]
  /\ UNCHANGED <<chaincodeVars, progress, refused>>

-----------------------------------------------------------------------------
EvaluationInit ==
  /\ ChaincodeInit
  /\ tool \in DOMAIN Plan
  /\ todo = Plan[tool] /\ script = Head(todo).script /\ phase = "running"
  /\ results = <<>> /\ errors = <<>>
  /\ tally = [cases |-> 0, documents |-> 0]
  /\ failures = 0
  /\ round = 1 /\ sent = [worker \in 0 .. Workers - 1 |-> 0]
  /\ refused = 0

Proceed ==
  \/ performCall
  \/ expectScenarioFailure
  \/ \E committed \in BOOLEAN : failCall(committed)
  \/ \E worker \in DOMAIN sent : submitTransaction(worker)
  \/ nextRound

EvaluationNext == Proceed \/ seedAgain

\* Every call is answered or fails in the end, and the tool goes on.
EvaluationSpec ==
  EvaluationInit /\ [][EvaluationNext]_evaluationVars
    /\ WF_evaluationVars(Proceed)

-----------------------------------------------------------------------------
(* Properties. *)

StateOf(case) == cases[case].currentState

\* The suite accounts for each scenario once, as a result or as an error, and
\* only a failure from outside makes an error.  A result tells the terminal
\* state of the catalogue and, unless blocked, the one the ledger shows.
SuiteTruthful ==
  LET reported == {r.id : r \in Range(results)}
  IN
  /\ reported \cup Range(errors) = {s.id : s \in Range(EVALUATION_SCENARIOS)}
  /\ Len(results) + Len(errors) = Len(EVALUATION_SCENARIOS)
  /\ Len(errors) <= failures
  /\ \A r \in Range(results), i \in DOMAIN EVALUATION_SCENARIOS :
       EVALUATION_SCENARIOS[i].id = r.id =>
         /\ r.terminalState = expectedTerminalState[i]
         /\ r.terminalState # "blocked" => StateOf(r.id) = r.terminalState

\* A blocked attempt has left no trace on the case it was made on.
AttemptsTraceless ==
  \A s \in Range(EVALUATION_SCENARIOS) : \A call \in Range(s.script) :
    call.call = "attempt" =>
      \A e \in Trail(s.id) : e.actionType # call.rule.action

\* Every sample shows on the ledger what its screenshot is taken for.
PackTruthful ==
  \A i \in DOMAIN ScreenshotSamples :
    /\ results[i].id = ScreenshotSamples[i].id
    /\ results[i].terminalState = ScreenshotSamples[i].shows
    /\ StateOf(results[i].id) = ScreenshotSamples[i].shows

\* The report counts the cases and documents that are on the ledger.
SeedingTruthful ==
  /\ tally.cases = Cardinality({c \in CaseIds : Exists(c)})
  /\ tally.documents = Cardinality({d \in DocumentIds : documents[d] # NoDocument})

RoundsNotBegun == round = 1 /\ \A worker \in DOMAIN sent : sent[worker] = 0

\* Whatever a tool publishes is true of the ledger, although calls fail with
\* and without effect and a seeding may have been started again.
ReportsTruthful ==
  phase = "published" =>
    /\ tool = "suite" => SuiteTruthful /\ AttemptsTraceless
    /\ tool = "pack" => PackTruthful
    /\ tool = "seeding" /\ RoundsNotBegun => SeedingTruthful

\* Every round has been run, no request was refused, and each seeded case is
\* where its round takes it.
RoundsApplied ==
  /\ round > Len(BenchmarkRounds)
  /\ refused = 0
  /\ \A i \in DOMAIN SeedSeries, n \in 1 .. SeedCount :
       StateOf(seedId(SeedSeries[i].id, n)) = StateAfterRounds[i]

\* Every tool comes to an end: the suite publishes whatever fails, pack and
\* seeding publish or stop, and the rounds on a published seeding use each
\* seeded case exactly once, with the workers in any order.
EvaluationConcludes ==
  []<>(CASE tool = "suite"   -> phase = "published"
         [] tool = "pack"    -> phase # "running"
         [] tool = "seeding" -> phase = "aborted" \/ RoundsApplied)

=============================================================================
