----------------------------- MODULE Evaluation -----------------------------
(***************************************************************************)
(* One POST .../versions/{id}/evaluate: the gateway's start_evaluation,    *)
(* the EvaluationWorkflow, its activities and SqlEvaluationRepository.     *)
(* What the judges compute is left to the judges; here an attempt of       *)
(* run_evaluation produces a report of its own, with or without scores.    *)
(***************************************************************************)
EXTENDS Integers, FiniteSets

CONSTANTS MaxAttempts,  \* RetryPolicy(maximum_attempts=2)
          MaxFaults     \* bound on lost or failed attempts

ASSUME AttemptsAssumption == MaxAttempts \in Nat \ {0}
ASSUME FaultsAssumption == MaxFaults \in Nat

VARIABLES
  wf, at, faults,  \* the engine: see Temporal
  gw,              \* progress of the start_evaluation handler
  run,             \* row of evaluation_runs
  json, html,      \* report objects: the attempt whose report each one holds
  results,         \* evaluation_expert_results: attempts with rows in the table
  seen,            \* an attempt's local copy of the run row
  doomed,          \* rows the DELETE of an open transaction has hit
  late             \* history: the gateway saved after a worker had read

(***************************************************************************)
(* EvaluationWorkflow.run; SetFailed is its except branch.                 *)
(***************************************************************************)
SetRunning == 1
RunEval == 2
SetSucceeded == 3
SetFailed == 4
StatusSteps == {SetRunning, SetSucceeded, SetFailed}
Steps == 1..4

INSTANCE Temporal

engineVars == <<wf, at, faults>>
gatewayVars == <<gw, late>>
reportVars == <<json, html, results, doomed>>
vars == <<wf, at, faults, gw, run, json, html, results, seen, doomed, late>>

\* Mutant: the except branch writes running.
StatusAtNeverFailed(s) == IF s = SetSucceeded THEN "succeeded" ELSE "running"

StatusAt(s) ==
  CASE s = SetRunning -> "running" [] s = SetSucceeded -> "succeeded" [] OTHER -> "failed"

EvaluationStatus == {"pending", "running", "succeeded", "failed"}
\* created: the columns only the gateway fills in (workflow_id, config);
\* report: report_uri, report_html_uri and overall_score, by attempt, 0 is None.
Rows == [status : EvaluationStatus \cup {"none"}, created : BOOLEAN, report : 0..MaxAttempts]
NoRow == [status |-> "none", created |-> FALSE, report |-> 0]
NewRow == [status |-> "pending", created |-> FALSE, report |-> 0]

TypeOK ==
  /\ EngineTypeOK
  /\ gw \in {"idle", "started", "done", "crashed"}
  /\ run \in Rows
  /\ json \in 0..MaxAttempts
  /\ html \in 0..MaxAttempts
  /\ results \in SUBSET Attempts
  /\ seen \in [Ids -> Rows]
  /\ doomed \in [Attempts -> SUBSET Attempts]
  /\ late \in BOOLEAN

Init ==
  /\ EngineInit
  /\ gw = "idle"
  /\ run = NoRow
  /\ json = 0
  /\ html = 0
  /\ results = {}
  /\ seen = [id \in Ids |-> NoRow]
  /\ doomed = [n \in Attempts |-> {}]
  /\ late = FALSE

-----------------------------------------------------------------------------
(* The gateway: start_evaluation.                                          *)

StartEvaluation ==
  /\ gw = "idle"
  /\ StartWorkflow(SetRunning)
  /\ gw' = "started"
  /\ UNCHANGED <<faults, run, reportVars, seen, late>>

\* create_run is save_run: a full-column upsert.
CreateRun ==
  /\ gw = "started"
  /\ run' = [NewRow EXCEPT !.created = TRUE]
  /\ gw' = "done"
  /\ late' = \E id \in Ids : at[id] \notin {"idle", "begin"}
  /\ UNCHANGED <<engineVars, reportVars, seen>>

GatewayCrash ==
  /\ gw = "started"
  /\ gw' = "crashed"
  /\ UNCHANGED <<engineVars, run, reportVars, seen, late>>

-----------------------------------------------------------------------------
(* The workflow.                                                           *)

Advance ==
  /\ Returned
  /\ CASE wf.pc = SetSucceeded -> Close("completed")
       [] wf.pc = SetFailed -> Close("failed")
       [] OTHER -> Schedule(wf.pc + 1)
  /\ UNCHANGED <<faults, gatewayVars, run, reportVars, seen>>

\* Only run_evaluation is inside the try: its failure schedules the failed
\* status, that of a status activity fails the workflow at once.
Fail ==
  /\ Exhausted
  /\ IF wf.pc = RunEval THEN Schedule(SetFailed) ELSE Close("failed")
  /\ UNCHANGED <<gatewayVars, run, reportVars, seen>>

RetryActivity ==
  /\ Retry
  /\ UNCHANGED <<gatewayVars, run, reportVars, seen>>

ActivityRaises ==
  /\ Raise
  /\ UNCHANGED <<gatewayVars, run, reportVars, seen>>

-----------------------------------------------------------------------------
(* The activities.                                                         *)

\* Mutant: the row is updated before the report is uploaded.
ReadRunEarly(s, n) ==
  /\ at[<<s, n>>] = "begin"
  /\ at' = [at EXCEPT ![<<s, n>>] = "read"]
  /\ seen' = [seen EXCEPT ![<<s, n>>] = IF run = NoRow THEN NewRow ELSE run]
  /\ UNCHANGED <<wf, faults, gatewayVars, run, reportVars>>

\* Mutant: the activity waits for the gateway's row.
ReadRunWaits(s, n) ==
  /\ at[<<s, n>>] = IF s = RunEval THEN "uploaded" ELSE "begin"
  /\ run # NoRow
  /\ at' = [at EXCEPT ![<<s, n>>] = "read"]
  /\ seen' = [seen EXCEPT ![<<s, n>>] = run]
  /\ UNCHANGED <<wf, faults, gatewayVars, run, reportVars>>

\* get_run, or a new record when there is no row: in set_eval_status at once,
\* in run_evaluation after the uploads.
ReadRun(s, n) ==
  /\ at[<<s, n>>] = IF s = RunEval THEN "uploaded" ELSE "begin"
  /\ at' = [at EXCEPT ![<<s, n>>] = "read"]
  /\ seen' = [seen EXCEPT ![<<s, n>>] = IF run = NoRow THEN NewRow ELSE run]
  /\ UNCHANGED <<wf, faults, gatewayVars, run, reportVars>>

\* set_eval_status: save_run with status and progress replaced.
SaveStatus(s, n) ==
  /\ s \in StatusSteps
  /\ at[<<s, n>>] = "read"
  /\ at' = [at EXCEPT ![<<s, n>>] = "returned"]
  /\ run' = [seen[<<s, n>>] EXCEPT !.status = StatusAt(s)]
  /\ seen' = [seen EXCEPT ![<<s, n>>] = NoRow]
  /\ UNCHANGED <<wf, faults, gatewayVars, reportVars>>

\* run_evaluation: load, judge, aggregate, then put report.json and
PutJson(n) ==
  /\ at[<<RunEval, n>>] = "begin"
  /\ at' = [at EXCEPT ![<<RunEval, n>>] = "json"]
  /\ json' = n
  /\ UNCHANGED <<wf, faults, gatewayVars, run, html, results, seen, doomed>>

\* put report.html, both under keys of the run.
PutHtml(n) ==
  /\ at[<<RunEval, n>>] = "json"
  /\ at' = [at EXCEPT ![<<RunEval, n>>] = "uploaded"]
  /\ html' = n
  /\ UNCHANGED <<wf, faults, gatewayVars, run, json, results, seen, doomed>>

\* save_run with the report columns replaced.  add_expert_results returns at
\* once when no judge produced a score.
SaveReport(n) ==
  /\ at[<<RunEval, n>>] = "read"
  /\ \E next \in {"saved", "returned"} : at' = [at EXCEPT ![<<RunEval, n>>] = next]
  /\ run' = [seen[<<RunEval, n>>] EXCEPT !.report = n]
  /\ seen' = [seen EXCEPT ![<<RunEval, n>>] = NoRow]
  /\ UNCHANGED <<wf, faults, gatewayVars, reportVars>>

\* add_expert_results: the DELETE hits the rows committed by now, and
DeleteResults(n) ==
  /\ at[<<RunEval, n>>] = "saved"
  /\ at' = [at EXCEPT ![<<RunEval, n>>] = "cleared"]
  /\ doomed' = [doomed EXCEPT ![n] = results]
  /\ UNCHANGED <<wf, faults, gatewayVars, run, json, html, results, seen>>

\* the INSERT joins it in one transaction.
CommitResults(n) ==
  /\ at[<<RunEval, n>>] = "cleared"
  /\ at' = [at EXCEPT ![<<RunEval, n>>] = "returned"]
  /\ results' = (results \ doomed[n]) \cup {n}
  /\ doomed' = [doomed EXCEPT ![n] = {}]
  /\ UNCHANGED <<wf, faults, gatewayVars, run, json, html, seen>>

ActivityStep(s, n) ==
  \/ ReadRun(s, n)
  \/ SaveStatus(s, n)
  \/ s = RunEval /\ PutJson(n)
  \/ s = RunEval /\ PutHtml(n)
  \/ s = RunEval /\ SaveReport(n)
  \/ s = RunEval /\ DeleteResults(n)
  \/ s = RunEval /\ CommitResults(n)

-----------------------------------------------------------------------------
Next ==
  \/ StartEvaluation
  \/ CreateRun
  \/ GatewayCrash
  \/ Advance
  \/ Fail
  \/ RetryActivity
  \/ ActivityRaises
  \/ \E s \in Steps, n \in Attempts : ActivityStep(s, n)

Spec == Init /\ [][Next]_vars

\* As in Generation: the server and the attempt it waits for make progress.
FailureHandled == OnActivity /\ at[Current] = "raised" /\ (RetryActivity \/ Fail)
CurrentStep == OnActivity /\ ActivityStep(wf.pc, wf.n)
FairSpec ==
  Spec /\ WF_vars(Advance) /\ WF_vars(FailureHandled) /\ WF_vars(CurrentStep)

-----------------------------------------------------------------------------
(* Properties.                                                             *)

\* No attempt was superseded while its code might still run.
OnlyRaises ==
  \A s \in Steps, n \in Attempts :
    \/ at[<<s, n>>] \in {"idle", "raised"}
    \/ n = MaxAttempts \/ at[<<s, n + 1>>] = "idle"

\* GET .../report follows report_uri and report_html_uri: once either is in the
\* row both objects exist, and a run that says succeeded has both; the expert
\* scores beside them are those of one attempt unless one was superseded.
ReportResolves ==
  /\ (run.report # 0 \/ run.status = "succeeded" \/ wf.state = "completed")
       => json # 0 /\ html # 0
  /\ OnlyRaises => Cardinality(results) <= 1

\* The except branch tells: when run_evaluation raised in every attempt and the
\* failed status was saved, the closed workflow leaves a row that says failed.
FailureIsRecorded ==
  /\ wf.state = "failed"
  /\ wf.pc = SetFailed /\ at[Current] = "returned"
  /\ at[<<RunEval, MaxAttempts>>] = "raised" /\ OnlyRaises
  /\ gw = "done" /\ ~late
  => run.status = "failed"

\* The workflow closes, also through its except branch.
RunCloses == Open ~> wf.state \in Closed
=============================================================================
