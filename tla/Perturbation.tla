---------------------------- MODULE Perturbation ----------------------------
(***************************************************************************)
(* One POST .../versions/{id}/perturb: the gateway's launch_perturbation,  *)
(* the PerturbationWorkflow and its activities.  The parent version exists *)
(* before (launch_perturbation answers 404 otherwise) and is never written *)
(* here: the derived artifact has a key of its own.                        *)
(***************************************************************************)
EXTENDS Integers, FiniteSets

CONSTANTS MaxAttempts,  \* RetryPolicy(maximum_attempts=3)
          MaxFaults     \* bound on lost or failed attempts

ASSUME AttemptsAssumption == MaxAttempts \in Nat \ {0}
ASSUME FaultsAssumption == MaxFaults \in Nat

VARIABLES
  wf, at, faults,  \* the engine: see Temporal
  gw,              \* progress of the launch_perturbation handler
  job,             \* row of perturbation_jobs
  channel,         \* last status published on the Redis channel
  artifact,        \* the derived object exists
  versions,        \* derived dataset_versions rows, by inserting attempt
  seen             \* an attempt's local copy of the job row

(***************************************************************************)
(* PerturbationWorkflow.run                                                *)
(***************************************************************************)
SetRunning == 1
Apply == 2
Register == 3
SetSucceeded == 4
StatusSteps == {SetRunning, SetSucceeded}
Steps == 1..4

INSTANCE Temporal

engineVars == <<wf, at, faults>>
gatewayVars == <<gw>>
vars == <<wf, at, faults, gw, job, channel, artifact, versions, seen>>

StatusAt(s) == IF s = SetRunning THEN "running" ELSE "succeeded"

JobStatus == {"pending", "running", "succeeded", "failed"}
\* result_version_id: 0 is None, n the row inserted by attempt n.
Rows == [status : JobStatus \cup {"none"}, workflow_id : BOOLEAN, result : 0..MaxAttempts]
NoRow == [status |-> "none", workflow_id |-> FALSE, result |-> 0]
RowSteps == StatusSteps \cup {Register}

TypeOK ==
  /\ EngineTypeOK
  /\ gw \in {"idle", "started", "done", "crashed"}
  /\ job \in Rows
  /\ channel \in {"none", "running", "succeeded"}
  /\ artifact \in BOOLEAN
  /\ versions \in SUBSET Attempts
  /\ seen \in [RowSteps \X Attempts -> Rows]

Init ==
  /\ EngineInit
  /\ gw = "idle"
  /\ job = NoRow
  /\ channel = "none"
  /\ artifact = FALSE
  /\ versions = {}
  /\ seen = [id \in RowSteps \X Attempts |-> NoRow]

-----------------------------------------------------------------------------
(* The gateway: launch_perturbation.                                       *)

LaunchPerturbation ==
  /\ gw = "idle"
  /\ StartWorkflow(SetRunning)
  /\ gw' = "started"
  /\ UNCHANGED <<faults, job, channel, artifact, versions, seen>>

\* save_perturbation_job(job): full upsert of the row as built before.
GatewaySaveJob ==
  /\ gw = "started"
  /\ job' = [status |-> "pending", workflow_id |-> TRUE, result |-> 0]
  /\ gw' = "done"
  /\ UNCHANGED <<engineVars, channel, artifact, versions, seen>>

GatewayCrash ==
  /\ gw = "started"
  /\ gw' = "crashed"
  /\ UNCHANGED <<engineVars, job, channel, artifact, versions, seen>>

-----------------------------------------------------------------------------
(* The workflow.                                                           *)

\* Mutant: register_perturbed_version is left out.
AdvanceSkipsRegister ==
  /\ Returned
  /\ CASE wf.pc = SetSucceeded -> Close("completed")
       [] wf.pc = Apply -> Schedule(SetSucceeded)
       [] OTHER -> Schedule(wf.pc + 1)
  /\ UNCHANGED <<faults, gatewayVars, job, channel, artifact, versions, seen>>

Advance ==
  /\ Returned
  /\ IF wf.pc = SetSucceeded THEN Close("completed") ELSE Schedule(wf.pc + 1)
  /\ UNCHANGED <<faults, gatewayVars, job, channel, artifact, versions, seen>>

Fail ==
  /\ Exhausted
  /\ Close("failed")
  /\ UNCHANGED <<gatewayVars, job, channel, artifact, versions, seen>>

RetryActivity ==
  /\ Retry
  /\ UNCHANGED <<gatewayVars, job, channel, artifact, versions, seen>>

ActivityRaises ==
  /\ Raise
  /\ UNCHANGED <<gatewayVars, job, channel, artifact, versions, seen>>

-----------------------------------------------------------------------------
(* The activities.                                                         *)

\* Mutant: the activity waits for the gateway's row.
ReadJobWaits(s, n) ==
  /\ s \in StatusSteps
  /\ at[<<s, n>>] = "begin"
  /\ job # NoRow
  /\ at' = [at EXCEPT ![<<s, n>>] = "read"]
  /\ seen' = [seen EXCEPT ![<<s, n>>] = job]
  /\ UNCHANGED <<wf, faults, gatewayVars, job, channel, artifact, versions>>

\* set_perturbation_status: get_perturbation_job; with no row there is nothing
\* to save and only the publish is left.
ReadJob(s, n) ==
  /\ s \in StatusSteps
  /\ at[<<s, n>>] = "begin"
  /\ at' = [at EXCEPT ![<<s, n>>] = IF job = NoRow THEN "saved" ELSE "read"]
  /\ seen' = [seen EXCEPT ![<<s, n>>] = job]
  /\ UNCHANGED <<wf, faults, gatewayVars, job, channel, artifact, versions>>

\* Mutant: a new record is saved instead of the copy read.
SaveStatusFresh(s, n) ==
  /\ s \in StatusSteps
  /\ at[<<s, n>>] = "read"
  /\ at' = [at EXCEPT ![<<s, n>>] = "saved"]
  /\ job' = [NoRow EXCEPT !.status = StatusAt(s)]
  /\ seen' = [seen EXCEPT ![<<s, n>>] = NoRow]
  /\ UNCHANGED <<wf, faults, gatewayVars, channel, artifact, versions>>

SaveStatus(s, n) ==
  /\ s \in StatusSteps
  /\ at[<<s, n>>] = "read"
  /\ at' = [at EXCEPT ![<<s, n>>] = "saved"]
  /\ job' = [seen[<<s, n>>] EXCEPT !.status = StatusAt(s)]
  /\ seen' = [seen EXCEPT ![<<s, n>>] = NoRow]
  /\ UNCHANGED <<wf, faults, gatewayVars, channel, artifact, versions>>

Publish(s, n) ==
  /\ s \in StatusSteps
  /\ at[<<s, n>>] = "saved"
  /\ at' = [at EXCEPT ![<<s, n>>] = "returned"]
  /\ channel' = StatusAt(s)
  /\ UNCHANGED <<wf, faults, gatewayVars, job, artifact, versions, seen>>

\* apply_perturbation: read the parent artifact, perturb, put the derived one.
ApplyPerturbation(n) ==
  /\ at[<<Apply, n>>] = "begin"
  /\ at' = [at EXCEPT ![<<Apply, n>>] = "returned"]
  /\ artifact' = TRUE
  /\ UNCHANGED <<wf, faults, gatewayVars, job, channel, versions, seen>>

\* Mutant: add_version is not awaited.
InsertVersionNotAwaited(n) ==
  /\ at[<<Register, n>>] = "begin"
  /\ at' = [at EXCEPT ![<<Register, n>>] = "inserted"]
  /\ UNCHANGED <<wf, faults, gatewayVars, job, channel, artifact, versions, seen>>

\* register_perturbed_version: add_version, a fresh row per attempt,
InsertVersion(n) ==
  /\ at[<<Register, n>>] = "begin"
  /\ at' = [at EXCEPT ![<<Register, n>>] = "inserted"]
  /\ versions' = versions \cup {n}
  /\ UNCHANGED <<wf, faults, gatewayVars, job, channel, artifact, seen>>

\* then get_perturbation_job; with no row the stamp is skipped,
ReadForStamp(n) ==
  /\ at[<<Register, n>>] = "inserted"
  /\ at' = [at EXCEPT ![<<Register, n>>] = IF job = NoRow THEN "returned" ELSE "read"]
  /\ seen' = [seen EXCEPT ![<<Register, n>>] = job]
  /\ UNCHANGED <<wf, faults, gatewayVars, job, channel, artifact, versions>>

\* then save_perturbation_job with result_version_id stamped on the copy.
StampResult(n) ==
  /\ at[<<Register, n>>] = "read"
  /\ at' = [at EXCEPT ![<<Register, n>>] = "returned"]
  /\ job' = [seen[<<Register, n>>] EXCEPT !.result = n]
  /\ seen' = [seen EXCEPT ![<<Register, n>>] = NoRow]
  /\ UNCHANGED <<wf, faults, gatewayVars, channel, artifact, versions>>

ActivityStep(s, n) ==
  \/ ReadJob(s, n)
  \/ SaveStatus(s, n)
  \/ Publish(s, n)
  \/ s = Apply /\ ApplyPerturbation(n)
  \/ s = Register /\ InsertVersion(n)
  \/ s = Register /\ ReadForStamp(n)
  \/ s = Register /\ StampResult(n)

-----------------------------------------------------------------------------
Next ==
  \/ LaunchPerturbation
  \/ GatewaySaveJob
  \/ GatewayCrash
  \/ Advance
  \/ Fail
  \/ RetryActivity
  \/ ActivityRaises
  \/ \E s \in Steps, n \in Attempts : ActivityStep(s, n)

Spec == Init /\ [][Next]_vars

\* As in Generation: the server and the attempt it waits for make progress.
FailureHandled == OnActivity /\ at[Current] = "raised" /\ (RetryActivity \/ Fail)
CurrentStep == OnActivity /\ ActivityStep(wf.pc, wf.n)
FairSpec ==
  Spec /\ WF_vars(Advance) /\ WF_vars(FailureHandled) /\ WF_vars(CurrentStep)

-----------------------------------------------------------------------------
(* Properties.                                                             *)

\* What a reader of the job row follows is there: a stamped result_version_id
\* names an inserted version row, and a version row has its artifact.
ResultResolves ==
  /\ job.result # 0 => job.result \in versions
  /\ versions # {} => artifact

\* A stamp is lost only by a lost update: the gateway's save after it started
\* the workflow, or read-modify-writes overlapping because an attempt was lost.
StampLostOnlyByRace ==
  [][(job.result # 0 /\ job'.result = 0) =>
       (gw = "started" /\ gw' # "started") \/ faults > 0]_vars

\* The workflow closes: there is no gate to wait at.
RunCloses == Open ~> wf.state \in Closed

Pub == INSTANCE Publication WITH
         Versions <- Attempts, outcome <- wf.state, released <- wf.state # "none",
         produced <- artifact, published <- versions

\* A perturbation keeps the promise of a generation whose review is waived.
ImplementsPublication == Pub!PubSpec
=============================================================================
