----------------------------- MODULE Generation -----------------------------
(***************************************************************************)
(* One POST /datasets/{id}/generate from request to dataset version: the   *)
(* gateway's start_generation, the GenerationWorkflow it starts, the       *)
(* activities a worker executes for it, and the rows and objects all of    *)
(* them write.  The gateway and every activity attempt run concurrently;   *)
(* each step below is one await of the code.                               *)
(***************************************************************************)
EXTENDS Integers, FiniteSets

CONSTANTS MaxAttempts,  \* RetryPolicy(maximum_attempts=3)
          MaxFaults,    \* bound on lost or failed attempts
          NShards       \* len(plan_shards(inp))

ASSUME AttemptsAssumption == MaxAttempts \in Nat \ {0}
ASSUME FaultsAssumption == MaxFaults \in Nat
ASSUME ShardsAssumption == NShards \in Nat \ {0}

VARIABLES
  wf, at, faults,   \* the engine: see Temporal
  approved,         \* GenerationWorkflow._approved
  gw,               \* progress of the start_generation handler
  reviewRequired,   \* body.require_review
  job,              \* row of generation_jobs
  task,             \* status column of the job's row in review_tasks
  channel,          \* last payload published on the Redis channel of the job
  stored,           \* shard objects: which generate_shards attempt wrote each
  artifact,         \* artifact object: the shard contents it was assembled from
  versions,         \* dataset_versions rows, by the attempt that inserted each
  seen,             \* a set_status attempt's local copy of the job row
  put,              \* a generate_shards attempt's loop index
  snap              \* an assemble attempt's copy of the shards

(***************************************************************************)
(* GenerationWorkflow.run: position 2 is the review gate.  Progress is in  *)
(* tenths.                                                                 *)
(***************************************************************************)
Gate == 2
Plan == 4
Generate == 5
Assemble == 7
Register == 8
LastStep == 9
StatusSteps == {1, 3, 6, 9}
Steps == StatusSteps \cup {Plan, Generate, Assemble, Register}

\* Mutant: success is reported with the assembled progress.
StatusAtEarly(s) ==
  CASE s = 1 -> "awaiting_review" [] s \in {6, 9} -> "succeeded" [] OTHER -> "running"

StatusAt(s) ==
  CASE s = 1 -> "awaiting_review" [] s = 9 -> "succeeded" [] OTHER -> "running"
\* Mutant: the progress values of two steps are swapped.
ProgressAtSwapped(s) == CASE s = 1 -> 0 [] s = 3 -> 7 [] s = 6 -> 1 [] OTHER -> 10

ProgressAt(s) == CASE s = 1 -> 0 [] s = 3 -> 1 [] s = 6 -> 7 [] OTHER -> 10

INSTANCE Temporal

engineVars == <<wf, at, faults>>
storeVars == <<stored, artifact, versions, put, snap>>
gatewayVars == <<gw, reviewRequired>>
vars == <<wf, at, faults, approved, gw, reviewRequired, job, task, channel,
          stored, artifact, versions, seen, put, snap>>

Shards == 1..NShards
Contents == [Shards -> 0..MaxAttempts]   \* 0: the object does not exist
Empty == [s \in Shards |-> 0]

JobStatus == {"pending", "running", "awaiting_review", "succeeded", "failed"}
Rows == [status : JobStatus \cup {"none"}, progress : {0, 1, 7, 10}, workflow_id : BOOLEAN]
NoRow == [status |-> "none", progress |-> 0, workflow_id |-> FALSE]
ReviewStatus == {"pending", "approved", "rejected", "changes_requested"}

\* The payload json.dumps({"status": ..., "progress": ...}) of a step.
Payload(s) == [status |-> StatusAt(s), progress |-> ProgressAt(s)]
Silent == [status |-> "none", progress |-> 0]

TypeOK ==
  /\ EngineTypeOK
  /\ approved \in BOOLEAN
  /\ gw \in {"idle", "started", "saved", "done", "crashed"}
  /\ reviewRequired \in BOOLEAN
  /\ job \in Rows
  /\ task \in ReviewStatus \cup {"none"}
  /\ channel \in {Silent} \cup {Payload(s) : s \in StatusSteps}
  /\ stored \in Contents
  /\ artifact \in Contents
  /\ versions \in SUBSET Attempts
  /\ seen \in [StatusSteps \X Attempts -> Rows]
  /\ put \in [Attempts -> 0..NShards]
  /\ snap \in [Attempts -> Contents]

Init ==
  /\ EngineInit
  /\ approved = FALSE
  /\ gw = "idle"
  /\ reviewRequired = FALSE
  /\ job = NoRow
  /\ task = "none"
  /\ channel = Silent
  /\ stored = Empty
  /\ artifact = Empty
  /\ versions = {}
  /\ seen = [id \in StatusSteps \X Attempts |-> NoRow]
  /\ put = [n \in Attempts |-> 0]
  /\ snap = [n \in Attempts |-> Empty]

-----------------------------------------------------------------------------
(* The gateway: start_generation.                                          *)

\* start_workflow, with the approval signal unless a review is required.
StartGeneration ==
  /\ gw = "idle"
  /\ StartWorkflow(1)
  /\ gw' = "started"
  /\ reviewRequired' \in BOOLEAN
  /\ approved' = ~reviewRequired'
  /\ UNCHANGED <<faults, job, task, channel, storeVars, seen>>

\* Mutant: the handler ends without the review task.
GatewaySaveJobOnly ==
  /\ gw = "started"
  /\ job' = [status |-> "pending", progress |-> 0, workflow_id |-> TRUE]
  /\ gw' = "done"
  /\ UNCHANGED <<engineVars, approved, reviewRequired, task, channel, storeVars, seen>>

\* save_job(job): a full-column upsert of the row as the handler built it.
GatewaySaveJob ==
  /\ gw = "started"
  /\ job' = [status |-> "pending", progress |-> 0, workflow_id |-> TRUE]
  /\ gw' = IF reviewRequired THEN "saved" ELSE "done"
  /\ UNCHANGED <<engineVars, approved, reviewRequired, task, channel, storeVars, seen>>

CreateReviewTask ==
  /\ gw = "saved"
  /\ task' = "pending"
  /\ gw' = "done"
  /\ UNCHANGED <<engineVars, approved, reviewRequired, job, channel, storeVars, seen>>

\* The process dies, or an await of the handler raises: the rest never runs.
GatewayCrash ==
  /\ gw \in {"started", "saved"}
  /\ gw' = "crashed"
  /\ UNCHANGED <<engineVars, approved, reviewRequired, job, task, channel, storeVars, seen>>

-----------------------------------------------------------------------------
(* The workflow: GenerationWorkflow.run and the engine's retries.          *)

\* Mutant: the version is registered before the artifact is assembled.
AdvanceRegisterFirst ==
  /\ Returned
  /\ CASE wf.pc = 1 -> Park(Gate)
       [] wf.pc = 6 -> Schedule(Register)
       [] wf.pc = Register -> Schedule(Assemble)
       [] wf.pc = Assemble -> Schedule(LastStep)
       [] wf.pc = LastStep -> Close("completed")
       [] OTHER -> Schedule(wf.pc + 1)
  /\ UNCHANGED <<faults, approved, gatewayVars, job, task, channel, storeVars, seen>>

\* Mutant: the version is never registered.
AdvanceUnregistered ==
  /\ Returned
  /\ CASE wf.pc = 1 -> Park(Gate)
       [] wf.pc = Assemble -> Schedule(LastStep)
       [] wf.pc = LastStep -> Close("completed")
       [] OTHER -> Schedule(wf.pc + 1)
  /\ UNCHANGED <<faults, approved, gatewayVars, job, task, channel, storeVars, seen>>

Advance ==
  /\ Returned
  /\ CASE wf.pc = 1 -> Park(Gate)
       [] wf.pc = LastStep -> Close("completed")
       [] OTHER -> Schedule(wf.pc + 1)
  /\ UNCHANGED <<faults, approved, gatewayVars, job, task, channel, storeVars, seen>>

\* Mutant: the workflow does not wait for the approval.
PassGateUnapproved ==
  /\ Open
  /\ wf.pc = Gate
  /\ Schedule(Gate + 1)
  /\ UNCHANGED <<faults, approved, gatewayVars, job, task, channel, storeVars, seen>>

\* Mutant: the workflow goes on only if the row still says awaiting_review.
PassGatePollsRow ==
  /\ Open
  /\ wf.pc = Gate
  /\ approved
  /\ job.status = "awaiting_review"
  /\ Schedule(Gate + 1)
  /\ UNCHANGED <<faults, approved, gatewayVars, job, task, channel, storeVars, seen>>

\* wait_condition(lambda: self._approved) is satisfied.
PassGate ==
  /\ Open
  /\ wf.pc = Gate
  /\ approved
  /\ Schedule(Gate + 1)
  /\ UNCHANGED <<faults, approved, gatewayVars, job, task, channel, storeVars, seen>>

\* run has no try/except: the workflow fails with the activity, and nothing
\* writes JobStatus.FAILED.
Fail ==
  /\ Exhausted
  /\ Close("failed")
  /\ UNCHANGED <<approved, gatewayVars, job, task, channel, storeVars, seen>>

RetryActivity ==
  /\ Retry
  /\ UNCHANGED <<approved, gatewayVars, job, task, channel, storeVars, seen>>

ActivityRaises ==
  /\ Raise
  /\ UNCHANGED <<approved, gatewayVars, job, task, channel, storeVars, seen>>

WorkflowCancelled ==
  /\ Cancelled
  /\ UNCHANGED <<approved, gatewayVars, job, task, channel, storeVars, seen>>

-----------------------------------------------------------------------------
(* The activities, as executed by attempt n of step s.                     *)

\* set_status: job = await ctx.repo.get_job(...)
ReadJob(s, n) ==
  /\ s \in StatusSteps
  /\ at[<<s, n>>] = "begin"
  /\ at' = [at EXCEPT ![<<s, n>>] = "read"]
  /\ seen' = [seen EXCEPT ![<<s, n>>] = job]
  /\ UNCHANGED <<wf, faults, approved, gatewayVars, job, task, channel, storeVars>>

\* set_status: save_job of the copy read (or of a minimal new record, which
\* has no workflow_id) with status and progress replaced.
SaveJob(s, n) ==
  /\ s \in StatusSteps
  /\ at[<<s, n>>] = "read"
  /\ at' = [at EXCEPT ![<<s, n>>] = "saved"]
  /\ job' = [status |-> StatusAt(s), progress |-> ProgressAt(s),
             workflow_id |-> seen[<<s, n>>].workflow_id]
  /\ seen' = [seen EXCEPT ![<<s, n>>] = NoRow]
  /\ UNCHANGED <<wf, faults, approved, gatewayVars, task, channel, storeVars>>

\* set_status: ctx.publisher.publish(...)
Publish(s, n) ==
  /\ s \in StatusSteps
  /\ at[<<s, n>>] = "saved"
  /\ at' = [at EXCEPT ![<<s, n>>] = "returned"]
  /\ channel' = Payload(s)
  /\ UNCHANGED <<wf, faults, approved, gatewayVars, job, task, storeVars, seen>>

PlanShards(n) ==
  /\ at[<<Plan, n>>] = "begin"
  /\ at' = [at EXCEPT ![<<Plan, n>>] = "returned"]
  /\ UNCHANGED <<wf, faults, approved, gatewayVars, job, task, channel, storeVars, seen>>

\* generate_shards: one iteration of the handler's loop, generate and put.
\* The key depends on the job and the index alone, so attempts share it.
PutShard(n) ==
  /\ at[<<Generate, n>>] = "begin"
  /\ put' = [put EXCEPT ![n] = @ + 1]
  /\ stored' = [stored EXCEPT ![put[n] + 1] = n]
  /\ at' = [at EXCEPT ![<<Generate, n>>] =
              IF put[n] + 1 = NShards THEN "returned" ELSE "begin"]
  /\ UNCHANGED <<wf, faults, approved, gatewayVars, job, task, channel,
                 artifact, versions, snap, seen>>

\* assemble: get every shard key; a missing object raises (see Raise).
ReadShards(n) ==
  /\ at[<<Assemble, n>>] = "begin"
  /\ \A s \in Shards : stored[s] # 0
  /\ at' = [at EXCEPT ![<<Assemble, n>>] = "read"]
  /\ snap' = [snap EXCEPT ![n] = stored]
  /\ UNCHANGED <<wf, faults, approved, gatewayVars, job, task, channel,
                 stored, artifact, versions, put, seen>>

\* assemble: put the artifact under the key the version row will refer to.
PutArtifact(n) ==
  /\ at[<<Assemble, n>>] = "read"
  /\ at' = [at EXCEPT ![<<Assemble, n>>] = "returned"]
  /\ artifact' = snap[n]
  /\ snap' = [snap EXCEPT ![n] = Empty]
  /\ UNCHANGED <<wf, faults, approved, gatewayVars, job, task, channel,
                 stored, versions, put, seen>>

\* Mutant: a row per shard instead of one for the artifact.
RegisterVersionPerShard(n) ==
  /\ at[<<Register, n>>] = "begin"
  /\ at' = [at EXCEPT ![<<Register, n>>] = "returned"]
  /\ versions' = versions \cup {k \in Attempts : k <= NShards}
  /\ UNCHANGED <<wf, faults, approved, gatewayVars, job, task, channel,
                 stored, artifact, put, snap, seen>>

\* register_version: add_version inserts a row with a fresh uuid4.
RegisterVersion(n) ==
  /\ at[<<Register, n>>] = "begin"
  /\ at' = [at EXCEPT ![<<Register, n>>] = "returned"]
  /\ versions' = versions \cup {n}
  /\ UNCHANGED <<wf, faults, approved, gatewayVars, job, task, channel,
                 stored, artifact, put, snap, seen>>

ActivityStep(s, n) ==
  \/ ReadJob(s, n)
  \/ SaveJob(s, n)
  \/ Publish(s, n)
  \/ s = Plan /\ PlanShards(n)
  \/ s = Generate /\ PutShard(n)
  \/ s = Assemble /\ ReadShards(n)
  \/ s = Assemble /\ PutArtifact(n)
  \/ s = Register /\ RegisterVersion(n)

-----------------------------------------------------------------------------
(* Reviewers, here an arbitrary environment that holds a review task: see   *)
(* GenerationReview for the decision handler that drives these.             *)

SignalApprove ==
  /\ task # "none"
  /\ Open
  /\ approved' = TRUE
  /\ UNCHANGED <<engineVars, gatewayVars, job, task, channel, storeVars, seen>>

CancelWorkflow ==
  /\ task # "none"
  /\ RequestCancel
  /\ UNCHANGED <<approved, gatewayVars, job, task, channel, storeVars, seen>>

SaveReview ==
  /\ task # "none"
  /\ task' \in ReviewStatus \ {"pending"}
  /\ UNCHANGED <<engineVars, approved, gatewayVars, job, channel, storeVars, seen>>

-----------------------------------------------------------------------------
Next ==
  \/ StartGeneration
  \/ GatewaySaveJob
  \/ CreateReviewTask
  \/ GatewayCrash
  \/ Advance
  \/ PassGate
  \/ Fail
  \/ RetryActivity
  \/ ActivityRaises
  \/ WorkflowCancelled
  \/ \E s \in Steps, n \in Attempts : ActivityStep(s, n)
  \/ SignalApprove
  \/ CancelWorkflow
  \/ SaveReview

Spec == Init /\ [][Next]_vars

(***************************************************************************)
(* Fairness.  The server delivers completions, failures and cancellations, *)
(* and the attempt it waits for moves on (a timed-out one is replaced, and *)
(* faults are bounded).  A start_generation handler that has started the   *)
(* workflow runs on unless it crashes.  Requests, crashes, timeouts,       *)
(* abandoned attempts and reviewers get none: they may never happen.       *)
(***************************************************************************)
FailureHandled == OnActivity /\ at[Current] = "raised" /\ (RetryActivity \/ Fail)
CurrentStep == OnActivity /\ ActivityStep(wf.pc, wf.n)
Fairness ==
  /\ WF_vars(Advance)
  /\ WF_vars(PassGate)
  /\ WF_vars(FailureHandled)
  /\ WF_vars(WorkflowCancelled)
  /\ WF_vars(CurrentStep)
  /\ WF_vars(GatewaySaveJob \/ CreateReviewTask)
FairSpec == Spec /\ Fairness

-----------------------------------------------------------------------------
(* Properties.                                                             *)

\* The HITL gate: no shard, artifact or version exists before approval, also
\* when attempts are retried or outlive their workflow.
NothingBeforeApproval ==
  (stored # Empty \/ artifact # Empty \/ versions # {}) => approved

\* register_version follows assemble_and_upload: whenever a version row is
\* visible, the object its artifact_uri names exists and covers every shard,
\* even while abandoned attempts overwrite shards and artifact.
VersionIsComplete ==
  versions # {} => \A s \in Shards : artifact[s] # 0

\* Whoever is told that the job succeeded (the row, a progress subscriber, the
\* workflow's caller) finds a version: set_status("succeeded") comes last.
SuccessIsRegistered ==
  \/ job.status = "succeeded"
  \/ channel.status = "succeeded"
  \/ wf.state = "completed"
  => versions # {}

\* register_version is not idempotent, but each extra row of a job stands for
\* an attempt that was lost or raised.
DuplicatesNeedFaults == Cardinality(versions) <= faults + 1

Rank(row) ==
  CASE row.status = "none" -> 0
    [] row.status = "pending" -> 1
    [] row.status = "awaiting_review" -> 2
    [] row.status = "succeeded" -> 20
    [] OTHER -> 3 + row.progress

\* The job row moves backwards only through a lost update: the gateway's
\* save_job after start_workflow, or an attempt the server had given up on.
RegressesOnlyByRace ==
  [][Rank(job') < Rank(job) =>
       \/ gw = "started" /\ gw' # "started"
       \/ \E id \in Ids : Abandoned(id) /\ at[id] = "read" /\ at'[id] = "saved"]_vars

\* Once approved or cancelled the workflow does not stay parked: it closes.
GateReleased == (Open /\ (approved \/ wf.cancel)) ~> wf.state \in Closed

\* Unless the handler crashed, a job parked for review gets its review task.
ParkedJobGetsTask ==
  (Open /\ wf.pc = Gate /\ reviewRequired) ~> (task # "none" \/ gw = "crashed")

Pub == INSTANCE Publication WITH
         Versions <- Attempts, outcome <- wf.state, released <- approved,
         produced <- (artifact # Empty), published <- versions

\* Seen through its outcome, approval, artifact and versions, a generation
\* request behaves as Publication promises.
ImplementsPublication == Pub!PubSpec

-----------------------------------------------------------------------------
(* What a docstring says of the code, and the code does not do.            *)

\* set_status fetches and mutates the row because otherwise "fields the gateway
\* set at job creation (workflow_id, message) would be silently wiped".
WorkflowIdKept == gw \in {"saved", "done"} => job.workflow_id
=============================================================================
