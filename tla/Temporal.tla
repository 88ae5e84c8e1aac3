------------------------------ MODULE Temporal ------------------------------
(***************************************************************************)
(* The durable workflow engine, external to the repository, as its three   *)
(* workflows use it: one workflow execution that runs activities one after *)
(* another, each with at most MaxAttempts attempts.  An attempt the server *)
(* gives up on (start_to_close_timeout, a lost completion, a cancelled     *)
(* workflow) is not stopped: the worker may go on executing its code, for  *)
(* none of the activities heartbeats.                                      *)
(***************************************************************************)
EXTENDS Naturals

CONSTANTS Steps,        \* positions in the workflow that execute an activity
          MaxAttempts,  \* RetryPolicy(maximum_attempts=...)
          MaxFaults     \* bound: lost or failed attempts in one behaviour

VARIABLES wf,      \* the execution, as the server's history has it
          at,      \* how far the worker's code of each attempt has come
          faults   \* how many attempts were lost or raised so far

Attempts == 1..MaxAttempts
Ids == Steps \X Attempts

Closed == {"completed", "failed", "cancelled"}
Running == {"begin", "json", "uploaded", "read", "saved", "inserted", "cleared"}
Phases == {"idle", "returned", "raised"} \cup Running

EngineTypeOK ==
  /\ wf \in [state : {"none", "open"} \cup Closed, pc : Nat, n : Nat, cancel : BOOLEAN]
  /\ wf.pc \in Steps => wf.n \in Attempts
  /\ at \in [Ids -> Phases]
  /\ faults \in 0..MaxFaults

EngineInit ==
  /\ wf = [state |-> "none", pc |-> 0, n |-> 0, cancel |-> FALSE]
  /\ at = [id \in Ids |-> "idle"]
  /\ faults = 0

Open == wf.state = "open"
Current == <<wf.pc, wf.n>>
OnActivity == Open /\ wf.pc \in Steps

\* An attempt whose outcome no longer matters to the workflow.
Abandoned(id) == at[id] # "idle" /\ ~(Open /\ id = Current)

\* client.start_workflow: the first activity is dispatched at once.
StartWorkflow(p) ==
  /\ wf.state = "none"
  /\ wf' = [state |-> "open", pc |-> p, n |-> 1, cancel |-> FALSE]
  /\ at' = [at EXCEPT ![<<p, 1>>] = "begin"]

\* await workflow.execute_activity: first attempt of the activity at p.
Schedule(p) ==
  /\ wf' = [wf EXCEPT !.pc = p, !.n = 1]
  /\ at' = [at EXCEPT ![<<p, 1>>] = "begin"]

\* await workflow.wait_condition at p: no activity is in flight.
Park(p) ==
  /\ wf' = [wf EXCEPT !.pc = p, !.n = 0]
  /\ UNCHANGED at

Close(outcome) ==
  /\ wf' = [wf EXCEPT !.state = outcome]
  /\ UNCHANGED at

\* The completion of the current attempt reached the server.
Returned == OnActivity /\ at[Current] = "returned"

\* The code of the current attempt raised: a dependency failed.
Raise ==
  /\ OnActivity
  /\ at[Current] \in Running
  /\ faults < MaxFaults
  /\ faults' = faults + 1
  /\ at' = [at EXCEPT ![Current] = "raised"]
  /\ UNCHANGED wf

\* The server counts the current attempt as lost: it raised, or it timed out
\* (worker crash, lost completion, or code that is still running).
Lost ==
  /\ OnActivity
  /\ \/ at[Current] = "raised" /\ UNCHANGED faults
     \/ at[Current] # "raised" /\ faults < MaxFaults /\ faults' = faults + 1

Retry ==
  /\ Lost
  /\ wf.n < MaxAttempts
  /\ wf' = [wf EXCEPT !.n = @ + 1]
  /\ at' = [at EXCEPT ![<<wf.pc, wf.n + 1>>] = "begin"]

\* All attempts used up: execute_activity raises in the workflow code.
Exhausted == Lost /\ wf.n = MaxAttempts

\* handle.cancel(): recorded for an open workflow.
RequestCancel ==
  /\ Open
  /\ wf' = [wf EXCEPT !.cancel = TRUE]
  /\ UNCHANGED <<at, faults>>

\* The cancellation is delivered: the workflow code lets it propagate, and an
\* activity in flight is abandoned.
Cancelled ==
  /\ Open
  /\ wf.cancel
  /\ Close("cancelled")
  /\ UNCHANGED faults
=============================================================================
