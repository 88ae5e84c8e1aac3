-------------------------- MODULE GenerationReview --------------------------
(***************************************************************************)
(* The review queue in front of a generation: Generation with its          *)
(* reviewers replaced by concurrent POST /reviews/{id}/decision requests.  *)
(* decide_review reads the task, apply_review_decision then talks to the   *)
(* workflow engine and saves the task; other requests run between any two  *)
(* of these awaits.                                                        *)
(***************************************************************************)
EXTENDS Generation

CONSTANT Reviewers   \* clients, each with at most one request in flight

VARIABLES rev,       \* progress of each reviewer's request
          decision,  \* body.decision of that request
          contested  \* history: two requests overlapped, or one died having
                     \* told the workflow and not yet saved the task

reviewVars == <<vars, rev, decision, contested>>

Decisions == {"approve", "reject", "changes_requested"}

\* _STATUS_BY_DECISION
StatusByDecision ==
  [approve |-> "approved", reject |-> "rejected", changes_requested |-> "changes_requested"]

ReviewInit ==
  /\ Init
  /\ rev = [r \in Reviewers |-> "idle"]
  /\ decision = [r \in Reviewers |-> "approve"]
  /\ contested = FALSE

InFlight(r) == rev[r] # "idle"
Overlapping(r) == \E q \in Reviewers \ {r} : InFlight(q)

\* Mutant: the 409 is missing, a decided task is decided again.
DecideUnchecked(r) ==
  /\ rev[r] = "idle"
  /\ task # "none"
  /\ rev' = [rev EXCEPT ![r] = "checked"]
  /\ \E d \in Decisions : decision' = [decision EXCEPT ![r] = d]
  /\ contested' = (contested \/ Overlapping(r))
  /\ UNCHANGED vars

\* decide_review: the task exists (else 404) and is PENDING (else 409).
DecideReview(r) ==
  /\ rev[r] = "idle"
  /\ task = "pending"
  /\ rev' = [rev EXCEPT ![r] = "checked"]
  /\ \E d \in Decisions : decision' = [decision EXCEPT ![r] = d]
  /\ contested' = (contested \/ Overlapping(r))
  /\ UNCHANGED vars

\* apply_review_decision: handle.signal(signal_name)
Signal(r) ==
  /\ rev[r] = "checked"
  /\ decision[r] = "approve"
  /\ SignalApprove
  /\ rev' = [rev EXCEPT ![r] = "acted"]
  /\ UNCHANGED <<decision, contested>>

\* Mutant: a rejection takes no workflow action.
CancelDropped(r) ==
  /\ rev[r] = "checked"
  /\ decision[r] = "reject"
  /\ rev' = [rev EXCEPT ![r] = "acted"]
  /\ UNCHANGED <<vars, decision, contested>>

\* apply_review_decision: handle.cancel()
Cancel(r) ==
  /\ rev[r] = "checked"
  /\ decision[r] = "reject"
  /\ CancelWorkflow
  /\ rev' = [rev EXCEPT ![r] = "acted"]
  /\ UNCHANGED <<decision, contested>>

\* changes_requested: no workflow action.
NoAction(r) ==
  /\ rev[r] = "checked"
  /\ decision[r] = "changes_requested"
  /\ rev' = [rev EXCEPT ![r] = "acted"]
  /\ UNCHANGED <<vars, decision, contested>>

\* The workflow has closed: signal raises, and cancel raises or is ignored,
\* depending on the server; a raise ends the request with a 500.
WorkflowGone(r) ==
  /\ rev[r] = "checked"
  /\ decision[r] # "changes_requested"
  /\ wf.state \in Closed
  /\ rev' \in {[rev EXCEPT ![r] = p] :
                 p \in {"idle"} \cup (IF decision[r] = "reject" THEN {"acted"} ELSE {})}
  /\ UNCHANGED <<vars, decision, contested>>

\* review_repo.save(task): an UPDATE by id, whatever the status is by now.
SaveDecision(r) ==
  /\ rev[r] = "acted"
  /\ task' = StatusByDecision[decision[r]]
  /\ rev' = [rev EXCEPT ![r] = "idle"]
  /\ UNCHANGED <<engineVars, approved, gatewayVars, job, channel, storeVars, seen, decision,
                 contested>>

\* The gateway process of the request dies, or an await of it raises.
RequestDies(r) ==
  /\ InFlight(r)
  /\ rev' = [rev EXCEPT ![r] = "idle"]
  /\ contested' = (contested \/ rev[r] = "acted")
  /\ UNCHANGED <<vars, decision>>

SystemStep ==
  /\ \/ StartGeneration
     \/ GatewaySaveJob
     \/ CreateReviewTask
     \/ GatewayCrash
     \/ Advance
     \/ PassGate
     \/ Fail
     \/ RetryActivity
     \/ ActivityRaises
     \/ WorkflowCancelled
     \/ \E s \in Steps, n \in Attempts : ActivityStep(s, n)
  /\ UNCHANGED <<rev, decision, contested>>

ReviewNext ==
  \/ SystemStep
  \/ \E r \in Reviewers :
       \/ DecideReview(r)
       \/ Signal(r)
       \/ Cancel(r)
       \/ NoAction(r)
       \/ WorkflowGone(r)
       \/ SaveDecision(r)
       \/ RequestDies(r)

ReviewSpec == ReviewInit /\ [][ReviewNext]_reviewVars

-----------------------------------------------------------------------------
(* Properties.                                                             *)

\* A decision is saved only after it was delivered: a task that reads approved
\* has released the gate, one that reads rejected has a workflow that was told
\* to stop or had closed, and this under concurrent and repeated decisions.
DecisionDelivered ==
  /\ task = "approved" => approved
  /\ task = "rejected" => wf.cancel \/ wf.state \in Closed

\* A request that has told the workflow of decision d and will save it.
Delivering(d) == \E r \in Reviewers : rev[r] = "acted" /\ decision[r] = d

\* The converse: what a reviewed workflow was told is what the row says, or what
\* a request is about to save, and it is never told both to go on and to stop.
\* Only requests that overlap, or one that dies between the two awaits, break
\* this: the pending check serialises all the others.
RowTellsDecision ==
  reviewRequired /\ ~contested =>
    /\ approved => task = "approved" \/ Delivering("approve")
    /\ wf.cancel => task = "rejected" \/ Delivering("reject")
    /\ ~(approved /\ wf.cancel)

-----------------------------------------------------------------------------
(* What the code and the documents say, and the code does not do.          *)

\* decide_review answers 409 "review already decided": a decided task keeps its
\* decision.
DecidedOnce == [][(task \in ReviewStatus \ {"pending"}) => task' = task]_reviewVars
=============================================================================
