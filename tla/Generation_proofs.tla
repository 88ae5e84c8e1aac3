------------------------- MODULE Generation_proofs --------------------------
(***************************************************************************)
(* Proofs about a generation request for every number of attempts, faults  *)
(* and shards.  The invariant orders the workflow's history: an attempt    *)
(* exists only for a position the workflow has reached, the workflow moves *)
(* past a position only when an attempt of it returned, and what an        *)
(* activity leaves behind is never undone, whatever older attempts do.     *)
(*                                                                         *)
(* The last part is about concurrent review decisions, for every set of    *)
(* reviewers: the review queue is shown to implement Generation, which     *)
(* brings the invariant with it, and a decision is followed from the       *)
(* request that took it to the row it is saved in.                         *)
(***************************************************************************)
EXTENDS GenerationReview, FiniteSetTheorems, TLAPS

\* Where the workflow can be, and where it must be to have completed.
Position ==
  /\ wf.state = "none" => wf.pc = 0
  /\ wf.state # "none" => wf.pc \in Steps \cup {Gate}
  /\ wf.state = "completed" => wf.pc = LastStep

\* Attempts exist only for positions reached, in the order of their numbers,
\* and the attempt the workflow waits for exists.
Started ==
  /\ \A id \in Ids : at[id] # "idle" =>
       /\ wf.state # "none"
       /\ id[1] < wf.pc \/ (id[1] = wf.pc /\ id[2] <= wf.n)
  /\ wf.state = "open" /\ wf.pc \in Steps => at[<<wf.pc, wf.n>>] # "idle"

\* An attempt's number, one more if it raised, is paid for with faults.
Paid ==
  \A id \in Ids :
    /\ at[id] # "idle" => id[2] <= faults + 1
    /\ at[id] = "raised" => id[2] <= faults

\* The gate: beyond it the workflow is approved.
Gated == wf.pc > Gate => approved

\* generate_shards: the loop index bounds the shards stored, and the workflow
\* goes on only when all of them are.
ShardsKept ==
  /\ \A n \in Attempts :
       /\ at[<<Generate, n>>] = "idle" => put[n] = 0
       /\ at[<<Generate, n>>] = "begin" => put[n] < NShards
       /\ at[<<Generate, n>>] = "returned" => put[n] = NShards
       /\ at[<<Generate, n>>] \in {"idle", "begin", "returned", "raised"}
       /\ \A s \in Shards : s <= put[n] => stored[s] # 0
  /\ stored # Empty => wf.pc >= Generate

Full(contents) == \A s \in Shards : contents[s] # 0

\* assemble_and_upload works on a full copy, and the artifact stays full.
ArtifactKept ==
  /\ \A n \in Attempts :
       /\ at[<<Assemble, n>>] = "read" => Full(snap[n])
       /\ at[<<Assemble, n>>] = "returned" => Full(artifact)
  /\ artifact # Empty => Full(artifact)
  /\ artifact # Empty => wf.pc >= Assemble
  /\ wf.pc > Assemble => Full(artifact)

\* register_version: a row per attempt that returned.
VersionsKept ==
  /\ \A n \in Attempts : at[<<Register, n>>] = "returned" => n \in versions
  /\ \A n \in versions : at[<<Register, n>>] = "returned"
  /\ wf.pc > Register => versions # {}

\* The rank of the status written last if the workflow is at p.
RankBound(p) ==
  CASE p <= Gate -> 2 [] p \in 3..5 -> 4 [] p \in 6..8 -> 10 [] OTHER -> 20

\* The row and the channel are never ahead of the workflow.
Reported ==
  /\ job.status = "succeeded" => wf.pc = LastStep
  /\ channel.status = "succeeded" => wf.pc = LastStep
  /\ Rank(job) <= RankBound(wf.pc)

GenInv ==
  /\ TypeOK
  /\ Position
  /\ Started
  /\ Paid
  /\ Gated
  /\ ShardsKept
  /\ ArtifactKept
  /\ VersionsKept
  /\ Reported

-----------------------------------------------------------------------------
(* Constants, and the positions the workflow goes through.                 *)

\* The positions as numbers.
LEMMA Numbers ==
  /\ Steps = {1, 3, 4, 5, 6, 7, 8, 9}
  /\ StatusSteps \subseteq Steps
  /\ Gate = 2 /\ Plan = 4 /\ Generate = 5 /\ Assemble = 7 /\ Register = 8 /\ LastStep = 9
  BY DEF Steps, StatusSteps, Gate, Plan, Generate, Assemble, Register, LastStep

\* The sets of attempts and shards are not empty.
LEMMA Domains ==
  /\ Attempts = 1..MaxAttempts /\ 1 \in Attempts
  /\ Shards = 1..NShards /\ 1 \in Shards
  /\ Empty \in Contents
  /\ \A s \in Shards : Empty[s] = 0
  BY AttemptsAssumption, ShardsAssumption DEF Attempts, Shards, Empty, Contents

\* The initial state is well typed.
LEMMA TypeInit == Init => TypeOK
<1> SUFFICES ASSUME Init PROVE TypeOK
  OBVIOUS
<1>1. EngineTypeOK
  BY FaultsAssumption, Numbers DEF Init, EngineInit, EngineTypeOK, Phases
<1>2. /\ job \in Rows
      /\ channel \in {Silent}
      /\ seen \in [StatusSteps \X Attempts -> Rows]
  BY DEF Init, Rows, NoRow, JobStatus
<1>3. put \in [Attempts -> 0..NShards] /\ snap \in [Attempts -> Contents]
  BY Domains, ShardsAssumption DEF Init
<1> QED
  BY <1>1, <1>2, <1>3, Domains DEF Init, TypeOK

-----------------------------------------------------------------------------
(* What a step does to the engine's variables.                             *)

\* The steps of the gateway, the reviewers and the server.
ServerStep ==
  \/ StartGeneration \/ GatewaySaveJob \/ CreateReviewTask \/ GatewayCrash
  \/ Advance \/ PassGate \/ Fail \/ RetryActivity \/ ActivityRaises
  \/ WorkflowCancelled \/ SignalApprove \/ CancelWorkflow \/ SaveReview

\* A step is the server's side or one attempt's.
LEMMA NextCases ==
  Next <=> ServerStep \/ \E s \in Steps, n \in Attempts : ActivityStep(s, n)
  BY DEF Next, ServerStep

\* A worker's step changes its own attempt and nothing else of the engine.
LEMMA WorkerEffect ==
  ASSUME NEW s \in Steps, NEW n \in Attempts, ActivityStep(s, n)
  PROVE  /\ UNCHANGED <<wf, faults, approved, gw, reviewRequired, task>>
         /\ at[<<s, n>>] \in {"begin", "read", "saved"}
         /\ \E x \in {"begin", "read", "saved", "returned"} :
              at' = [at EXCEPT ![<<s, n>>] = x]
  BY Zenon DEF ActivityStep, ReadJob, SaveJob, Publish, PlanShards, PutShard,
     ReadShards, PutArtifact, RegisterVersion, gatewayVars

Executions ==
  [state : {"none", "open"} \cup Closed, pc : Nat, n : Nat, cancel : BOOLEAN]

Moves(st, p, n) ==
  /\ wf' \in Executions
  /\ wf'.state = st /\ wf'.pc = p /\ wf'.n = n

Begins(p, n) ==
  /\ p \in Steps /\ n \in Attempts
  /\ Moves("open", p, n)
  /\ at' = [at EXCEPT ![<<p, n>>] = "begin"]

AwaitsReturned ==
  /\ wf.state = "open" /\ wf.pc \in Steps /\ wf.n \in Attempts
  /\ at[<<wf.pc, wf.n>>] = "returned"

\* The shapes a server step can have.
Same == UNCHANGED <<wf, at, faults>>
Starts == wf.state = "none" /\ Begins(1, 1) /\ UNCHANGED faults
Parks == AwaitsReturned /\ wf.pc = 1 /\ Moves("open", Gate, 0) /\ UNCHANGED <<at, faults>>
GoesOn == AwaitsReturned /\ Begins(wf.pc + 1, 1) /\ UNCHANGED faults
Passes ==
  wf.state = "open" /\ wf.pc = Gate /\ approved /\ Begins(Gate + 1, 1) /\ UNCHANGED faults
Retries ==
  /\ wf.state = "open" /\ wf.pc \in Steps /\ wf.n \in Attempts
  /\ Begins(wf.pc, wf.n + 1)
  /\ \/ at[<<wf.pc, wf.n>>] = "raised" /\ UNCHANGED faults
     \/ faults < MaxFaults /\ faults' = faults + 1
Raises ==
  /\ wf.state = "open" /\ wf.pc \in Steps /\ wf.n \in Attempts
  /\ at[<<wf.pc, wf.n>>] \in Running
  /\ at' = [at EXCEPT ![<<wf.pc, wf.n>>] = "raised"]
  /\ faults < MaxFaults /\ faults' = faults + 1 /\ UNCHANGED wf
Stops ==
  /\ wf.state = "open" /\ UNCHANGED at
  /\ faults' \in {faults, faults + 1} /\ faults' <= MaxFaults
  /\ \E x \in {"open", "failed", "cancelled"} : Moves(x, wf.pc, wf.n)
Completes ==
  /\ AwaitsReturned /\ wf.pc = LastStep
  /\ Moves("completed", wf.pc, wf.n) /\ UNCHANGED <<at, faults>>

Shapes ==
  \/ Same \/ Starts \/ Parks \/ GoesOn \/ Passes
  \/ Retries \/ Raises \/ Stops \/ Completes

\* Every action of gateway, reviewers and server has one of the shapes.
LEMMA ServerShapes ==
  ASSUME TypeOK, Position, ServerStep
  PROVE  Shapes
<1>1. /\ wf \in Executions
      /\ wf.pc \in Steps => wf.n \in Attempts
      /\ faults \in 0..MaxFaults
  BY DEF TypeOK, EngineTypeOK, Executions
<1>2. CASE GatewaySaveJob \/ CreateReviewTask \/ GatewayCrash \/ SignalApprove \/ SaveReview
  BY <1>2 DEF GatewaySaveJob, CreateReviewTask, GatewayCrash, SignalApprove,
              SaveReview, engineVars, Shapes, Same
<1>3. CASE StartGeneration
  BY <1>3, <1>1, Numbers, Domains
     DEF StartGeneration, StartWorkflow, Shapes, Starts, Begins, Moves, Executions
<1>4. CASE Advance
  <2>1. AwaitsReturned /\ UNCHANGED faults
    BY <1>4, <1>1 DEF Advance, Returned, OnActivity, Open, Current, AwaitsReturned
  <2>2. CASE wf.pc = 1
    <3>1. wf' = [wf EXCEPT !.pc = Gate, !.n = 0] /\ UNCHANGED at
      BY <1>4, <2>2, Numbers DEF Advance, Park
    <3>2. Moves("open", Gate, 0)
      BY <3>1, <2>1, <1>1, Numbers DEF Moves, Executions, AwaitsReturned
    <3> QED
      BY <3>1, <3>2, <2>1, <2>2 DEF Shapes, Parks
  <2>3. CASE wf.pc = LastStep
    <3>1. wf' = [wf EXCEPT !.state = "completed"] /\ UNCHANGED at
      BY <1>4, <2>3, Numbers DEF Advance, Close
    <3>2. Moves("completed", wf.pc, wf.n)
      BY <3>1, <1>1 DEF Moves, Executions, Closed
    <3> QED
      BY <3>1, <3>2, <2>1, <2>3 DEF Shapes, Completes
  <2>4. CASE wf.pc # 1 /\ wf.pc # LastStep
    <3>1. /\ wf' = [wf EXCEPT !.pc = wf.pc + 1, !.n = 1]
          /\ at' = [at EXCEPT ![<<wf.pc + 1, 1>>] = "begin"]
      BY <1>4, <2>4 DEF Advance, Schedule
    <3>2. wf.pc + 1 \in Steps /\ wf.pc + 1 \in Nat
      BY <2>1, <2>4, Numbers DEF AwaitsReturned
    <3>3. Moves("open", wf.pc + 1, 1)
      BY <3>1, <3>2, <2>1, <1>1 DEF Moves, Executions, AwaitsReturned
    <3> QED
      BY <3>1, <3>2, <3>3, <2>1, Domains DEF Shapes, GoesOn, Begins
  <2> QED
    BY <2>2, <2>3, <2>4
<1>5. CASE PassGate
  <2>1. /\ wf.state = "open" /\ wf.pc = Gate /\ approved /\ UNCHANGED faults
        /\ wf' = [wf EXCEPT !.pc = Gate + 1, !.n = 1]
        /\ at' = [at EXCEPT ![<<Gate + 1, 1>>] = "begin"]
    BY <1>5 DEF PassGate, Open, Schedule
  <2>2. Gate + 1 \in Nat /\ Gate + 1 \in Steps
    BY Numbers
  <2>3. Moves("open", Gate + 1, 1)
    BY <2>1, <2>2, <1>1 DEF Moves, Executions
  <2> QED
    BY <2>1, <2>2, <2>3, Domains DEF Shapes, Passes, Begins
<1>6. CASE Fail
  <2>1. /\ wf.state = "open" /\ UNCHANGED at
        /\ wf' = [wf EXCEPT !.state = "failed"]
        /\ faults' \in {faults, faults + 1} /\ faults' <= MaxFaults
    BY <1>6, <1>1, FaultsAssumption
       DEF Fail, Exhausted, Lost, OnActivity, Open, Close
  <2>2. Moves("failed", wf.pc, wf.n)
    BY <2>1, <1>1 DEF Moves, Executions, Closed
  <2> QED
    BY <2>1, <2>2 DEF Shapes, Stops
<1>7. CASE RetryActivity
  <2>1. /\ wf.state = "open" /\ wf.pc \in Steps /\ wf.n < MaxAttempts
        /\ wf' = [wf EXCEPT !.n = wf.n + 1]
        /\ at' = [at EXCEPT ![<<wf.pc, wf.n + 1>>] = "begin"]
        /\ \/ at[<<wf.pc, wf.n>>] = "raised" /\ UNCHANGED faults
           \/ faults < MaxFaults /\ faults' = faults + 1
    BY <1>7, <1>1 DEF RetryActivity, Retry, Lost, OnActivity, Open, Current
  <2>2. wf.n \in Attempts /\ wf.n + 1 \in Attempts /\ wf.n + 1 \in Nat
    BY <2>1, <1>1, Domains, AttemptsAssumption
  <2>3. Moves("open", wf.pc, wf.n + 1)
    BY <2>1, <2>2, <1>1 DEF Moves, Executions
  <2> QED
    BY <2>1, <2>2, <2>3 DEF Shapes, Retries, Begins
<1>8. CASE ActivityRaises
  BY <1>8, <1>1 DEF ActivityRaises, Raise, OnActivity, Open, Current, Shapes, Raises
<1>9. CASE WorkflowCancelled
  <2>1. /\ wf.state = "open" /\ UNCHANGED <<at, faults>>
        /\ wf' = [wf EXCEPT !.state = "cancelled"]
    BY <1>9 DEF WorkflowCancelled, Cancelled, Open, Close
  <2>2. Moves("cancelled", wf.pc, wf.n)
    BY <2>1, <1>1 DEF Moves, Executions, Closed
  <2> QED
    BY <2>1, <2>2, <1>1, FaultsAssumption DEF Shapes, Stops
<1>10. CASE CancelWorkflow
  <2>1. /\ wf.state = "open" /\ UNCHANGED <<at, faults>>
        /\ wf' = [wf EXCEPT !.cancel = TRUE]
    BY <1>10 DEF CancelWorkflow, RequestCancel, Open
  <2>2. Moves("open", wf.pc, wf.n)
    BY <2>1, <1>1 DEF Moves, Executions
  <2> QED
    BY <2>1, <2>2, <1>1, FaultsAssumption DEF Shapes, Stops
<1> QED
  BY <1>2, <1>3, <1>4, <1>5, <1>6, <1>7, <1>8, <1>9, <1>10 DEF ServerStep

\* The shapes keep the engine's types, and no position or fault is taken back.
LEMMA ShapesTyped ==
  ASSUME EngineTypeOK, Position, Shapes
  PROVE  EngineTypeOK' /\ wf'.pc >= wf.pc /\ faults' >= faults
<1>1. /\ wf \in Executions /\ (wf.pc \in Steps => wf.n \in Attempts)
      /\ at \in [Ids -> Phases] /\ faults \in 0..MaxFaults
      /\ wf.pc \in Nat /\ wf.n \in Nat
  BY DEF EngineTypeOK, Executions
<1>2. {"begin", "raised"} \subseteq Phases
  BY DEF Phases, Running
<1> DEFINE Goal == /\ wf' \in Executions /\ (wf'.pc \in Steps => wf'.n \in Attempts)
                   /\ at' \in [Ids -> Phases]
                   /\ faults' \in 0..MaxFaults /\ faults' >= faults
                   /\ wf'.pc >= wf.pc
<1> SUFFICES Goal
  BY DEF EngineTypeOK, Executions
<1>3. CASE Same \/ Parks \/ Stops \/ Completes
  BY <1>1, <1>3, Numbers, FaultsAssumption
     DEF Same, Parks, Stops, Completes, Moves, AwaitsReturned
<1>4. CASE Starts
  BY <1>1, <1>2, <1>4, Numbers DEF Starts, Begins, Moves, Position, Ids
<1>5. CASE GoesOn
  BY <1>1, <1>2, <1>5, Numbers DEF GoesOn, Begins, Moves, AwaitsReturned, Ids
<1>6. CASE Passes
  BY <1>1, <1>2, <1>6, Numbers DEF Passes, Begins, Moves, Ids
<1>7. CASE Retries
  BY <1>1, <1>2, <1>7, Numbers, FaultsAssumption DEF Retries, Begins, Moves, Ids
<1>8. CASE Raises
  BY <1>1, <1>2, <1>8, Numbers, FaultsAssumption DEF Raises, Ids
<1> QED
  BY <1>3, <1>4, <1>5, <1>6, <1>7, <1>8 DEF Shapes

\* The workflow stays at the positions of run, and completes at the last.
LEMMA ShapesPosition ==
  ASSUME EngineTypeOK, Position, Shapes
  PROVE  Position'
  BY Numbers DEF Shapes, Same, Starts, Parks, GoesOn, Passes, Retries, Raises, Stops,
     Completes, AwaitsReturned, Begins, Moves, Position

\* Dispatching an attempt touches no other attempt.
LEMMA BeginsSlots ==
  ASSUME EngineTypeOK, NEW p, NEW n, Begins(p, n), NEW id \in Ids
  PROVE  /\ at'[id] = (IF id = <<p, n>> THEN "begin" ELSE at[id])
         /\ id = <<id[1], id[2]>> /\ id[1] \in Steps /\ id[2] \in Attempts
  BY DEF EngineTypeOK, Begins, Ids

\* A dispatched attempt is at a position reached.
LEMMA ShapesStarted ==
  ASSUME EngineTypeOK, Position, Started, Shapes
  PROVE  Started'
<1>1. /\ wf \in Executions /\ wf.pc \in Nat /\ wf.n \in Nat
      /\ at \in [Ids -> Phases]
  BY DEF EngineTypeOK, Executions
<1>0. wf'.state = "open" /\ wf'.pc \in Steps => at'[<<wf'.pc, wf'.n>>] # "idle"
  <2>1. CASE Same \/ Stops
    BY <2>1 DEF Same, Stops, Moves, Started
  <2>2. CASE Parks \/ Completes
    BY <2>2, Numbers DEF Parks, Completes, Moves
  <2>3. ASSUME NEW p, NEW n, Begins(p, n) PROVE at'[<<wf'.pc, wf'.n>>] # "idle"
    BY <2>3, <1>1 DEF Begins, Moves, Ids
  <2>4. CASE Raises
    BY <2>4, <1>1 DEF Raises, Ids
  <2> QED
    BY <2>1, <2>2, <2>3, <2>4 DEF Shapes, Starts, GoesOn, Passes, Retries
<1> SUFFICES ASSUME NEW id \in Ids, at'[id] # "idle"
             PROVE  /\ wf'.state # "none"
                    /\ id[1] < wf'.pc \/ (id[1] = wf'.pc /\ id[2] <= wf'.n)
  BY <1>0 DEF Started
<1>2. /\ id[1] \in Nat /\ id[2] \in Nat
      /\ at[id] # "idle" => /\ wf.state # "none"
                            /\ id[1] < wf.pc \/ (id[1] = wf.pc /\ id[2] <= wf.n)
  BY Numbers, Domains DEF Started, Ids
<1>3. CASE Same \/ Parks \/ Stops \/ Completes
  BY <1>1, <1>2, <1>3, Numbers DEF Same, Parks, Stops, Completes, Moves, AwaitsReturned
<1>4. CASE Starts
  BY <1>1, <1>2, <1>4, BeginsSlots DEF Starts, Begins, Moves
<1>5. CASE GoesOn
  BY <1>1, <1>2, <1>5, BeginsSlots DEF GoesOn, Begins, Moves
<1>6. CASE Passes
  BY <1>1, <1>2, <1>6, BeginsSlots, Numbers DEF Passes, Begins, Moves
<1>7. CASE Retries
  BY <1>1, <1>2, <1>7, BeginsSlots DEF Retries, Begins, Moves
<1>8. CASE Raises
  BY <1>1, <1>2, <1>8 DEF Raises, Ids
<1> QED
  BY <1>3, <1>4, <1>5, <1>6, <1>7, <1>8 DEF Shapes

\* A retry follows a raise that was counted, or is counted itself.
LEMMA ShapesPaid ==
  ASSUME EngineTypeOK, Started, Paid, Shapes
  PROVE  Paid'
<1>1. /\ faults \in Nat /\ faults' \in Nat /\ faults' >= faults
      /\ at \in [Ids -> Phases]
  BY FaultsAssumption DEF EngineTypeOK, Shapes, Same, Starts, Parks, GoesOn, Passes,
     Retries, Raises, Stops, Completes
<1> SUFFICES ASSUME NEW id \in Ids
             PROVE  /\ at'[id] # "idle" => id[2] <= faults' + 1
                    /\ at'[id] = "raised" => id[2] <= faults'
  BY DEF Paid
<1>2. /\ id[2] \in Nat
      /\ at[id] # "idle" => id[2] <= faults + 1
      /\ at[id] = "raised" => id[2] <= faults
  BY Domains DEF Paid, Ids
<1>3. CASE Same \/ Parks \/ Stops \/ Completes
  BY <1>1, <1>2, <1>3 DEF Same, Parks, Stops, Completes
<1>4. CASE Starts
  BY <1>1, <1>2, <1>4, BeginsSlots DEF Starts
<1>5. CASE GoesOn
  BY <1>1, <1>2, <1>5, BeginsSlots DEF GoesOn
<1>6. CASE Passes
  BY <1>1, <1>2, <1>6, BeginsSlots DEF Passes
<1>7. CASE Retries
  <2>1. <<wf.pc, wf.n>> \in Ids /\ at[<<wf.pc, wf.n>>] # "idle" /\ wf.n \in Nat
    BY <1>7, Domains DEF Retries, Started, Ids
  <2>2. /\ wf.n <= faults + 1
        /\ at[<<wf.pc, wf.n>>] = "raised" => wf.n <= faults
    BY <2>1 DEF Paid
  <2>3. wf.n + 1 <= faults' + 1
    BY <1>1, <1>7, <2>1, <2>2 DEF Retries
  <2> QED
    BY <1>1, <1>2, <1>7, <2>1, <2>3, BeginsSlots DEF Retries
<1>8. CASE Raises
  BY <1>1, <1>2, <1>8 DEF Raises, Ids, Paid, Running
<1> QED
  BY <1>3, <1>4, <1>5, <1>6, <1>7, <1>8 DEF Shapes

\* What a server step does to one attempt.
LEMMA ShapesSlots ==
  ASSUME EngineTypeOK, Position, Started, Shapes, NEW id \in Ids
  PROVE  \/ at'[id] = at[id]
         \/ at[id] = "idle" /\ at'[id] = "begin"
         \/ at[id] \in Running /\ at'[id] = "raised"
<1>1. /\ wf.pc \in Nat /\ wf.n \in Nat /\ at \in [Ids -> Phases]
      /\ id[1] \in Nat /\ id[2] \in Nat /\ id = <<id[1], id[2]>>
  BY Numbers, Domains DEF EngineTypeOK, Ids
<1>2. at[id] # "idle" => /\ wf.state # "none"
                         /\ id[1] < wf.pc \/ (id[1] = wf.pc /\ id[2] <= wf.n)
  BY DEF Started
<1>3. CASE Same \/ Parks \/ Stops \/ Completes
  BY <1>3 DEF Same, Parks, Stops, Completes
<1>4. CASE Starts
  BY <1>2, <1>4, BeginsSlots DEF Starts
<1>5. CASE GoesOn
  BY <1>1, <1>2, <1>5, BeginsSlots DEF GoesOn
<1>6. CASE Passes
  BY <1>1, <1>2, <1>6, BeginsSlots, Numbers DEF Passes
<1>7. CASE Retries
  BY <1>1, <1>2, <1>7, BeginsSlots DEF Retries
<1>8. CASE Raises
  BY <1>1, <1>8 DEF Raises
<1> QED
  BY <1>3, <1>4, <1>5, <1>6, <1>7, <1>8 DEF Shapes

\* The workflow moves past a position only when an attempt of it returned.
LEMMA Passing ==
  ASSUME EngineTypeOK, Position, Shapes, NEW p \in Steps, wf.pc <= p, wf'.pc > p
  PROVE  wf.n \in Attempts /\ wf.pc = p /\ at[<<p, wf.n>>] = "returned"
<1>1. wf.pc \in Nat
  BY DEF EngineTypeOK
<1> QED
  BY <1>1, Numbers DEF Shapes, Same, Starts, Parks, GoesOn, Passes, Retries, Raises,
     Stops, Completes, AwaitsReturned, Begins, Moves, Position

\* What a server step leaves alone.
LEMMA ServerEffect ==
  ASSUME ServerStep
  PROVE  /\ UNCHANGED <<channel, seen, stored, artifact, versions, put, snap>>
         /\ \/ UNCHANGED job
            \/ GatewaySaveJob
         /\ \/ UNCHANGED approved
            \/ approved' = TRUE
            \/ StartGeneration
  BY DEF ServerStep, StartGeneration, GatewaySaveJob, CreateReviewTask, GatewayCrash,
     Advance, PassGate, Fail, RetryActivity, ActivityRaises, WorkflowCancelled,
     SignalApprove, CancelWorkflow, SaveReview, storeVars

-----------------------------------------------------------------------------
(* The invariant: one lemma per part.                                      *)

\* The engine's parts, under a worker's step.
LEMMA WorkerEngine ==
  ASSUME TypeOK, Position, Started, Paid, Gated,
         NEW s \in Steps, NEW n \in Attempts, ActivityStep(s, n)
  PROVE  EngineTypeOK' /\ Position' /\ Started' /\ Paid' /\ Gated'
<1>1. /\ UNCHANGED <<wf, faults, approved>>
      /\ at[<<s, n>>] \in {"begin", "read", "saved"}
  BY WorkerEffect
<1>2. PICK x \in {"begin", "read", "saved", "returned"} : at' = [at EXCEPT ![<<s, n>>] = x]
  BY WorkerEffect
<1>3. EngineTypeOK /\ <<s, n>> \in Ids /\ at \in [Ids -> Phases]
  BY DEF TypeOK, EngineTypeOK, Ids
<1>4. ASSUME NEW id \in Ids
      PROVE  /\ at'[id] # "idle" <=> at[id] # "idle"
             /\ at'[id] = "raised" <=> at[id] = "raised"
  BY <1>1, <1>2, <1>3
<1>5. EngineTypeOK'
  BY <1>1, <1>2, <1>3 DEF EngineTypeOK, Phases, Running
<1>6. Position' /\ Gated'
  BY <1>1 DEF Position, Gated
<1>7. Started'
  <2>1. wf.state = "open" /\ wf.pc \in Steps => <<wf.pc, wf.n>> \in Ids
    BY <1>3 DEF EngineTypeOK, Ids
  <2> QED
    BY <1>1, <1>4, <2>1 DEF Started
<1>8. Paid'
  BY <1>1, <1>4 DEF Paid
<1> QED
  BY <1>5, <1>6, <1>7, <1>8

\* The gate, under a server step: beyond it only PassGate leads, and nothing
\* takes an approval back.
LEMMA ServerGated ==
  ASSUME TypeOK, Position, Gated, ServerStep
  PROVE  Gated'
<1>1. Shapes /\ EngineTypeOK /\ wf.pc \in Nat
  BY ServerShapes DEF TypeOK, EngineTypeOK
<1>2. CASE StartGeneration
  BY <1>2, Numbers DEF StartGeneration, StartWorkflow, Gated
<1>3. CASE approved' = TRUE
  BY <1>3 DEF Gated
<1>4. CASE UNCHANGED approved
  BY <1>1, <1>4, Numbers DEF Gated, Shapes, Same, Starts, Parks, GoesOn, Passes, Retries,
     Raises, Stops, Completes, AwaitsReturned, Begins, Moves
<1> QED
  BY <1>2, <1>3, <1>4, ServerEffect

\* The rest of the type invariant.
LEMMA ServerTyped ==
  ASSUME TypeOK, Position, ServerStep
  PROVE  TypeOK'
<1>1. EngineTypeOK'
  BY ServerShapes, ShapesTyped DEF TypeOK
<1>2. job' \in Rows
  <2>1. CASE UNCHANGED job
    BY <2>1 DEF TypeOK
  <2>2. CASE GatewaySaveJob
    BY <2>2 DEF GatewaySaveJob, Rows, JobStatus
  <2> QED
    BY <2>1, <2>2, ServerEffect
<1>3. /\ approved' \in BOOLEAN /\ reviewRequired' \in BOOLEAN
      /\ gw' \in {"idle", "started", "saved", "done", "crashed"}
      /\ task' \in ReviewStatus \cup {"none"}
  BY DEF TypeOK, ServerStep, StartGeneration, GatewaySaveJob, CreateReviewTask, GatewayCrash,
     Advance, PassGate, Fail, RetryActivity, ActivityRaises, WorkflowCancelled,
     SignalApprove, CancelWorkflow, SaveReview, gatewayVars, ReviewStatus
<1> QED
  BY <1>1, <1>2, <1>3, ServerEffect DEF TypeOK

\* A worker's step keeps the types; PutShard needs the loop bound for it.
LEMMA WorkerTyped ==
  ASSUME TypeOK, Position, Started, Paid, Gated, ShardsKept,
         NEW s \in Steps, NEW n \in Attempts, ActivityStep(s, n)
  PROVE  TypeOK'
<1>1. EngineTypeOK' /\ UNCHANGED <<approved, gw, reviewRequired, task>>
  BY WorkerEngine, WorkerEffect
<1>2. CASE ReadJob(s, n)
  BY <1>1, <1>2 DEF TypeOK, ReadJob, storeVars
<1>3. CASE SaveJob(s, n)
  BY <1>1, <1>3 DEF TypeOK, SaveJob, storeVars, Rows, NoRow, JobStatus, StatusAt, ProgressAt
<1>4. CASE Publish(s, n)
  BY <1>1, <1>4 DEF TypeOK, Publish, storeVars
<1>5. CASE PlanShards(n)
  BY <1>1, <1>5 DEF TypeOK, PlanShards, storeVars
<1>6. CASE PutShard(n)
  <2>1. put[n] \in 0..NShards /\ put[n] < NShards /\ put[n] + 1 \in Shards
    BY <1>6, ShardsAssumption, Domains DEF TypeOK, PutShard, ShardsKept
  <2>2. put' \in [Attempts -> 0..NShards]
    BY <1>6, <2>1, ShardsAssumption DEF TypeOK, PutShard
  <2>3. stored' \in Contents
    BY <1>6, <2>1, Domains, AttemptsAssumption DEF TypeOK, PutShard, Contents
  <2> QED
    BY <1>1, <1>6, <2>2, <2>3 DEF TypeOK, PutShard
<1>7. CASE ReadShards(n)
  BY <1>1, <1>7 DEF TypeOK, ReadShards
<1>8. CASE PutArtifact(n)
  BY <1>1, <1>8, Domains DEF TypeOK, PutArtifact
<1>9. CASE RegisterVersion(n)
  BY <1>1, <1>9 DEF TypeOK, RegisterVersion
<1> QED
  BY <1>2, <1>3, <1>4, <1>5, <1>6, <1>7, <1>8, <1>9 DEF ActivityStep

\* What a server step may do to an attempt of an activity, with its position.
LEMMA ServerSlots ==
  ASSUME GenInv, ServerStep, NEW s \in Steps, NEW n \in Attempts
  PROVE  /\ \/ at'[<<s, n>>] = at[<<s, n>>]
            \/ at[<<s, n>>] = "idle" /\ at'[<<s, n>>] = "begin"
            \/ at[<<s, n>>] \in Running /\ at'[<<s, n>>] = "raised"
         /\ wf'.pc >= wf.pc /\ wf.pc \in Nat /\ wf'.pc \in Nat
         /\ wf.pc <= s /\ wf'.pc > s => \E k \in Attempts : at[<<s, k>>] = "returned"
<1>1. Shapes /\ EngineTypeOK /\ Position /\ Started /\ <<s, n>> \in Ids
  BY ServerShapes DEF GenInv, TypeOK, Ids
<1>2. EngineTypeOK' /\ wf'.pc >= wf.pc
  BY <1>1, ShapesTyped
<1>3. wf.pc \in Nat /\ wf'.pc \in Nat
  BY <1>1, <1>2 DEF EngineTypeOK
<1>4. \/ at'[<<s, n>>] = at[<<s, n>>]
      \/ at[<<s, n>>] = "idle" /\ at'[<<s, n>>] = "begin"
      \/ at[<<s, n>>] \in Running /\ at'[<<s, n>>] = "raised"
  BY <1>1, ShapesSlots
<1>5. wf.pc <= s /\ wf'.pc > s => \E k \in Attempts : at[<<s, k>>] = "returned"
  BY <1>1, Passing
<1> QED
  BY <1>2, <1>3, <1>4, <1>5

\* A worker's step is at a position the workflow has reached, and changes the
\* phase of no other attempt.
LEMMA WorkerSlots ==
  ASSUME GenInv, NEW s \in Steps, NEW n \in Attempts, ActivityStep(s, n)
  PROVE  /\ wf.pc >= s /\ wf.pc \in Nat /\ wf' = wf
         /\ \A t \in Steps, k \in Attempts :
              <<t, k>> # <<s, n>> => at'[<<t, k>>] = at[<<t, k>>]
<1>1. <<s, n>> \in Ids /\ at[<<s, n>>] # "idle" /\ wf' = wf /\ at \in [Ids -> Phases]
  BY WorkerEffect DEF Ids, GenInv, TypeOK, EngineTypeOK
<1>2. wf.pc \in Nat /\ s \in Nat
  BY Numbers DEF GenInv, TypeOK, EngineTypeOK
<1>3. wf.pc >= s
  BY <1>1, <1>2 DEF GenInv, Started
<1>4. PICK x \in {"begin", "read", "saved", "returned"} : at' = [at EXCEPT ![<<s, n>>] = x]
  BY WorkerEffect
<1> QED
  BY <1>1, <1>2, <1>3, <1>4 DEF Ids

\* Server steps leave the shards alone and move on only when all are stored.
LEMMA ServerShards ==
  ASSUME GenInv, ServerStep
  PROVE  ShardsKept'
<1>1. UNCHANGED <<stored, put>> /\ ShardsKept /\ Generate \in Steps
  BY ServerEffect, Numbers DEF GenInv
<1>2. ASSUME NEW n \in Attempts
      PROVE  /\ at'[<<Generate, n>>] = "idle" => put[n] = 0
             /\ at'[<<Generate, n>>] = "begin" => put[n] < NShards
             /\ at'[<<Generate, n>>] = "returned" => put[n] = NShards
             /\ at'[<<Generate, n>>] \in {"idle", "begin", "returned", "raised"}
  <2>1. \/ at'[<<Generate, n>>] = at[<<Generate, n>>]
        \/ at[<<Generate, n>>] = "idle" /\ at'[<<Generate, n>>] = "begin"
        \/ at[<<Generate, n>>] \in Running /\ at'[<<Generate, n>>] = "raised"
    BY <1>1, ServerSlots
  <2> QED
    BY <1>1, <2>1, ShardsAssumption DEF ShardsKept, Running
<1>3. stored # Empty => wf'.pc >= Generate
  BY <1>1, ServerSlots, Domains, Numbers DEF ShardsKept
<1> QED
  BY <1>1, <1>2, <1>3 DEF ShardsKept, Empty

\* PutShard stores the shard its loop index counts.
LEMMA WorkerShards ==
  ASSUME GenInv, NEW s \in Steps, NEW n \in Attempts, ActivityStep(s, n)
  PROVE  ShardsKept'
<1>1. wf.pc >= s /\ wf.pc \in Nat /\ wf' = wf
  BY WorkerSlots
<1>2. ShardsKept /\ TypeOK /\ Generate \in Steps
  BY Numbers DEF GenInv
<1>3. CASE s = Generate /\ PutShard(n)
  <2>1. /\ put[n] \in Nat /\ put[n] < NShards /\ put[n] + 1 \in Shards
        /\ at[<<Generate, n>>] = "begin"
        /\ put' = [put EXCEPT ![n] = put[n] + 1]
        /\ stored' = [stored EXCEPT ![put[n] + 1] = n]
        /\ at' = [at EXCEPT ![<<Generate, n>>] =
                    IF put[n] + 1 = NShards THEN "returned" ELSE "begin"]
    BY <1>2, <1>3, Domains, ShardsAssumption DEF PutShard, ShardsKept, TypeOK
  <2>2. put \in [Attempts -> 0..NShards] /\ stored \in [Shards -> 0..MaxAttempts] /\ n # 0
        /\ at \in [Ids -> Phases] /\ <<Generate, n>> \in Ids
    BY <1>2, Domains, AttemptsAssumption DEF TypeOK, Contents, EngineTypeOK, Ids
  <2>3. \A t \in Shards : stored[t] # 0 \/ t = put[n] + 1 => stored'[t] # 0
    BY <2>1, <2>2
  <2>4. ASSUME NEW k \in Attempts
        PROVE  /\ at'[<<Generate, k>>] = "idle" => put'[k] = 0
               /\ at'[<<Generate, k>>] = "begin" => put'[k] < NShards
               /\ at'[<<Generate, k>>] = "returned" => put'[k] = NShards
               /\ at'[<<Generate, k>>] \in {"idle", "begin", "returned", "raised"}
               /\ \A t \in Shards : t <= put'[k] => stored'[t] # 0
    <3>1. CASE k = n
      BY <1>2, <2>1, <2>2, <2>3, <3>1, Domains, ShardsAssumption DEF ShardsKept
    <3>2. CASE k # n
      <4>1. put'[k] = put[k]
        BY <2>1, <2>2, <3>2
      <4>2. at'[<<Generate, k>>] = at[<<Generate, k>>]
        BY <1>2, <1>3, <3>2, WorkerSlots
      <4> QED
        BY <1>2, <2>3, <4>1, <4>2 DEF ShardsKept
    <3> QED
      BY <3>1, <3>2
  <2> QED
    BY <1>1, <1>3, <2>4 DEF ShardsKept, Empty
<1>4. CASE ~(s = Generate /\ PutShard(n))
  <2>1. UNCHANGED <<stored, put>> /\ s # Generate
    BY <1>4, Numbers DEF ActivityStep, ReadJob, SaveJob, Publish, PlanShards, ReadShards,
       PutArtifact, RegisterVersion, storeVars, StatusSteps
  <2>2. \A k \in Attempts : at'[<<Generate, k>>] = at[<<Generate, k>>]
    BY <1>2, <2>1, WorkerSlots
  <2> QED
    BY <1>1, <1>2, <2>1, <2>2 DEF ShardsKept, Empty
<1> QED
  BY <1>3, <1>4

\* Server steps move past assemble only when the artifact is full.
LEMMA ServerArtifact ==
  ASSUME GenInv, ServerStep
  PROVE  ArtifactKept'
<1>1. UNCHANGED <<artifact, snap>> /\ ArtifactKept /\ Assemble \in Steps
  BY ServerEffect, Numbers DEF GenInv
<1>2. ASSUME NEW n \in Attempts
      PROVE  /\ at'[<<Assemble, n>>] = "read" => at[<<Assemble, n>>] = "read"
             /\ at'[<<Assemble, n>>] = "returned" => at[<<Assemble, n>>] = "returned"
  BY <1>1, ServerSlots
<1>3. /\ wf'.pc >= wf.pc /\ wf.pc \in Nat /\ wf'.pc \in Nat /\ Assemble \in Nat
      /\ wf.pc <= Assemble /\ wf'.pc > Assemble =>
           \E k \in Attempts : at[<<Assemble, k>>] = "returned"
  <2>1. 1 \in Attempts /\ Assemble \in Nat
    BY Domains, Numbers
  <2> QED
    BY <1>1, <2>1, ServerSlots
<1>4. ASSUME wf'.pc > Assemble PROVE Full(artifact)
  <2>1. CASE wf.pc > Assemble
    BY <1>1, <2>1 DEF ArtifactKept
  <2>2. CASE wf.pc <= Assemble
    <3>1. PICK k \in Attempts : at[<<Assemble, k>>] = "returned"
      BY <1>3, <1>4, <2>2
    <3> QED
      BY <1>1, <3>1 DEF ArtifactKept
  <2> QED
    BY <1>3, <2>1, <2>2
<1>5. artifact # Empty => wf'.pc >= Assemble
  BY <1>1, <1>3 DEF ArtifactKept
<1> QED
  BY <1>1, <1>2, <1>4, <1>5 DEF ArtifactKept, Full, Empty

\* Late assemble attempts overwrite a full artifact with a full one.
LEMMA WorkerArtifact ==
  ASSUME GenInv, NEW s \in Steps, NEW n \in Attempts, ActivityStep(s, n)
  PROVE  ArtifactKept'
<1>1. wf.pc >= s /\ wf.pc \in Nat /\ wf' = wf
  BY WorkerSlots
<1>2. ArtifactKept /\ TypeOK /\ Assemble \in Steps
  BY Numbers DEF GenInv
<1>3. at \in [Ids -> Phases] /\ snap \in [Attempts -> Contents]
  BY <1>2 DEF TypeOK, EngineTypeOK
<1>4. CASE s = Assemble /\ ReadShards(n)
  <2>1. /\ at'[<<Assemble, n>>] = "read" /\ snap' = [snap EXCEPT ![n] = stored]
        /\ Full(stored) /\ UNCHANGED artifact
    BY <1>2, <1>3, <1>4 DEF ReadShards, Full, Ids
  <2>2. ASSUME NEW k \in Attempts
        PROVE  /\ at'[<<Assemble, k>>] = "read" => Full(snap'[k])
               /\ at'[<<Assemble, k>>] = "returned" => Full(artifact)
    <3>1. CASE k = n
      BY <1>3, <2>1, <3>1
    <3>2. CASE k # n
      <4>1. at'[<<Assemble, k>>] = at[<<Assemble, k>>] /\ snap'[k] = snap[k]
        BY <1>2, <1>3, <1>4, <2>1, <3>2, WorkerSlots
      <4> QED
        BY <1>2, <4>1 DEF ArtifactKept
    <3> QED
      BY <3>1, <3>2
  <2> QED
    BY <1>1, <1>2, <2>1, <2>2 DEF ArtifactKept, Full, Empty
<1>5. CASE s = Assemble /\ PutArtifact(n)
  <2>1. /\ at'[<<Assemble, n>>] = "returned" /\ snap' = [snap EXCEPT ![n] = Empty]
        /\ artifact' = snap[n] /\ Full(snap[n])
    BY <1>2, <1>3, <1>5 DEF PutArtifact, ArtifactKept, Ids
  <2>2. Full(artifact')
    BY <2>1
  <2>3. ASSUME NEW k \in Attempts, at'[<<Assemble, k>>] = "read"
        PROVE  Full(snap'[k])
    <3>1. k # n
      BY <2>1, <2>3
    <3>2. at'[<<Assemble, k>>] = at[<<Assemble, k>>] /\ snap'[k] = snap[k]
      BY <1>2, <1>3, <1>5, <2>1, <3>1, WorkerSlots
    <3> QED
      BY <1>2, <2>3, <3>2 DEF ArtifactKept
  <2> QED
    BY <1>1, <1>5, <2>2, <2>3 DEF ArtifactKept, Full, Empty
<1>6. CASE ~(s = Assemble /\ (ReadShards(n) \/ PutArtifact(n)))
  <2>1. UNCHANGED <<artifact, snap>> /\ s # Assemble
    BY <1>6, Numbers DEF ActivityStep, ReadJob, SaveJob, Publish, PlanShards, PutShard,
       RegisterVersion, storeVars, StatusSteps
  <2>2. \A k \in Attempts : at'[<<Assemble, k>>] = at[<<Assemble, k>>]
    BY <1>2, <2>1, WorkerSlots
  <2> QED
    BY <1>1, <1>2, <2>1, <2>2 DEF ArtifactKept, Full, Empty
<1> QED
  BY <1>4, <1>5, <1>6

\* Server steps move past register only when a row was inserted.
LEMMA ServerVersions ==
  ASSUME GenInv, ServerStep
  PROVE  VersionsKept'
<1>1. UNCHANGED versions /\ VersionsKept /\ Register \in Steps /\ versions \subseteq Attempts
  BY ServerEffect, Numbers DEF GenInv, TypeOK
<1>2. ASSUME NEW n \in Attempts
      PROVE  at'[<<Register, n>>] = "returned" <=> at[<<Register, n>>] = "returned"
  BY <1>1, ServerSlots DEF Running
<1>3. /\ wf.pc \in Nat /\ wf'.pc \in Nat /\ Register \in Nat
      /\ wf.pc <= Register /\ wf'.pc > Register =>
           \E k \in Attempts : at[<<Register, k>>] = "returned"
  <2>1. 1 \in Attempts /\ Register \in Nat
    BY Domains, Numbers
  <2> QED
    BY <1>1, <2>1, ServerSlots
<1>4. ASSUME wf'.pc > Register PROVE versions # {}
  <2>1. CASE wf.pc > Register
    BY <1>1, <2>1 DEF VersionsKept
  <2>2. CASE wf.pc <= Register
    <3>1. PICK k \in Attempts : at[<<Register, k>>] = "returned"
      BY <1>3, <1>4, <2>2
    <3> QED
      BY <1>1, <3>1 DEF VersionsKept
  <2> QED
    BY <1>3, <2>1, <2>2
<1> QED
  BY <1>1, <1>2, <1>4 DEF VersionsKept

\* Each register attempt inserts its row when it returns.
LEMMA WorkerVersions ==
  ASSUME GenInv, NEW s \in Steps, NEW n \in Attempts, ActivityStep(s, n)
  PROVE  VersionsKept'
<1>1. wf.pc >= s /\ wf.pc \in Nat /\ wf' = wf
  BY WorkerSlots
<1>2. VersionsKept /\ TypeOK /\ Register \in Steps /\ versions \subseteq Attempts
  BY Numbers DEF GenInv, TypeOK
<1>3. at \in [Ids -> Phases]
  BY <1>2 DEF TypeOK, EngineTypeOK
<1>4. CASE s = Register /\ RegisterVersion(n)
  <2>1. at'[<<Register, n>>] = "returned" /\ versions' = versions \cup {n}
    BY <1>2, <1>3, <1>4 DEF RegisterVersion, Ids
  <2>2. \A k \in Attempts : k # n => at'[<<Register, k>>] = at[<<Register, k>>]
    BY <1>2, <1>4, WorkerSlots
  <2> QED
    BY <1>2, <2>1, <2>2 DEF VersionsKept
<1>5. CASE ~(s = Register /\ RegisterVersion(n))
  <2>1. UNCHANGED versions /\ s # Register
    BY <1>5, Numbers DEF ActivityStep, ReadJob, SaveJob, Publish, PlanShards, PutShard,
       ReadShards, PutArtifact, storeVars, StatusSteps
  <2>2. \A k \in Attempts : at'[<<Register, k>>] = at[<<Register, k>>]
    BY <1>2, <2>1, WorkerSlots
  <2> QED
    BY <1>1, <1>2, <2>1, <2>2 DEF VersionsKept
<1> QED
  BY <1>4, <1>5

\* The rank bound follows the workflow, and each status step writes its own.
LEMMA Ranks ==
  /\ \A p, q \in Nat : p <= q => RankBound(p) <= RankBound(q)
  /\ \A p \in Nat : RankBound(p) \in {2, 4, 10, 20}
  /\ \A s \in StatusSteps, w \in BOOLEAN :
       Rank([status |-> StatusAt(s), progress |-> ProgressAt(s), workflow_id |-> w])
         = RankBound(s)
  /\ \A row \in Rows : Rank(row) \in Nat
<1>1. /\ \A p, q \in Nat : p <= q => RankBound(p) <= RankBound(q)
      /\ \A p \in Nat : RankBound(p) \in {2, 4, 10, 20}
  BY DEF RankBound, Gate
<1>2. \A s \in StatusSteps, w \in BOOLEAN :
       Rank([status |-> StatusAt(s), progress |-> ProgressAt(s), workflow_id |-> w])
         = RankBound(s)
  BY DEF StatusSteps, Rank, RankBound, StatusAt, ProgressAt, Gate
<1>3. \A row \in Rows : Rank(row) \in Nat
  BY DEF Rows, Rank
<1> QED
  BY <1>1, <1>2, <1>3

\* The gateway's save writes the lowest rank.
LEMMA ServerReported ==
  ASSUME GenInv, ServerStep
  PROVE  Reported'
<1>1. /\ Reported /\ UNCHANGED channel /\ TypeOK
      /\ wf'.pc >= wf.pc /\ wf.pc \in Nat /\ wf'.pc \in Nat
  BY ServerEffect, ServerSlots, Domains, Numbers DEF GenInv
<1>2. wf'.pc <= LastStep
  <2>1. Position'
    BY ServerShapes, ShapesPosition DEF GenInv, TypeOK
  <2> QED
    BY <2>1, Numbers DEF Position
<1>3. CASE UNCHANGED job
  <2>1. Rank(job) \in Nat /\ RankBound(wf.pc) \in Nat /\ RankBound(wf'.pc) \in Nat
        /\ RankBound(wf.pc) <= RankBound(wf'.pc)
    BY <1>1, Ranks DEF TypeOK
  <2> QED
    BY <1>1, <1>2, <1>3, <2>1, Numbers DEF Reported, Rank
<1>4. CASE GatewaySaveJob
  <2>1. job'.status = "pending" /\ Rank(job') = 1
    BY <1>4 DEF GatewaySaveJob, Rank
  <2>2. RankBound(wf'.pc) \in {2, 4, 10, 20}
    BY <1>1, Ranks
  <2> QED
    BY <1>1, <1>2, <2>1, <2>2, Numbers DEF Reported
<1> QED
  BY <1>3, <1>4, ServerEffect

\* An attempt reports the status of a position the workflow has reached.
LEMMA WorkerReported ==
  ASSUME GenInv, NEW s \in Steps, NEW n \in Attempts, ActivityStep(s, n)
  PROVE  Reported'
<1>1. /\ wf.pc >= s /\ wf.pc \in Nat /\ wf' = wf /\ wf.pc <= LastStep /\ s \in Nat
      /\ Reported /\ TypeOK
  BY WorkerSlots, Numbers DEF GenInv, Position
<1>2. CASE SaveJob(s, n)
  <2>1. /\ s \in StatusSteps /\ UNCHANGED channel
        /\ job' = [status |-> StatusAt(s), progress |-> ProgressAt(s),
                   workflow_id |-> seen[<<s, n>>].workflow_id]
        /\ seen[<<s, n>>].workflow_id \in BOOLEAN
    BY <1>1, <1>2 DEF SaveJob, TypeOK, Rows
  <2>2. Rank(job') = RankBound(s) /\ RankBound(s) <= RankBound(wf.pc)
    BY <1>1, <2>1, Ranks
  <2>3. job'.status = "succeeded" => s = LastStep
    BY <2>1, Numbers DEF StatusAt
  <2> QED
    BY <1>1, <2>1, <2>2, <2>3, Numbers DEF Reported
<1>3. CASE Publish(s, n)
  <2>1. s \in StatusSteps /\ UNCHANGED job /\ channel' = Payload(s)
    BY <1>3 DEF Publish
  <2>2. channel'.status = "succeeded" => s = LastStep
    BY <2>1, Numbers DEF StatusAt, Payload
  <2> QED
    BY <1>1, <2>1, <2>2, Numbers DEF Reported, Rank
<1>4. CASE ~SaveJob(s, n) /\ ~Publish(s, n)
  <2>1. UNCHANGED <<job, channel>>
    BY <1>4 DEF ActivityStep, ReadJob, PlanShards, PutShard, ReadShards, PutArtifact,
       RegisterVersion
  <2> QED
    BY <1>1, <2>1 DEF Reported, Rank
<1> QED
  BY <1>2, <1>3, <1>4

-----------------------------------------------------------------------------
(* The theorems.                                                           *)

\* The invariant holds initially,
LEMMA InvInit == Init => GenInv
<1> SUFFICES ASSUME Init PROVE GenInv
  OBVIOUS
<1>1. TypeOK
  BY TypeInit
<1>2. /\ wf.state = "none" /\ wf.pc = 0 /\ wf.n = 0
      /\ \A id \in Ids : at[id] = "idle"
      /\ \A s \in Steps, n \in Attempts : at[<<s, n>>] = "idle"
  BY DEF Init, EngineInit, Ids
<1>3. Position /\ Started /\ Paid /\ Gated
  BY <1>2, Numbers DEF Position, Started, Paid, Gated
<1>4. ShardsKept
  BY <1>2, Numbers, Domains DEF Init, ShardsKept
<1>5. ArtifactKept /\ VersionsKept
  BY <1>2, Numbers DEF Init, ArtifactKept, VersionsKept
<1>6. Reported
  BY <1>2, Numbers DEF Init, Reported, NoRow, Silent, Rank, RankBound
<1> QED
  BY <1>1, <1>3, <1>4, <1>5, <1>6 DEF GenInv

\* is preserved by every step,
LEMMA InvStep == GenInv /\ [Next]_vars => GenInv'
<1> SUFFICES ASSUME GenInv, [Next]_vars PROVE GenInv'
  OBVIOUS
<1>1. CASE ServerStep
  <2>1. TypeOK' /\ Gated'
    BY <1>1, ServerTyped, ServerGated DEF GenInv
  <2>2. Shapes /\ EngineTypeOK
    BY <1>1, ServerShapes DEF GenInv, TypeOK
  <2>3. Position' /\ Started' /\ Paid'
    BY <2>2, ShapesPosition, ShapesStarted, ShapesPaid DEF GenInv
  <2>4. ShardsKept' /\ ArtifactKept' /\ VersionsKept' /\ Reported'
    BY <1>1, ServerShards, ServerArtifact, ServerVersions, ServerReported
  <2> QED
    BY <2>1, <2>3, <2>4 DEF GenInv
<1>2. ASSUME NEW s \in Steps, NEW n \in Attempts, ActivityStep(s, n) PROVE GenInv'
  <2>1. TypeOK' /\ Position' /\ Started' /\ Paid' /\ Gated'
    BY <1>2, WorkerTyped, WorkerEngine DEF GenInv
  <2>2. ShardsKept' /\ ArtifactKept' /\ VersionsKept' /\ Reported'
    BY <1>2, WorkerShards, WorkerArtifact, WorkerVersions, WorkerReported
  <2> QED
    BY <2>1, <2>2 DEF GenInv
<1>3. CASE UNCHANGED vars
  BY <1>3 DEF vars, GenInv, TypeOK, EngineTypeOK, Position, Started, Paid, Gated,
     ShardsKept, ArtifactKept, Full, Empty, VersionsKept, Reported, Rank
<1> QED
  BY <1>1, <1>2, <1>3, NextCases

\* and so holds always.
LEMMA InvHolds == Spec => []GenInv
  BY InvInit, InvStep, PTL DEF Spec

\* Every variable of a generation request keeps its type, for every number of
\* attempts, faults and shards.
THEOREM TypeCorrect == Spec => []TypeOK
<1>1. GenInv => TypeOK
  BY DEF GenInv
<1> QED
  BY <1>1, InvHolds, PTL

\* The human gate holds: whatever retries and abandoned attempts do, nothing is
\* generated, assembled or registered before the workflow is approved.
THEOREM GateHolds == Spec => []NothingBeforeApproval
<1>1. GenInv => NothingBeforeApproval
  <2> SUFFICES ASSUME GenInv, stored # Empty \/ artifact # Empty \/ versions # {}
               PROVE  approved
    BY DEF NothingBeforeApproval
  <2>1. wf.pc \in Nat /\ versions \subseteq Attempts
    BY DEF GenInv, TypeOK, EngineTypeOK
  <2>2. versions # {} => wf.pc >= Register
    <3> SUFFICES ASSUME NEW n \in versions PROVE wf.pc >= Register
      OBVIOUS
    <3>1. at[<<Register, n>>] # "idle" /\ <<Register, n>> \in Ids
      BY <2>1, Numbers DEF GenInv, VersionsKept, Ids
    <3> QED
      BY <3>1, <2>1, Numbers DEF GenInv, Started
  <2>3. wf.pc > Gate
    BY <2>1, <2>2, Numbers DEF GenInv, ShardsKept, ArtifactKept
  <2> QED
    BY <2>3 DEF GenInv, Gated
<1> QED
  BY <1>1, InvHolds, PTL

\* A visible version row refers to an artifact that covers every shard.
THEOREM VersionsComplete == Spec => []VersionIsComplete
<1>1. GenInv => VersionIsComplete
  <2> SUFFICES ASSUME GenInv, NEW n \in versions
               PROVE  \A s \in Shards : artifact[s] # 0
    BY DEF VersionIsComplete
  <2>1. at[<<Register, n>>] # "idle" /\ <<Register, n>> \in Ids /\ wf.pc \in Nat
    BY Numbers DEF GenInv, TypeOK, EngineTypeOK, VersionsKept, Ids
  <2>2. wf.pc >= Register
    BY <2>1, Numbers DEF GenInv, Started
  <2> QED
    BY <2>1, <2>2, Numbers DEF GenInv, ArtifactKept, Full
<1> QED
  BY <1>1, InvHolds, PTL

\* Success, as told by the row, the channel or the workflow, implies a version.
THEOREM SuccessHasVersion == Spec => []SuccessIsRegistered
<1>1. GenInv => SuccessIsRegistered
  BY Numbers DEF GenInv, SuccessIsRegistered, Reported, Position, VersionsKept
<1> QED
  BY <1>1, InvHolds, PTL

\* A job has at most one version row more than attempts were lost or raised.
THEOREM DuplicatesBounded == Spec => []DuplicatesNeedFaults
<1>1. GenInv => DuplicatesNeedFaults
  <2> SUFFICES ASSUME GenInv PROVE Cardinality(versions) <= faults + 1
    BY DEF DuplicatesNeedFaults
  <2>1. faults \in Nat /\ versions \subseteq Attempts
    BY FaultsAssumption DEF GenInv, TypeOK, EngineTypeOK
  <2>2. versions \subseteq 1..(faults + 1)
    <3> SUFFICES ASSUME NEW n \in versions PROVE n \in 1..(faults + 1)
      OBVIOUS
    <3>1. at[<<Register, n>>] # "idle" /\ <<Register, n>> \in Ids
      BY <2>1, Numbers DEF GenInv, VersionsKept, Ids
    <3>2. n <= faults + 1
      BY <3>1 DEF GenInv, Paid
    <3> QED
      BY <2>1, <3>2, Domains, AttemptsAssumption
  <2>3. /\ IsFiniteSet(1..(faults + 1))
        /\ Cardinality(1..(faults + 1)) = faults + 1
    BY <2>1, FS_Interval
  <2>4. Cardinality(versions) <= Cardinality(1..(faults + 1))
    BY <2>2, <2>3, FS_Subset
  <2> QED
    BY <2>3, <2>4
<1> QED
  BY <1>1, InvHolds, PTL

\* The job row moves backwards only through the gateway's late save_job or an
\* attempt the server had given up on.
THEOREM RegressionsAreRaces == Spec => RegressesOnlyByRace
<1> DEFINE Excused ==
      Rank(job') < Rank(job) =>
        \/ gw = "started" /\ gw' # "started"
        \/ \E id \in Ids : Abandoned(id) /\ at[id] = "read" /\ at'[id] = "saved"
<1>1. GenInv /\ [Next]_vars => [Excused]_vars
  <2> SUFFICES ASSUME GenInv, Next, Rank(job') < Rank(job)
               PROVE  \/ gw = "started" /\ gw' # "started"
                      \/ \E id \in Ids : Abandoned(id) /\ at[id] = "read" /\ at'[id] = "saved"
    OBVIOUS
  <2>1. job \in Rows /\ Rank(job) \in Nat /\ ~(Rank(job) < Rank(job))
    BY Ranks DEF GenInv, TypeOK
  <2>2. job' # job
    BY <2>1
  <2>3. CASE ServerStep
    BY <2>2, <2>3, ServerEffect DEF GatewaySaveJob
  <2>4. ASSUME NEW s \in Steps, NEW n \in Attempts, ActivityStep(s, n)
        PROVE  \E id \in Ids : Abandoned(id) /\ at[id] = "read" /\ at'[id] = "saved"
    <3>1. SaveJob(s, n)
      BY <2>2, <2>4 DEF ActivityStep, ReadJob, Publish, PlanShards, PutShard, ReadShards,
         PutArtifact, RegisterVersion
    <3>2. <<s, n>> \in Ids /\ at[<<s, n>>] = "read" /\ at'[<<s, n>>] = "saved"
      BY <3>1 DEF SaveJob, Ids, GenInv, TypeOK, EngineTypeOK
    <3>3. Rank(job') = RankBound(s)
      <4>1. seen[<<s, n>>].workflow_id \in BOOLEAN /\ s \in StatusSteps
        BY <3>1 DEF SaveJob, GenInv, TypeOK, Rows
      <4> QED
        BY <3>1, <4>1, Ranks DEF SaveJob
    <3>4. ~(Open /\ <<s, n>> = Current)
      <4>1. RankBound(s) # RankBound(wf.pc)
        <5>1. Rank(job) <= RankBound(wf.pc) /\ RankBound(wf.pc) \in Nat
          BY Ranks DEF GenInv, Reported, TypeOK, EngineTypeOK
        <5> QED
          BY <5>1, <3>3, <2>1
      <4> QED
        BY <4>1 DEF Current
    <3> QED
      BY <3>2, <3>4 DEF Abandoned
  <2> QED
    BY <2>3, <2>4, NextCases
<1> QED
  BY <1>1, InvHolds, PTL DEF Spec, RegressesOnlyByRace

\* A generation request, with its gateway, retries and abandoned attempts,
\* implements the publication service.
THEOREM PublicationImplemented == Spec => ImplementsPublication
<1>1. Init => Pub!PubInit
  BY DEF Init, EngineInit, Pub!PubInit
<1>2. GenInv /\ [Next]_vars => [Pub!PubNext]_(Pub!pubVars)
  <2> SUFFICES ASSUME GenInv, [Next]_vars
               PROVE  Pub!PubNext \/ UNCHANGED Pub!pubVars
    OBVIOUS
  <2>1. CASE StartGeneration
    BY <2>1 DEF StartGeneration, StartWorkflow, storeVars, Pub!PubNext, Pub!Submit
  <2>2. CASE SignalApprove
    BY <2>2 DEF SignalApprove, Open, engineVars, storeVars, Pub!PubNext, Pub!Release
  <2>3. CASE ServerStep /\ ~StartGeneration /\ ~SignalApprove
    <3>1. UNCHANGED <<approved, artifact, versions>>
      BY <2>3, ServerEffect DEF ServerStep, GatewaySaveJob, CreateReviewTask, GatewayCrash,
         Advance, PassGate, Fail, RetryActivity, ActivityRaises, WorkflowCancelled,
         CancelWorkflow, SaveReview
    <3>2. Shapes /\ wf.pc \in Nat
      BY <2>3, ServerShapes DEF GenInv, TypeOK, EngineTypeOK
    <3>3. CASE Completes
      <4>1. wf.state = "open" /\ wf'.state = "completed" /\ wf.pc = LastStep
        BY <3>3 DEF Completes, AwaitsReturned, Moves
      <4>2. versions # {}
        BY <4>1, Numbers DEF GenInv, VersionsKept
      <4> QED
        BY <3>1, <4>1, <4>2 DEF Pub!PubNext, Pub!Complete
    <3>4. CASE Stops
      <4>1. wf.state = "open" /\ wf'.state \in {"open", "failed", "cancelled"}
        BY <3>4 DEF Stops, Moves
      <4>2. CASE wf'.state = "open"
        BY <3>1, <4>1, <4>2 DEF Pub!pubVars
      <4>3. CASE wf'.state \in {"failed", "cancelled"}
        BY <3>1, <4>1, <4>3 DEF Pub!PubNext, Pub!Abort
      <4> QED
        BY <4>1, <4>2, <4>3
    <3>5. CASE Same \/ Parks \/ GoesOn \/ Passes \/ Retries \/ Raises
      <4>1. wf'.state = wf.state
        BY <3>5 DEF Same, Parks, GoesOn, Passes, Retries, Raises, AwaitsReturned, Begins, Moves
      <4> QED
        BY <3>1, <4>1 DEF Pub!pubVars
    <3>6. CASE Starts
      <4>1. wf.state = "none" /\ wf'.state # wf.state
        BY <3>6 DEF Starts, Begins, Moves
      <4> QED
        BY <2>3, <4>1 DEF ServerStep, GatewaySaveJob, CreateReviewTask, GatewayCrash,
           Advance, PassGate, Fail, RetryActivity, ActivityRaises, WorkflowCancelled,
           CancelWorkflow, SaveReview, engineVars, Returned, OnActivity, Open, Exhausted,
           Retry, Lost, Raise, Cancelled, RequestCancel
    <3> QED
      BY <3>2, <3>3, <3>4, <3>5, <3>6 DEF Shapes
  <2>4. ASSUME NEW s \in Steps, NEW n \in Attempts, ActivityStep(s, n)
        PROVE  Pub!PubNext \/ UNCHANGED Pub!pubVars
    <3>1. /\ UNCHANGED <<wf, approved>> /\ wf.pc >= s /\ wf.pc \in Nat
          /\ Full(artifact) => artifact # Empty
      BY <2>4, WorkerEffect, WorkerSlots, Domains DEF Full
    <3>2. CASE s = Assemble /\ PutArtifact(n)
      <4>1. artifact' = snap[n] /\ Full(snap[n]) /\ UNCHANGED versions
        BY <3>2 DEF PutArtifact, GenInv, ArtifactKept
      <4>2. artifact' # Empty
        BY <4>1, Domains DEF Full
      <4>3. approved
        BY <3>1, <3>2, Numbers DEF GenInv, Gated
      <4> QED
        BY <3>1, <4>1, <4>2, <4>3 DEF Pub!PubNext, Pub!Produce, Empty
    <3>3. CASE s = Register /\ RegisterVersion(n)
      <4>1. artifact # Empty
        BY <3>1, <3>3, Numbers DEF GenInv, ArtifactKept
      <4>2. versions' = versions \cup {n} /\ UNCHANGED artifact
        BY <3>3 DEF RegisterVersion
      <4> QED
        BY <3>1, <4>1, <4>2 DEF Pub!PubNext, Pub!PublishVersion, Empty
    <3>4. CASE ~(s = Assemble /\ PutArtifact(n)) /\ ~(s = Register /\ RegisterVersion(n))
      <4>1. UNCHANGED <<artifact, versions>>
        BY <2>4, <3>4 DEF ActivityStep, ReadJob, SaveJob, Publish, PlanShards, PutShard,
           ReadShards, storeVars
      <4> QED
        BY <3>1, <4>1 DEF Pub!pubVars, Empty
    <3> QED
      BY <3>2, <3>3, <3>4
  <2>5. CASE UNCHANGED vars
    BY <2>5 DEF vars, Pub!pubVars, Empty
  <2> QED
    BY <2>1, <2>2, <2>3, <2>4, <2>5, NextCases
<1> QED
  BY <1>1, <1>2, InvHolds, PTL DEF Spec, ImplementsPublication, Pub!PubSpec

-----------------------------------------------------------------------------
(* No workflow is stranded: what GateReleased and ParkedJobGetsTask need    *)
(* besides fairness.                                                       *)

\* How far the code of an attempt gets, by its position.
Phased ==
  \A s \in Steps, n \in Attempts :
    \/ at[<<s, n>>] \in {"idle", "begin", "returned", "raised"}
    \/ s \in StatusSteps /\ at[<<s, n>>] \in {"read", "saved"}
    \/ s = Assemble /\ at[<<s, n>>] = "read"

\* assemble_and_upload finds every shard.
ShardsThere == wf.pc > Generate => Full(stored)

\* A workflow was started by its handler, which approved it or creates a task.
Asked ==
  /\ wf.state # "none" => gw # "idle"
  /\ gw # "idle" => approved \/ reviewRequired
  /\ gw = "done" => task # "none" \/ ~reviewRequired

Live == Phased /\ ShardsThere /\ Asked

\* The guard of the step that attempt n at s takes next holds.
MayProceed(s, n) ==
  \/ s \in StatusSteps /\ at[<<s, n>>] \in {"begin", "read", "saved"}
  \/ s \in {Plan, Generate, Register} /\ at[<<s, n>>] = "begin"
  \/ s = Assemble /\ at[<<s, n>>] = "begin" /\ Full(stored)
  \/ s = Assemble /\ at[<<s, n>>] = "read"

\* An open workflow waits for an attempt that has ended or whose next step is
\* possible, or at the gate with an approval, a review task, or a gateway
\* handler that has yet to create the task or crashed.
NotStranded ==
  Open =>
    \/ /\ wf.pc \in Steps
       /\ at[Current] \in {"returned", "raised"} \/ MayProceed(wf.pc, wf.n)
    \/ /\ wf.pc = Gate
       /\ approved \/ task # "none" \/ gw \in {"started", "saved", "crashed"}

\* A step of the server ends an attempt or starts one, and passes the position
\* of generate_shards only when an attempt of it returned.
LEMMA ServerLive ==
  ASSUME GenInv, Live, ServerStep
  PROVE  Live'
<1>1. Phased'
  <2> SUFFICES ASSUME NEW s \in Steps, NEW n \in Attempts
               PROVE  \/ at'[<<s, n>>] \in {"idle", "begin", "returned", "raised"}
                      \/ s \in StatusSteps /\ at'[<<s, n>>] \in {"read", "saved"}
                      \/ s = Assemble /\ at'[<<s, n>>] = "read"
    BY DEF Phased
  <2>1. \/ at'[<<s, n>>] = at[<<s, n>>]
        \/ at'[<<s, n>>] \in {"begin", "raised"}
    BY ServerSlots
  <2> QED
    BY <2>1 DEF Live, Phased
<1>2. ShardsThere'
  <2>1. /\ Generate \in Steps /\ Generate \in Nat /\ 1 \in Attempts
        /\ UNCHANGED stored
    BY Numbers, Domains, ServerEffect
  <2>2. /\ wf.pc \in Nat /\ wf'.pc \in Nat
        /\ wf.pc <= Generate /\ wf'.pc > Generate =>
             \E k \in Attempts : at[<<Generate, k>>] = "returned"
    BY <2>1, ServerSlots
  <2>3. ASSUME NEW k \in Attempts, at[<<Generate, k>>] = "returned"
        PROVE  Full(stored)
    BY <2>3, Domains, ShardsAssumption DEF GenInv, ShardsKept, Full
  <2>4. ASSUME wf'.pc > Generate PROVE Full(stored)
    <3>1. CASE wf.pc > Generate
      BY <3>1 DEF Live, ShardsThere
    <3>2. CASE wf.pc <= Generate
      <4>1. PICK k \in Attempts : at[<<Generate, k>>] = "returned"
        BY <2>2, <2>4, <3>2
      <4> QED
        BY <2>3, <4>1
    <3> QED
      BY <2>1, <2>2, <3>1, <3>2
  <2> QED
    BY <2>1, <2>4 DEF ShardsThere, Full
<1>3. Asked'
  <2>1. CASE StartGeneration
    BY <2>1 DEF StartGeneration, Asked
  <2>2. CASE GatewaySaveJob \/ CreateReviewTask \/ GatewayCrash
    BY <2>2 DEF GatewaySaveJob, CreateReviewTask, GatewayCrash, engineVars, Live, Asked,
       GenInv, TypeOK
  <2>3. CASE SignalApprove \/ SaveReview
    BY <2>3 DEF SignalApprove, SaveReview, engineVars, gatewayVars, Live, Asked, ReviewStatus
  <2>4. CASE Advance \/ PassGate \/ Fail \/ RetryActivity \/ ActivityRaises
             \/ WorkflowCancelled \/ CancelWorkflow
    <3>1. wf.state = "open" /\ UNCHANGED <<approved, gw, reviewRequired, task>>
      BY <2>4 DEF Advance, PassGate, Fail, RetryActivity, ActivityRaises,
         WorkflowCancelled, CancelWorkflow, Returned, Exhausted, Retry, Raise, Lost,
         Cancelled, RequestCancel, OnActivity, Open, gatewayVars
    <3> QED
      BY <3>1 DEF Live, Asked
  <2> QED
    BY <2>1, <2>2, <2>3, <2>4 DEF ServerStep
<1> QED
  BY <1>1, <1>2, <1>3 DEF Live

\* A worker's step leaves its attempt in a phase its code knows, and no shard
\* is deleted.
LEMMA WorkerLive ==
  ASSUME GenInv, Live, NEW s \in Steps, NEW n \in Attempts, ActivityStep(s, n)
  PROVE  Live'
<1>1. /\ wf' = wf /\ UNCHANGED <<approved, gw, reviewRequired, task>>
      /\ \A t \in Steps, k \in Attempts :
           <<t, k>> # <<s, n>> => at'[<<t, k>>] = at[<<t, k>>]
  BY WorkerSlots, WorkerEffect
<1>2. /\ at \in [Ids -> Phases] /\ <<s, n>> \in Ids /\ stored \in [Shards -> 0..MaxAttempts]
      /\ n \in Nat /\ n # 0
  BY Domains, AttemptsAssumption DEF GenInv, TypeOK, EngineTypeOK, Contents, Ids
<1>3. \/ at'[<<s, n>>] \in {"begin", "returned"}
      \/ s \in StatusSteps /\ at'[<<s, n>>] \in {"read", "saved"}
      \/ s = Assemble /\ at'[<<s, n>>] = "read"
  BY <1>2 DEF ActivityStep, ReadJob, SaveJob, Publish, PlanShards, PutShard, ReadShards,
     PutArtifact, RegisterVersion
<1>4. Phased'
  <2> SUFFICES ASSUME NEW t \in Steps, NEW k \in Attempts
               PROVE  \/ at'[<<t, k>>] \in {"idle", "begin", "returned", "raised"}
                      \/ t \in StatusSteps /\ at'[<<t, k>>] \in {"read", "saved"}
                      \/ t = Assemble /\ at'[<<t, k>>] = "read"
    BY DEF Phased
  <2> QED
    BY <1>1, <1>3 DEF Live, Phased
<1>5. \A t \in Shards : stored[t] # 0 => stored'[t] # 0
  <2>1. CASE PutShard(n)
    BY <1>2, <2>1 DEF PutShard
  <2>2. CASE ~PutShard(n)
    BY <2>2 DEF ActivityStep, ReadJob, SaveJob, Publish, PlanShards, ReadShards,
       PutArtifact, RegisterVersion, storeVars
  <2> QED
    BY <2>1, <2>2
<1>6. ShardsThere' /\ Asked'
  BY <1>1, <1>5 DEF Live, ShardsThere, Full, Asked
<1> QED
  BY <1>4, <1>6 DEF Live

\* The attempt waited for exists, and its phase is one its code goes on from.
LEMMA LiveSuffices == GenInv /\ Live => NotStranded
<1> SUFFICES ASSUME GenInv, Live, Open PROVE NotStranded
  BY DEF NotStranded
<1>1. wf.pc \in Steps \cup {Gate} /\ wf.state # "none"
  BY DEF GenInv, Position, Open
<1>2. CASE wf.pc = Gate
  BY <1>1, <1>2 DEF NotStranded, Live, Asked, GenInv, TypeOK
<1>3. CASE wf.pc \in Steps
  <2>1. wf.n \in Attempts /\ at[<<wf.pc, wf.n>>] # "idle" /\ wf.pc \in Nat
    BY <1>3 DEF GenInv, TypeOK, EngineTypeOK, Started, Open
  <2>2. \/ at[<<wf.pc, wf.n>>] \in {"begin", "returned", "raised"}
        \/ wf.pc \in StatusSteps /\ at[<<wf.pc, wf.n>>] \in {"read", "saved"}
        \/ wf.pc = Assemble /\ at[<<wf.pc, wf.n>>] = "read"
    BY <1>3, <2>1 DEF Live, Phased
  <2>3. /\ wf.pc = Assemble => Full(stored)
        /\ wf.pc \in StatusSteps \cup {Plan, Generate, Assemble, Register}
    BY <1>3, <2>1, Numbers DEF Live, ShardsThere, Steps
  <2>4. at[<<wf.pc, wf.n>>] \in {"returned", "raised"} \/ MayProceed(wf.pc, wf.n)
    BY <2>2, <2>3 DEF MayProceed
  <2> QED
    BY <1>3, <2>4 DEF NotStranded, Current
<1> QED
  BY <1>1, <1>2, <1>3

\* A generation request is never stranded: at every moment an open workflow has
\* an outcome to take up, an attempt that can go on, or, at the review gate, an
\* approval or someone to ask, unless the handler crashed before the task.
THEOREM NeverStranded == Spec => []NotStranded
<1>1. Init => Live
  BY Numbers DEF Init, EngineInit, Live, Phased, ShardsThere, Asked, Ids
<1>2. GenInv /\ Live /\ [Next]_vars => Live'
  <2> SUFFICES ASSUME GenInv, Live, [Next]_vars PROVE Live'
    OBVIOUS
  <2>1. CASE UNCHANGED vars
    BY <2>1 DEF vars, Live, Phased, ShardsThere, Full, Asked
  <2>2. CASE ServerStep
    BY <2>2, ServerLive
  <2>3. ASSUME NEW s \in Steps, NEW n \in Attempts, ActivityStep(s, n) PROVE Live'
    BY <2>3, WorkerLive
  <2> QED
    BY <2>1, <2>2, <2>3, NextCases
<1> QED
  BY <1>1, <1>2, InvHolds, LiveSuffices, PTL DEF Spec

-----------------------------------------------------------------------------
(* Review decisions.                                                       *)

\* A request in flight has seen a task, and tasks are never removed.
Queued ==
  /\ rev \in [Reviewers -> {"idle", "checked", "acted"}]
  /\ decision \in [Reviewers -> Decisions]
  /\ \A r \in Reviewers : rev[r] # "idle" => task # "none"

\* What an approval, and what a rejection, brings about in the workflow.
Told == wf.cancel \/ wf.state \in Closed
Delivered(d) == (d = "approve" => approved) /\ (d = "reject" => Told)

\* A request that has acted has delivered its decision; and no task exists
\* before the handler of start_generation has begun.
Acted ==
  /\ \A r \in Reviewers : rev[r] = "acted" => Delivered(decision[r])
  /\ gw = "idle" => task = "none"
  /\ DecisionDelivered

-----------------------------------------------------------------------------
(* The refinement.                                                         *)

\* What a request of reviewer r may do.
RequestStep(r) ==
  \/ DecideReview(r) \/ Signal(r) \/ Cancel(r) \/ NoAction(r) \/ WorkflowGone(r)
  \/ SaveDecision(r) \/ RequestDies(r)

\* A decision maps to a status a decided task may have.
LEMMA DecidedStatus ==
  ASSUME NEW d \in Decisions
  PROVE  /\ StatusByDecision[d] \in ReviewStatus \ {"pending"}
         /\ StatusByDecision[d] = "approved" <=> d = "approve"
         /\ StatusByDecision[d] = "rejected" <=> d = "reject"
  BY DEF Decisions, StatusByDecision, ReviewStatus

\* A system step is a step of Generation that leaves the requests alone and
\* never removes a task.
LEMMA SystemEffect ==
  ASSUME SystemStep
  PROVE  /\ Next /\ UNCHANGED <<rev, decision, contested>>
         /\ task' \in {task, "pending"}
         /\ task' # task => gw = "saved" /\ gw' = "done"
         /\ gw' = "idle" => gw = "idle"
         /\ gw' = "started" => gw \in {"idle", "started"}
         /\ gw' = "saved" => gw \in {"started", "saved"}
<1>1. UNCHANGED <<rev, decision, contested>>
  BY DEF SystemStep
<1>2. CASE \E s \in Steps, n \in Attempts : ActivityStep(s, n)
  BY <1>1, <1>2, WorkerEffect DEF Next
<1>3. CASE ~\E s \in Steps, n \in Attempts : ActivityStep(s, n)
  BY <1>1, <1>3 DEF SystemStep, Next, StartGeneration, GatewaySaveJob, CreateReviewTask,
     GatewayCrash, Advance, PassGate, Fail, RetryActivity, ActivityRaises,
     WorkflowCancelled, gatewayVars
<1> QED
  BY <1>2, <1>3

\* A request changes its own slot only.
LEMMA RequestEffect ==
  ASSUME Queued, NEW r \in Reviewers, RequestStep(r)
  PROVE  /\ \E p \in {"idle", "checked", "acted"}, d \in Decisions :
              /\ rev' = [rev EXCEPT ![r] = p]
              /\ decision' = [decision EXCEPT ![r] = d]
              /\ p # "idle" => task # "none" /\ task' = task
              /\ p = "acted" => rev[r] = "checked" /\ d = decision[r]
         /\ gw' = gw /\ reviewRequired' = reviewRequired
         /\ \/ UNCHANGED vars
            \/ SignalApprove /\ task' = task
            \/ CancelWorkflow /\ task' = task
            \/ SaveDecision(r)
<1>1. /\ decision[r] \in Decisions /\ decision = [decision EXCEPT ![r] = decision[r]]
      /\ rev[r] # "idle" => task # "none"
  BY DEF Queued
<1>2. CASE DecideReview(r)
  BY <1>1, <1>2 DEF DecideReview, vars
<1>3. CASE Signal(r)
  BY <1>1, <1>3 DEF Signal, SignalApprove, gatewayVars
<1>4. CASE Cancel(r)
  BY <1>1, <1>4 DEF Cancel, CancelWorkflow, gatewayVars
<1>5. CASE NoAction(r)
  BY <1>1, <1>5 DEF NoAction, vars
<1>6. CASE WorkflowGone(r)
  BY <1>1, <1>6 DEF WorkflowGone, vars
<1>7. CASE SaveDecision(r)
  BY <1>1, <1>7 DEF SaveDecision, gatewayVars
<1>8. CASE RequestDies(r)
  BY <1>1, <1>8 DEF RequestDies, vars
<1> QED
  BY <1>2, <1>3, <1>4, <1>5, <1>6, <1>7, <1>8 DEF RequestStep

\* Requests in flight hold a task, always.
LEMMA QueuedHolds == ReviewSpec => []Queued
<1>1. ReviewInit => Queued
  BY DEF ReviewInit, Queued, Decisions
<1>2. Queued /\ [ReviewNext]_reviewVars => Queued'
  <2> SUFFICES ASSUME Queued, [ReviewNext]_reviewVars PROVE Queued'
    OBVIOUS
  <2>1. CASE SystemStep
    BY <2>1, SystemEffect DEF Queued
  <2>2. ASSUME NEW r \in Reviewers, RequestStep(r) PROVE Queued'
    <3>1. PICK p \in {"idle", "checked", "acted"}, d \in Decisions :
            /\ rev' = [rev EXCEPT ![r] = p]
            /\ decision' = [decision EXCEPT ![r] = d]
            /\ p # "idle" => task # "none" /\ task' = task
      BY <2>2, RequestEffect
    <3>2. task' = "none" => task = "none"
      <4>1. SaveDecision(r) => task' # "none"
        BY DecidedStatus DEF SaveDecision, Queued, ReviewStatus
      <4> QED
        BY <2>2, <4>1, RequestEffect DEF vars
    <3> QED
      BY <3>1, <3>2 DEF Queued
  <2>3. CASE UNCHANGED reviewVars
    BY <2>3 DEF reviewVars, vars, Queued
  <2> QED
    BY <2>1, <2>2, <2>3 DEF ReviewNext, RequestStep
<1> QED
  BY <1>1, <1>2, PTL DEF ReviewSpec

\* Concurrent decision requests drive the workflow, the task and the job only
\* in ways Generation allows its reviewers: what holds of it holds of them.
LEMMA GenerationImplemented == ReviewSpec => Spec
<1>1. ReviewInit => Init
  BY DEF ReviewInit
<1>2. Queued /\ [ReviewNext]_reviewVars => [Next]_vars
  <2> SUFFICES ASSUME Queued, [ReviewNext]_reviewVars PROVE Next \/ UNCHANGED vars
    OBVIOUS
  <2>1. CASE SystemStep
    BY <2>1, SystemEffect
  <2>2. ASSUME NEW r \in Reviewers, RequestStep(r) PROVE Next \/ UNCHANGED vars
    <3>1. SaveDecision(r) => SaveReview
      BY DecidedStatus DEF SaveDecision, SaveReview, Queued
    <3> QED
      BY <2>2, <3>1, RequestEffect DEF Next
  <2>3. CASE UNCHANGED reviewVars
    BY <2>3 DEF reviewVars
  <2> QED
    BY <2>1, <2>2, <2>3 DEF ReviewNext, RequestStep
<1> QED
  BY <1>1, <1>2, QueuedHolds, PTL DEF ReviewSpec, Spec

\* The human gate holds under concurrent, repeated and lost decision requests.
THEOREM GateHoldsUnderReview == ReviewSpec => []NothingBeforeApproval
  BY GenerationImplemented, GateHolds, PTL

-----------------------------------------------------------------------------
(* The decisions.                                                          *)

\* Beyond its start, a workflow keeps its approval and what it was told.
LEMMA Remembered ==
  ASSUME EngineTypeOK, Next, gw # "idle"
  PROVE  (approved => approved') /\ (Told => Told')
<1>1. wf \in Executions
  BY DEF EngineTypeOK, Executions
<1>2. CASE \E s \in Steps, n \in Attempts : ActivityStep(s, n)
  BY <1>2, WorkerEffect DEF Told
<1>3. CASE ServerStep
  <2>1. ~StartGeneration
    BY DEF StartGeneration
  <2>2. CASE Advance
    BY <1>1, <2>2 DEF Advance, Returned, OnActivity, Open, Park, Schedule, Close, Told, Executions, Closed
  <2>3. CASE PassGate
    BY <1>1, <2>3 DEF PassGate, Schedule, Told, Executions
  <2>7. CASE RetryActivity
    BY <1>1, <2>7 DEF RetryActivity, Retry, Told, Executions
  <2>5. CASE Fail \/ WorkflowCancelled
    BY <1>1, <2>5 DEF Fail, WorkflowCancelled, Close, Cancelled, Told, Executions, Closed
  <2>6. CASE CancelWorkflow
    BY <1>1, <2>6 DEF CancelWorkflow, RequestCancel, Told, Executions
  <2>4. CASE GatewaySaveJob \/ CreateReviewTask \/ GatewayCrash \/ ActivityRaises
               \/ SignalApprove \/ SaveReview
    BY <2>4 DEF GatewaySaveJob, CreateReviewTask, GatewayCrash, ActivityRaises, Raise,
       SignalApprove, SaveReview, engineVars, Told
  <2> QED
    BY <1>3, <2>1, <2>2, <2>3, <2>4, <2>5, <2>6, <2>7 DEF ServerStep
<1> QED
  BY <1>2, <1>3, NextCases

\* A step that acts on a decision delivers it.
LEMMA ActingDelivers ==
  ASSUME Queued, EngineTypeOK, NEW r \in Reviewers, RequestStep(r),
         rev[r] = "checked", rev'[r] = "acted"
  PROVE  Delivered(decision[r])'
<1>1. wf \in Executions /\ decision[r] \in Decisions /\ rev \in [Reviewers -> {"idle", "checked", "acted"}]
  BY DEF EngineTypeOK, Executions, Queued
<1>2. CASE Signal(r)
  BY <1>2 DEF Signal, SignalApprove, Delivered
<1>3. CASE Cancel(r)
  BY <1>1, <1>3 DEF Cancel, CancelWorkflow, RequestCancel, Delivered, Told, Executions
<1>4. CASE NoAction(r)
  BY <1>4 DEF NoAction, Delivered
<1>5. CASE WorkflowGone(r)
  <2>1. decision[r] = "reject" /\ UNCHANGED <<wf, decision>> /\ wf.state \in Closed
    BY <1>1, <1>5, <1>1 DEF WorkflowGone, vars, Decisions
  <2> QED
    BY <2>1 DEF Delivered, Told
<1>6. CASE DecideReview(r) \/ SaveDecision(r) \/ RequestDies(r)
  BY <1>1, <1>6 DEF DecideReview, SaveDecision, RequestDies
<1> QED
  BY <1>2, <1>3, <1>4, <1>5, <1>6 DEF RequestStep

\* One step keeps what the decisions brought about.
LEMMA ActedStep ==
  ASSUME Queued, EngineTypeOK, Acted, [ReviewNext]_reviewVars
  PROVE  Acted'
<1>1. CASE SystemStep
  <2>1. /\ Next /\ UNCHANGED <<rev, decision>>
        /\ task' \in {task, "pending"} /\ (gw' = "idle" => gw = "idle")
        /\ task' # task => gw = "saved"
    BY <1>1, SystemEffect
  <2>2. CASE gw = "idle"
    <3>1. task' = "none"
      BY <2>1, <2>2 DEF Acted
    <3> QED
      BY <2>1, <2>2, <3>1 DEF Acted, Queued, DecisionDelivered
  <2>3. CASE gw # "idle"
    <3>1. (approved => approved') /\ (Told => Told')
      BY <2>1, <2>3, Remembered
    <3> QED
      BY <2>1, <2>3, <3>1 DEF Acted, Delivered, DecisionDelivered, Told
  <2> QED
    BY <2>2, <2>3
<1>2. ASSUME NEW r \in Reviewers, RequestStep(r) PROVE Acted'
  <2>1. PICK p \in {"idle", "checked", "acted"}, d \in Decisions :
          /\ rev' = [rev EXCEPT ![r] = p]
          /\ decision' = [decision EXCEPT ![r] = d]
          /\ p = "acted" => rev[r] = "checked" /\ d = decision[r]
    BY <1>2, RequestEffect
  <2>2. (approved => approved') /\ (Told => Told')
    <3>1. CASE UNCHANGED vars
      BY <3>1 DEF vars, Told
    <3>2. CASE SignalApprove
      BY <3>2 DEF SignalApprove, engineVars, Told
    <3>3. CASE CancelWorkflow
      BY <3>3 DEF CancelWorkflow, RequestCancel, Told, EngineTypeOK
    <3>4. CASE SaveDecision(r)
      BY <3>4 DEF SaveDecision, engineVars, Told
    <3> QED
      BY <1>2, <3>1, <3>2, <3>3, <3>4, RequestEffect
  <2>3. ASSUME NEW q \in Reviewers, rev'[q] = "acted" PROVE Delivered(decision[q])'
    <3>1. CASE q = r
      BY <1>2, <2>1, <2>3, <3>1, ActingDelivers DEF Queued
    <3>2. CASE q # r
      BY <2>1, <2>2, <2>3, <3>2 DEF Queued, Acted, Delivered
    <3> QED
      BY <3>1, <3>2
  <2>4. DecisionDelivered' /\ (gw' = "idle" => task' = "none")
    <3>1. CASE task' = task
      BY <1>2, <2>2, <3>1, RequestEffect DEF Acted, DecisionDelivered, Told
    <3>2. CASE SaveDecision(r)
      <4>1. /\ rev[r] = "acted" /\ task' = StatusByDecision[decision[r]]
            /\ decision[r] \in Decisions /\ gw # "idle" /\ gw' = gw
        BY <3>2 DEF SaveDecision, Queued, gatewayVars, Acted
      <4>2. /\ task' = "approved" => approved
            /\ task' = "rejected" => Told
        BY <4>1, DecidedStatus DEF Acted, Delivered
      <4> QED
        BY <2>2, <4>1, <4>2 DEF DecisionDelivered, Told
    <3> QED
      BY <1>2, <3>1, <3>2, RequestEffect DEF vars
  <2> QED
    BY <2>3, <2>4 DEF Acted
<1>3. CASE UNCHANGED reviewVars
  BY <1>3 DEF reviewVars, vars, Acted, Delivered, DecisionDelivered, Told
<1> QED
  BY <1>1, <1>2, <1>3 DEF ReviewNext, RequestStep

\* A decision is saved only after it was delivered: whatever other requests do
\* between the awaits of decide_review, a task that reads approved has released
\* the gate and one that reads rejected has a workflow told to stop, or closed.
THEOREM DecisionsDelivered == ReviewSpec => []DecisionDelivered
<1>1. ReviewInit => Acted
  BY DEF ReviewInit, Init, Acted, DecisionDelivered
<1>2. ReviewSpec => []GenInv
  BY GenerationImplemented, InvHolds, PTL
<1>3. GenInv /\ Queued /\ Acted /\ [ReviewNext]_reviewVars => Acted'
  BY ActedStep DEF GenInv, TypeOK
<1>4. Acted => DecisionDelivered
  BY DEF Acted
<1> QED
  BY <1>1, <1>2, <1>3, <1>4, QueuedHolds, PTL DEF ReviewSpec

-----------------------------------------------------------------------------
(* The row and the workflow.                                               *)

\* No task before the handler has come to it; and while nothing is contested
\* one request at a time, on an undecided task.
Serial ==
  /\ contested \in BOOLEAN
  /\ gw \in {"idle", "started", "saved"} => task = "none"
  /\ ~contested =>
       /\ \A q, r \in Reviewers : InFlight(q) /\ InFlight(r) => q = r
       /\ \A r \in Reviewers : InFlight(r) => task = "pending"

\* Beyond its start the system neither approves nor cancels.
LEMMA SystemTells ==
  ASSUME EngineTypeOK, SystemStep, ~StartGeneration
  PROVE  approved' = approved /\ wf'.cancel = wf.cancel /\ reviewRequired' = reviewRequired
<1>1. wf \in Executions
  BY DEF EngineTypeOK, Executions
<1>2. CASE \E s \in Steps, n \in Attempts : ActivityStep(s, n)
  BY <1>2, WorkerEffect
<1>3. CASE Advance
  BY <1>1, <1>3 DEF Advance, Returned, OnActivity, Open, Park, Schedule, Close, Executions, gatewayVars
<1>4. CASE PassGate
  BY <1>1, <1>4 DEF PassGate, Schedule, Executions, gatewayVars
<1>5. CASE RetryActivity
  BY <1>1, <1>5 DEF RetryActivity, Retry, Executions, gatewayVars
<1>6. CASE Fail \/ WorkflowCancelled
  BY <1>1, <1>6 DEF Fail, WorkflowCancelled, Close, Cancelled, Executions, gatewayVars
<1>7. CASE GatewaySaveJob \/ CreateReviewTask \/ GatewayCrash \/ ActivityRaises
  BY <1>7 DEF GatewaySaveJob, CreateReviewTask, GatewayCrash, ActivityRaises, Raise,
     engineVars, gatewayVars
<1> QED
  BY <1>2, <1>3, <1>4, <1>5, <1>6, <1>7 DEF SystemStep

\* What a request does to the history.
LEMMA Contests ==
  ASSUME Queued, NEW r \in Reviewers, RequestStep(r), contested \in BOOLEAN
  PROVE  /\ contested' \in BOOLEAN
         /\ contested => contested'
         /\ ~contested' /\ rev[r] = "idle" => task = "pending" /\ ~Overlapping(r)
         /\ ~contested' /\ rev[r] = "acted" => SaveDecision(r)
<1>1. CASE DecideReview(r)
  <2>1. (contested' = (contested \/ Overlapping(r))) /\ rev[r] = "idle" /\ task = "pending"
    BY <1>1 DEF DecideReview
  <2>2. contested' <=> contested \/ Overlapping(r)
    BY <2>1
  <2>3. contested' \in BOOLEAN
    BY <2>1 DEF Overlapping
  <2> QED
    BY <2>1, <2>2, <2>3
<1>2. CASE RequestDies(r)
  <2>1. (contested' = (contested \/ rev[r] = "acted")) /\ rev[r] # "idle"
    BY <1>2 DEF RequestDies, InFlight
  <2> QED
    BY <2>1
<1>3. CASE SaveDecision(r)
  BY <1>3 DEF SaveDecision
<1>4. CASE Signal(r) \/ Cancel(r) \/ NoAction(r) \/ WorkflowGone(r)
  BY <1>4 DEF Signal, Cancel, NoAction, WorkflowGone
<1> QED
  BY <1>1, <1>2, <1>3, <1>4 DEF RequestStep

\* The pending check serialises the requests.
LEMMA SerialStep ==
  ASSUME Queued, Serial, [ReviewNext]_reviewVars
  PROVE  Serial'
<1>1. CASE SystemStep
  BY <1>1, SystemEffect DEF Serial, Queued, InFlight
<1>2. ASSUME NEW r \in Reviewers, RequestStep(r) PROVE Serial'
  <2>1. PICK p \in {"idle", "checked", "acted"}, d \in Decisions :
          /\ rev' = [rev EXCEPT ![r] = p]
          /\ p # "idle" => task # "none" /\ task' = task
    BY <1>2, RequestEffect
  <2>2. /\ contested' \in BOOLEAN /\ (contested => contested')
        /\ ~contested' /\ rev[r] = "idle" => task = "pending" /\ ~Overlapping(r)
    BY <1>2, Contests DEF Serial
  <2>3. gw' = gw /\ (gw \in {"idle", "started", "saved"} => task' = "none")
    <3>1. gw' = gw /\ (task' = task \/ SaveDecision(r))
      BY <1>2, RequestEffect DEF vars
    <3>2. ~(gw \in {"idle", "started", "saved"} /\ SaveDecision(r))
      BY DEF SaveDecision, Queued, Serial
    <3> QED
      BY <3>1, <3>2 DEF Serial
  <2>4. ASSUME ~contested', NEW q \in Reviewers, InFlight(q)'
        PROVE  task' = "pending" /\ \A s \in Reviewers : InFlight(s)' => s = q
    <3>1. CASE rev[r] = "idle"
      <4>1. \A s \in Reviewers \ {r} : rev[s] = "idle" /\ rev'[s] = "idle"
        BY <2>1, <2>2, <2>4, <3>1 DEF Overlapping, InFlight, Queued
      <4>2. q = r /\ p # "idle"
        BY <4>1, <2>4, <2>1 DEF InFlight, Queued
      <4> QED
        BY <4>1, <4>2, <2>1, <2>2, <2>4, <3>1 DEF InFlight
    <3>2. CASE rev[r] # "idle"
      <4>1. \A s \in Reviewers \ {r} : rev'[s] = "idle" /\ task = "pending"
        BY <2>1, <2>2, <2>4, <3>2 DEF Serial, InFlight, Queued
      <4>2. q = r /\ p # "idle" /\ task = "pending"
        BY <4>1, <2>1, <2>2, <2>4, <3>2 DEF Serial, InFlight, Queued
      <4> QED
        BY <4>1, <4>2, <2>1 DEF InFlight
    <3> QED
      BY <3>1, <3>2
  <2> QED
    BY <2>2, <2>3, <2>4 DEF Serial
<1>3. CASE UNCHANGED reviewVars
  BY <1>3 DEF reviewVars, vars, Serial, InFlight
<1> QED
  BY <1>1, <1>2, <1>3 DEF ReviewNext, RequestStep

\* One request's step keeps row and workflow in agreement.
LEMMA RequestTells ==
  ASSUME Queued, Serial, EngineTypeOK, RowTellsDecision,
         NEW r \in Reviewers, RequestStep(r), reviewRequired, ~contested'
  PROVE  RowTellsDecision'
<1>1. /\ ~contested /\ reviewRequired' = reviewRequired
      /\ approved => task = "approved" \/ Delivering("approve")
      /\ wf.cancel => task = "rejected" \/ Delivering("reject")
      /\ ~(approved /\ wf.cancel)
  BY RequestEffect, Contests DEF Serial, RowTellsDecision
<1>2. /\ rev \in [Reviewers -> {"idle", "checked", "acted"}]
      /\ decision \in [Reviewers -> Decisions] /\ wf \in Executions
  BY DEF Queued, EngineTypeOK, Executions
<1>3. rev[r] = "checked" => /\ task = "pending" /\ ~approved /\ ~wf.cancel
                            /\ \A q \in Reviewers \ {r} : rev[q] = "idle"
  BY <1>1, <1>2 DEF Serial, InFlight, Delivering
<1>4. CASE DecideReview(r)
  <2>1. task = "pending" /\ \A q \in Reviewers : rev[q] = "idle"
    BY <1>2, <1>4, Contests DEF DecideReview, Overlapping, InFlight, Serial
  <2>2. ~approved /\ ~wf.cancel
    BY <1>1, <2>1 DEF Delivering
  <2> QED
    BY <1>4, <2>2 DEF DecideReview, vars, RowTellsDecision
<1>5. CASE Signal(r)
  <2>1. rev' = [rev EXCEPT ![r] = "acted"] /\ decision' = decision /\ decision[r] = "approve"
        /\ wf' = wf /\ task' = task /\ rev[r] = "checked"
    BY <1>5 DEF Signal, SignalApprove, engineVars
  <2>2. Delivering("approve")'
    BY <1>2, <2>1 DEF Delivering
  <2> QED
    BY <1>3, <2>1, <2>2 DEF RowTellsDecision
<1>6. CASE Cancel(r)
  <2>1. rev' = [rev EXCEPT ![r] = "acted"] /\ decision' = decision /\ decision[r] = "reject"
        /\ approved' = approved /\ task' = task /\ rev[r] = "checked"
    BY <1>6 DEF Cancel, CancelWorkflow
  <2>2. Delivering("reject")'
    BY <1>2, <2>1 DEF Delivering
  <2> QED
    BY <1>3, <2>1, <2>2 DEF RowTellsDecision
<1>7. CASE NoAction(r) \/ WorkflowGone(r)
  <2>1. rev[r] = "checked" /\ UNCHANGED vars
    BY <1>7 DEF NoAction, WorkflowGone
  <2> QED
    BY <1>3, <2>1 DEF vars, RowTellsDecision
<1>8. CASE SaveDecision(r)
  <2>1. /\ rev[r] = "acted" /\ task' = StatusByDecision[decision[r]]
        /\ UNCHANGED <<wf, approved>>
    BY <1>8 DEF SaveDecision, engineVars
  <2>2. task = "pending" /\ \A q \in Reviewers : rev[q] = "acted" => q = r
    BY <1>1, <2>1 DEF Serial, InFlight
  <2>3. (approved => decision[r] = "approve") /\ (wf.cancel => decision[r] = "reject")
    BY <1>1, <2>2 DEF Delivering
  <2>4. (approved => task' = "approved") /\ (wf.cancel => task' = "rejected")
    BY <1>2, <2>1, <2>3, DecidedStatus
  <2> QED
    BY <1>1, <2>1, <2>4 DEF RowTellsDecision
<1>9. CASE RequestDies(r)
  <2>1. rev[r] = "checked"
    BY <1>2, <1>9 DEF RequestDies, InFlight
  <2> QED
    BY <1>3, <1>9, <2>1 DEF RequestDies, vars, RowTellsDecision
<1> QED
  BY <1>4, <1>5, <1>6, <1>7, <1>8, <1>9 DEF RequestStep

\* So does every step.
LEMMA TellsStep ==
  ASSUME Queued, Serial, EngineTypeOK, RowTellsDecision, [ReviewNext]_reviewVars
  PROVE  RowTellsDecision'
<1>1. CASE SystemStep /\ ~StartGeneration
  <2>1. /\ UNCHANGED <<rev, decision, contested, approved, reviewRequired>>
        /\ wf'.cancel = wf.cancel
        /\ task' # task => task = "none"
    BY <1>1, SystemEffect, SystemTells DEF Serial
  <2>2. task = "none" => \A d \in {"approve", "reject"} : ~Delivering(d)
    BY DEF Queued, Delivering
  <2>3. \A d \in {"approve", "reject"} : Delivering(d) <=> Delivering(d)'
    BY <2>1 DEF Delivering
  <2> QED
    BY <2>1, <2>2, <2>3 DEF RowTellsDecision
<1>2. CASE SystemStep /\ StartGeneration
  BY <1>2 DEF StartGeneration, StartWorkflow, RowTellsDecision
<1>3. ASSUME NEW r \in Reviewers, RequestStep(r) PROVE RowTellsDecision'
  <2>1. CASE reviewRequired /\ ~contested'
    BY <1>3, <2>1, RequestTells
  <2>2. CASE ~(reviewRequired /\ ~contested')
    BY <1>3, <2>2, RequestEffect DEF RowTellsDecision
  <2> QED
    BY <2>1, <2>2
<1>4. CASE UNCHANGED reviewVars
  BY <1>4 DEF reviewVars, vars, RowTellsDecision, Delivering
<1> QED
  BY <1>1, <1>2, <1>3, <1>4 DEF ReviewNext, RequestStep

\* Row and workflow agree on the decision, for any number of reviewers, unless
\* two requests overlapped or one died between telling and saving.
THEOREM RowsTellDecisions == ReviewSpec => []RowTellsDecision
<1>1. ReviewInit => Serial /\ RowTellsDecision
  BY DEF ReviewInit, Init, Serial, RowTellsDecision, InFlight
<1>2. ReviewSpec => []GenInv
  BY GenerationImplemented, InvHolds, PTL
<1>3. GenInv /\ Queued /\ Serial /\ RowTellsDecision /\ [ReviewNext]_reviewVars
        => Serial' /\ RowTellsDecision'
  BY SerialStep, TellsStep DEF GenInv, TypeOK
<1> QED
  BY <1>1, <1>2, <1>3, QueuedHolds, PTL DEF ReviewSpec
=============================================================================
