-------------------------- MODULE Evaluation_proofs -------------------------
(***************************************************************************)
(* Proofs about an evaluation request for every number of attempts and     *)
(* faults.  The invariant says which attempts can exist together: the      *)
(* except branch is taken instead of the last step, attempts of a step     *)
(* begin one after the other, and an attempt that was superseded while it  *)
(* ran never counts as raised.                                             *)
(***************************************************************************)
EXTENDS Evaluation, FiniteSetTheorems, TLAPS

\* Where the workflow can be, and where it must be to have completed.
Position ==
  /\ wf.state = "none" => wf.pc = 0
  /\ wf.state # "none" => wf.pc \in Steps
  /\ wf.state = "completed" => wf.pc = SetSucceeded

\* Attempts exist only for positions reached, in the order of their numbers,
\* and the attempt the workflow waits for exists.
Started ==
  /\ \A id \in Ids : at[id] # "idle" =>
       /\ wf.state # "none"
       /\ id[1] < wf.pc \/ (id[1] = wf.pc /\ id[2] <= wf.n)
  /\ wf.state = "open" => at[<<wf.pc, wf.n>>] # "idle"

\* The attempts of a step begin one after the other.
Contiguous ==
  \A s \in Steps, n, k \in Attempts :
    k < n /\ at[<<s, n>>] # "idle" => at[<<s, k>>] # "idle"

\* Beyond the first step an attempt of it has returned, and the except branch
\* excludes the last step.
Branches ==
  /\ wf.pc > SetRunning => \E k \in Attempts : at[<<SetRunning, k>>] = "returned"
  /\ wf.pc = SetFailed => \A k \in Attempts : at[<<SetSucceeded, k>>] = "idle"

Both == json # 0 /\ html # 0

Uploaded == {"uploaded", "read", "saved", "cleared", "returned"}

\* The report objects are there for whoever refers to them: the attempts that
\* uploaded them, the success branch, the row and every copy of it.
Reports ==
  /\ \A n \in Attempts : at[<<RunEval, n>>] \in Uploaded => Both
  /\ \A n \in Attempts : at[<<RunEval, n>>] = "json" => json # 0
  /\ \A n \in Attempts : at[<<SetSucceeded, n>>] # "idle" => Both
  /\ wf.pc = SetSucceeded => Both
  /\ run.report # 0 \/ run.status = "succeeded" => Both
  /\ \A id \in Ids : seen[id].report # 0 \/ seen[id].status = "succeeded" => Both

\* Rows of the results table belong to attempts that returned.
ResultsKept == \A n \in results : at[<<RunEval, n>>] = "returned"

\* Nothing overwrites a failed status if no superseded attempt and no late
\* gateway is left to do it.
Orderly ==
  /\ OnlyRaises /\ at[<<RunEval, MaxAttempts>>] = "raised"
  /\ gw = "done" /\ ~late
Recorded ==
  Orderly => \A n \in Attempts : at[<<SetFailed, n>>] = "returned" => run.status = "failed"

EvalInv ==
  /\ TypeOK
  /\ Position
  /\ Started
  /\ Contiguous
  /\ Branches
  /\ Reports
  /\ ResultsKept
  /\ Recorded

-----------------------------------------------------------------------------
(* The positions and what a step does to the engine's variables.           *)

\* The positions as numbers, and the attempts.
LEMMA Numbers ==
  /\ Steps = {1, 2, 3, 4}
  /\ SetRunning = 1 /\ RunEval = 2 /\ SetSucceeded = 3 /\ SetFailed = 4
  /\ StatusSteps = {1, 3, 4}
  /\ Attempts = 1..MaxAttempts /\ 1 \in Attempts /\ MaxAttempts \in Attempts
  /\ Attempts \subseteq Nat /\ Ids = Steps \X Attempts
  BY AttemptsAssumption DEF Steps, SetRunning, RunEval, SetSucceeded, SetFailed, StatusSteps,
     Attempts, Ids

Executions ==
  [state : {"none", "open"} \cup Closed, pc : Nat, n : Nat, cancel : BOOLEAN]

\* The steps of gateway and server.
ServerStep ==
  \/ StartEvaluation \/ CreateRun \/ GatewayCrash
  \/ Advance \/ Fail \/ RetryActivity \/ ActivityRaises

\* A step is the server's side or one attempt's.
LEMMA NextCases ==
  Next <=> ServerStep \/ \E s \in Steps, n \in Attempts : ActivityStep(s, n)
  BY DEF Next, ServerStep

\* A worker's step changes its own attempt and nothing else of the engine.
LEMMA WorkerEffect ==
  ASSUME NEW s \in Steps, NEW n \in Attempts, ActivityStep(s, n)
  PROVE  /\ UNCHANGED <<wf, faults, gw, late>>
         /\ at[<<s, n>>] \in {"begin", "json", "uploaded", "read", "saved", "cleared"}
         /\ \E x \in {"json", "uploaded", "read", "saved", "cleared", "returned"} :
              at' = [at EXCEPT ![<<s, n>>] = x]
  BY Zenon DEF ActivityStep, ReadRun, SaveStatus, PutJson, PutHtml, SaveReport,
     DeleteResults, CommitResults, gatewayVars

Moves(st, p, n) ==
  /\ wf' \in Executions
  /\ wf'.state = st /\ wf'.pc = p /\ wf'.n = n

Begins(p, n) ==
  /\ p \in Steps /\ n \in Attempts
  /\ Moves("open", p, n)
  /\ at' = [at EXCEPT ![<<p, n>>] = "begin"]

Awaits(phases) ==
  /\ wf.state = "open" /\ wf.pc \in Steps /\ wf.n \in Attempts
  /\ at[<<wf.pc, wf.n>>] \in phases

\* The shapes a server step can have.
Same == UNCHANGED <<wf, at, faults>>
Starts == wf.state = "none" /\ Begins(SetRunning, 1) /\ UNCHANGED faults
GoesOn ==
  /\ Awaits({"returned"}) /\ wf.pc \in {SetRunning, RunEval}
  /\ Begins(wf.pc + 1, 1) /\ UNCHANGED faults
Diverts ==
  /\ Awaits(Phases) /\ wf.pc = RunEval /\ Begins(SetFailed, 1)
  /\ faults' \in {faults, faults + 1} /\ faults' <= MaxFaults
Retries ==
  /\ Awaits(Phases) /\ Begins(wf.pc, wf.n + 1)
  /\ \/ at[<<wf.pc, wf.n>>] = "raised" /\ UNCHANGED faults
     \/ faults < MaxFaults /\ faults' = faults + 1
Raises ==
  /\ Awaits(Running) /\ UNCHANGED wf
  /\ at' = [at EXCEPT ![<<wf.pc, wf.n>>] = "raised"]
  /\ faults < MaxFaults /\ faults' = faults + 1
Stops ==
  /\ wf.state = "open" /\ Moves("failed", wf.pc, wf.n) /\ UNCHANGED at
  /\ faults' \in {faults, faults + 1} /\ faults' <= MaxFaults
Completes ==
  /\ Awaits({"returned"}) /\ wf.pc = SetSucceeded
  /\ Moves("completed", wf.pc, wf.n) /\ UNCHANGED <<at, faults>>

Shapes == Same \/ Starts \/ GoesOn \/ Diverts \/ Retries \/ Raises \/ Stops \/ Completes

\* Every action of gateway and server has one of the shapes.
LEMMA ServerShapes ==
  ASSUME TypeOK, Position, ServerStep
  PROVE  Shapes
<1>1. /\ wf \in Executions /\ at \in [Ids -> Phases]
      /\ wf.pc \in Steps => wf.n \in Attempts
      /\ faults \in 0..MaxFaults
  BY DEF TypeOK, EngineTypeOK, Executions
<1>2. wf.pc \in Steps => at[<<wf.pc, wf.n>>] \in Phases
  BY <1>1, Numbers
<1>3. CASE CreateRun \/ GatewayCrash
  BY <1>3 DEF CreateRun, GatewayCrash, engineVars, Shapes, Same
<1>4. CASE StartEvaluation
  BY <1>4, <1>1, Numbers
     DEF StartEvaluation, StartWorkflow, Shapes, Starts, Begins, Moves, Executions
<1>5. CASE Advance
  <2>1. Awaits({"returned"}) /\ UNCHANGED faults
    BY <1>5, <1>1 DEF Advance, Returned, OnActivity, Open, Current, Awaits
  <2>2. CASE wf.pc = SetSucceeded
    <3>1. wf' = [wf EXCEPT !.state = "completed"] /\ UNCHANGED at
      BY <1>5, <2>2, Numbers DEF Advance, Close
    <3>2. Moves("completed", wf.pc, wf.n)
      BY <3>1, <1>1 DEF Moves, Executions, Closed
    <3> QED
      BY <3>1, <3>2, <2>1, <2>2 DEF Shapes, Completes
  <2>3. CASE wf.pc = SetFailed
    <3>1. wf' = [wf EXCEPT !.state = "failed"] /\ UNCHANGED at
      BY <1>5, <2>3, Numbers DEF Advance, Close
    <3>2. Moves("failed", wf.pc, wf.n)
      BY <3>1, <1>1 DEF Moves, Executions, Closed
    <3> QED
      BY <3>1, <3>2, <2>1, <1>1, FaultsAssumption DEF Shapes, Stops, Awaits
  <2>4. CASE wf.pc \notin {SetSucceeded, SetFailed}
    <3>1. /\ wf' = [wf EXCEPT !.pc = wf.pc + 1, !.n = 1]
          /\ at' = [at EXCEPT ![<<wf.pc + 1, 1>>] = "begin"]
      BY <1>5, <2>4 DEF Advance, Schedule
    <3>2. wf.pc \in {SetRunning, RunEval} /\ wf.pc + 1 \in Steps /\ wf.pc + 1 \in Nat
      BY <2>1, <2>4, Numbers DEF Awaits
    <3>3. Moves("open", wf.pc + 1, 1)
      BY <3>1, <3>2, <2>1, <1>1 DEF Moves, Executions, Awaits
    <3> QED
      BY <3>1, <3>2, <3>3, <2>1, Numbers DEF Shapes, GoesOn, Begins
  <2> QED
    BY <2>2, <2>3, <2>4
<1>6. CASE Fail
  <2>1. /\ wf.state = "open" /\ wf.pc \in Steps
        /\ faults' \in {faults, faults + 1} /\ faults' <= MaxFaults
    BY <1>6, <1>1, FaultsAssumption DEF Fail, Exhausted, Lost, OnActivity, Open
  <2>2. CASE wf.pc = RunEval
    <3>1. /\ wf' = [wf EXCEPT !.pc = SetFailed, !.n = 1]
          /\ at' = [at EXCEPT ![<<SetFailed, 1>>] = "begin"]
      BY <1>6, <2>2 DEF Fail, Schedule
    <3>2. Moves("open", SetFailed, 1)
      BY <3>1, <2>1, <1>1, Numbers DEF Moves, Executions
    <3> QED
      BY <1>1, <1>2, <2>1, <2>2, <3>1, <3>2, Numbers DEF Shapes, Diverts, Begins, Awaits
  <2>3. CASE wf.pc # RunEval
    <3>1. wf' = [wf EXCEPT !.state = "failed"] /\ UNCHANGED at
      BY <1>6, <2>3 DEF Fail, Close
    <3>2. Moves("failed", wf.pc, wf.n)
      BY <3>1, <1>1 DEF Moves, Executions, Closed
    <3> QED
      BY <2>1, <3>1, <3>2 DEF Shapes, Stops
  <2> QED
    BY <2>2, <2>3
<1>7. CASE RetryActivity
  <2>1. /\ wf.state = "open" /\ wf.pc \in Steps /\ wf.n < MaxAttempts
        /\ wf' = [wf EXCEPT !.n = wf.n + 1]
        /\ at' = [at EXCEPT ![<<wf.pc, wf.n + 1>>] = "begin"]
        /\ \/ at[<<wf.pc, wf.n>>] = "raised" /\ UNCHANGED faults
           \/ faults < MaxFaults /\ faults' = faults + 1
    BY <1>7, <1>1 DEF RetryActivity, Retry, Lost, OnActivity, Open, Current
  <2>2. wf.n \in Attempts /\ wf.n + 1 \in Attempts /\ wf.n + 1 \in Nat
    BY <2>1, <1>1, Numbers, AttemptsAssumption
  <2>3. Moves("open", wf.pc, wf.n + 1)
    BY <2>1, <2>2, <1>1 DEF Moves, Executions
  <2> QED
    BY <2>1, <2>2, <2>3, <1>2 DEF Shapes, Retries, Begins, Awaits
<1>8. CASE ActivityRaises
  BY <1>8, <1>1 DEF ActivityRaises, Raise, OnActivity, Open, Current, Shapes, Raises, Awaits
<1> QED
  BY <1>3, <1>4, <1>5, <1>6, <1>7, <1>8 DEF ServerStep

\* Dispatching an attempt touches no other attempt.
LEMMA BeginsSlots ==
  ASSUME EngineTypeOK, NEW p, NEW n, Begins(p, n), NEW id \in Ids
  PROVE  /\ at'[id] = (IF id = <<p, n>> THEN "begin" ELSE at[id])
         /\ id = <<id[1], id[2]>> /\ id[1] \in Nat /\ id[2] \in Nat
  BY Numbers DEF EngineTypeOK, Begins

\* The shapes keep the engine's types and positions; nothing is taken back.
LEMMA ShapesTyped ==
  ASSUME EngineTypeOK, Position, Shapes
  PROVE  /\ EngineTypeOK' /\ Position'
         /\ wf'.pc >= wf.pc /\ faults' >= faults /\ faults \in Nat /\ faults' \in Nat
<1>1. /\ wf \in Executions /\ (wf.pc \in Steps => wf.n \in Attempts)
      /\ at \in [Ids -> Phases] /\ faults \in 0..MaxFaults
      /\ wf.pc \in Nat /\ wf.n \in Nat
  BY DEF EngineTypeOK, Executions
<1>2. {"begin", "raised"} \subseteq Phases
  BY DEF Phases, Running
<1> DEFINE Goal == /\ wf' \in Executions /\ (wf'.pc \in Steps => wf'.n \in Attempts)
                   /\ at' \in [Ids -> Phases]
                   /\ faults' \in 0..MaxFaults /\ faults' >= faults
                   /\ wf'.pc >= wf.pc
<1>3. Goal
  <2>1. CASE Same \/ Stops \/ Completes
    BY <1>1, <2>1, FaultsAssumption DEF Same, Stops, Completes, Moves, Awaits
  <2>2. CASE Starts
    BY <1>1, <1>2, <2>2, Numbers DEF Starts, Begins, Moves, Position
  <2>3. CASE GoesOn
    BY <1>1, <1>2, <2>3, Numbers DEF GoesOn, Begins, Moves, Awaits
  <2>4. CASE Retries
    BY <1>1, <1>2, <2>4, Numbers, FaultsAssumption DEF Retries, Begins, Moves
  <2>6. CASE Diverts
    BY <1>1, <1>2, <2>6, Numbers, FaultsAssumption DEF Diverts, Begins, Moves
  <2>5. CASE Raises
    BY <1>1, <1>2, <2>5, Numbers, FaultsAssumption DEF Raises, Awaits
  <2> QED
    BY <2>1, <2>2, <2>3, <2>4, <2>5, <2>6 DEF Shapes
<1>4. Position'
  BY Numbers DEF Shapes, Same, Starts, GoesOn, Diverts, Retries, Raises, Stops, Completes, Awaits,
     Begins, Moves, Position
<1> QED
  BY <1>1, <1>3, <1>4, FaultsAssumption DEF EngineTypeOK, Executions

\* A dispatched attempt is at a position reached.
LEMMA ShapesStarted ==
  ASSUME EngineTypeOK, Position, Started, Shapes
  PROVE  Started'
<1>1. /\ wf.pc \in Nat /\ wf.n \in Nat /\ at \in [Ids -> Phases]
      /\ wf.pc \in Steps => <<wf.pc, wf.n>> \in Ids
  BY Numbers DEF EngineTypeOK
<1>2. wf'.state = "open" => at'[<<wf'.pc, wf'.n>>] # "idle"
  <2>1. CASE Same \/ Stops \/ Completes
    BY <2>1 DEF Same, Stops, Completes, Moves, Started
  <2>2. ASSUME NEW p, NEW n, Begins(p, n) PROVE at'[<<wf'.pc, wf'.n>>] # "idle"
    BY <2>2, <1>1, Numbers DEF Begins, Moves
  <2>3. CASE Raises
    BY <2>3, <1>1 DEF Raises, Awaits
  <2> QED
    BY <2>1, <2>2, <2>3 DEF Shapes, Starts, GoesOn, Diverts, Retries
<1> SUFFICES ASSUME NEW id \in Ids, at'[id] # "idle"
             PROVE  /\ wf'.state # "none"
                    /\ id[1] < wf'.pc \/ (id[1] = wf'.pc /\ id[2] <= wf'.n)
  BY <1>2 DEF Started
<1>3. /\ id[1] \in Nat /\ id[2] \in Nat
      /\ at[id] # "idle" => /\ wf.state # "none"
                            /\ id[1] < wf.pc \/ (id[1] = wf.pc /\ id[2] <= wf.n)
  BY Numbers DEF Started
<1>4. CASE Same \/ Stops \/ Completes
  BY <1>3, <1>4 DEF Same, Stops, Completes, Moves
<1>5. CASE Starts
  BY <1>1, <1>3, <1>5, BeginsSlots DEF Starts, Begins, Moves
<1>6. CASE GoesOn
  BY <1>1, <1>3, <1>6, BeginsSlots DEF GoesOn, Begins, Moves
<1>7. CASE Retries
  BY <1>1, <1>3, <1>7, BeginsSlots DEF Retries, Begins, Moves
<1>8. CASE Diverts
  BY <1>1, <1>3, <1>8, BeginsSlots, Numbers DEF Diverts, Begins, Moves
<1>9. CASE Raises
  BY <1>1, <1>3, <1>9 DEF Raises, Awaits
<1> QED
  BY <1>4, <1>5, <1>6, <1>7, <1>8, <1>9 DEF Shapes

\* What a server step does to one attempt: dispatch it, or let the current one
\* raise.
LEMMA ShapesSlots ==
  ASSUME EngineTypeOK, Position, Started, Shapes, NEW id \in Ids
  PROVE  \/ at'[id] = at[id]
         \/ /\ at[id] = "idle" /\ at'[id] = "begin" /\ id = <<wf'.pc, wf'.n>>
            /\ wf'.n = 1 \/ (wf.pc = wf'.pc /\ wf'.n = wf.n + 1 /\ Awaits(Phases))
         \/ at[id] \in Running /\ at'[id] = "raised" /\ id = <<wf.pc, wf.n>>
<1>1. /\ wf.pc \in Nat /\ wf.n \in Nat /\ at \in [Ids -> Phases]
      /\ id[1] \in Nat /\ id[2] \in Nat /\ id = <<id[1], id[2]>>
  BY Numbers DEF EngineTypeOK
<1>2. at[id] # "idle" => /\ wf.state # "none"
                         /\ id[1] < wf.pc \/ (id[1] = wf.pc /\ id[2] <= wf.n)
  BY DEF Started
<1>3. CASE Same \/ Stops \/ Completes
  BY <1>3 DEF Same, Stops, Completes
<1>4. CASE Starts
  BY <1>2, <1>4, BeginsSlots DEF Starts, Begins, Moves
<1>5. CASE GoesOn
  BY <1>1, <1>2, <1>5, BeginsSlots DEF GoesOn, Begins, Moves
<1>6. CASE Diverts
  BY <1>1, <1>2, <1>6, BeginsSlots, Numbers DEF Diverts, Begins, Moves
<1>7. CASE Retries
  BY <1>1, <1>2, <1>7, BeginsSlots DEF Retries, Begins, Moves
<1>8. CASE Raises
  BY <1>1, <1>8 DEF Raises, Awaits
<1> QED
  BY <1>3, <1>4, <1>5, <1>6, <1>7, <1>8 DEF Shapes

\* The next attempt of a step follows the one before.
LEMMA ShapesContiguous ==
  ASSUME EngineTypeOK, Position, Started, Contiguous, Shapes
  PROVE  Contiguous'
<1> SUFFICES ASSUME NEW s \in Steps, NEW n \in Attempts, NEW k \in Attempts,
                    k < n, at'[<<s, n>>] # "idle"
             PROVE  at'[<<s, k>>] # "idle"
  BY DEF Contiguous
<1>1. /\ <<s, n>> \in Ids /\ <<s, k>> \in Ids /\ n \in Nat /\ k \in Nat /\ n # 1
      /\ wf.pc \in Nat /\ wf.n \in Nat
  BY Numbers DEF EngineTypeOK
<1>2. at[<<s, k>>] # "idle" => at'[<<s, k>>] # "idle"
  BY <1>1, ShapesSlots
<1>3. CASE at[<<s, n>>] # "idle"
  BY <1>2, <1>3 DEF Contiguous
<1>4. CASE at[<<s, n>>] = "idle"
  <2>1. s = wf.pc /\ n = wf.n + 1 /\ wf.n \in Attempts /\ wf.state = "open"
    BY <1>1, <1>4, ShapesSlots DEF Awaits, Running
  <2>2. at[<<s, wf.n>>] # "idle"
    BY <2>1 DEF Started
  <2> QED
    BY <1>1, <1>2, <2>1, <2>2 DEF Contiguous
<1> QED
  BY <1>3, <1>4

\* The first step is left when it has returned, the except branch is entered
\* instead of the last step.
LEMMA ShapesBranches ==
  ASSUME EngineTypeOK, Position, Started, Branches, Shapes
  PROVE  Branches'
<1>1. wf.pc \in Nat /\ at \in [Ids -> Phases]
  BY DEF EngineTypeOK
<1>2. ASSUME NEW s \in Steps, NEW k \in Attempts, at[<<s, k>>] = "returned"
      PROVE  at'[<<s, k>>] = "returned"
  BY <1>2, ShapesSlots, Numbers DEF Running
<1>3. wf'.pc > SetRunning => \E k \in Attempts : at'[<<SetRunning, k>>] = "returned"
  <2>1. CASE wf.pc > SetRunning
    BY <1>2, <2>1, Numbers DEF Branches
  <2>2. CASE ~(wf.pc > SetRunning) /\ wf'.pc > SetRunning
    <3>1. GoesOn
      BY <1>1, <2>2, Numbers DEF Shapes, Same, Starts, Diverts, Retries, Raises,
         Stops, Completes, Awaits, Begins, Moves
    <3>2. wf.pc = SetRunning
      BY <2>2, <3>1, Numbers DEF GoesOn
    <3>3. wf.n \in Attempts /\ at[<<SetRunning, wf.n>>] = "returned"
      BY <3>1, <3>2 DEF GoesOn, Awaits
    <3> QED
      BY <1>2, <3>3, Numbers
  <2> QED
    BY <2>1, <2>2
<1>4. ASSUME wf'.pc = SetFailed, NEW k \in Attempts PROVE at'[<<SetSucceeded, k>>] = "idle"
  <2>1. /\ <<SetSucceeded, k>> \in Ids /\ wf.pc \in {RunEval, SetFailed}
        /\ <<SetSucceeded, k>> # <<wf'.pc, wf'.n>> /\ <<SetSucceeded, k>> # <<wf.pc, wf.n>>
    BY <1>1, <1>4, Numbers DEF Shapes, Same, Starts, GoesOn, Diverts, Retries, Raises,
       Stops, Completes, Awaits, Begins, Moves
  <2>2. at[<<SetSucceeded, k>>] = "idle"
    <3>1. CASE wf.pc = SetFailed
      BY <3>1 DEF Branches
    <3>2. CASE wf.pc = RunEval
      <4>1. ~(SetSucceeded < wf.pc) /\ SetSucceeded # wf.pc
        BY <3>2, Numbers
      <4> QED
        BY <2>1, <4>1 DEF Started
    <3> QED
      BY <2>1, <3>1, <3>2
  <2> QED
    BY <2>1, <2>2, ShapesSlots
<1> QED
  BY <1>3, <1>4 DEF Branches

\* A worker's step leaves the engine's invariants alone; its attempt is at a
\* position the workflow has reached.
LEMMA WorkerEngine ==
  ASSUME EvalInv, NEW s \in Steps, NEW n \in Attempts, ActivityStep(s, n)
  PROVE  /\ EngineTypeOK' /\ Position' /\ Started' /\ Contiguous' /\ Branches'
         /\ UNCHANGED <<wf, faults, gw, late>> /\ wf.pc \in Nat /\ wf.pc >= s
         /\ \A id \in Ids : id # <<s, n>> => at'[id] = at[id]
         /\ \A id \in Ids : /\ at'[id] = "idle" <=> at[id] = "idle"
                            /\ at'[id] = "raised" <=> at[id] = "raised"
<1>1. /\ UNCHANGED <<wf, faults, gw, late>>
      /\ at[<<s, n>>] \in {"begin", "json", "uploaded", "read", "saved", "cleared"}
  BY WorkerEffect
<1>2. PICK x \in {"json", "uploaded", "read", "saved", "cleared", "returned"} :
        at' = [at EXCEPT ![<<s, n>>] = x]
  BY WorkerEffect
<1>3. /\ EngineTypeOK /\ Position /\ Started /\ Contiguous /\ Branches
      /\ at \in [Ids -> Phases] /\ wf.pc \in Nat /\ s \in Nat /\ <<s, n>> \in Ids
  BY Numbers DEF EvalInv, TypeOK, EngineTypeOK
<1>4. \A id \in Ids : /\ at'[id] = IF id = <<s, n>> THEN x ELSE at[id]
                      /\ at'[id] = "idle" <=> at[id] = "idle"
                      /\ at'[id] = "raised" <=> at[id] = "raised"
  BY <1>1, <1>2, <1>3
<1>5. EngineTypeOK' /\ Position'
  BY <1>1, <1>2, <1>3 DEF EngineTypeOK, Position, Phases, Running
<1>6. Started'
  <2>1. wf.state = "open" => <<wf.pc, wf.n>> \in Ids
    BY <1>3, Numbers DEF EngineTypeOK, Position
  <2> QED
    BY <1>1, <1>3, <1>4, <2>1 DEF Started
<1>7. Contiguous'
  BY <1>3, <1>4, Numbers DEF Contiguous
<1>8. Branches'
  <2>1. \A k \in Attempts : <<SetRunning, k>> \in Ids /\ <<SetSucceeded, k>> \in Ids
    BY Numbers
  <2>2. \A k \in Attempts : at[<<SetRunning, k>>] = "returned" => at'[<<SetRunning, k>>] = "returned"
    BY <1>1, <1>4, <2>1
  <2> QED
    BY <1>1, <1>3, <1>4, <2>1, <2>2 DEF Branches
<1>9. wf.pc >= s
  BY <1>1, <1>3 DEF Started
<1> QED
  BY <1>1, <1>3, <1>4, <1>5, <1>6, <1>7, <1>8, <1>9

-----------------------------------------------------------------------------
(* Superseded attempts.                                                    *)

\* If no attempt was superseded while it ran, then beside an attempt that
\* returned the others of its step raised or never began.
LEMMA OneReturned ==
  ASSUME EvalInv, OnlyRaises, NEW s \in Steps, NEW n \in Attempts, NEW k \in Attempts,
         at[<<s, n>>] = "returned", k # n
  PROVE  at[<<s, k>>] \in {"idle", "raised"}
<1>1. n \in Nat /\ k \in Nat /\ Contiguous /\ MaxAttempts \in Nat
  BY Numbers, AttemptsAssumption DEF EvalInv
<1>2. CASE k < n
  <2>1. k # MaxAttempts /\ k + 1 \in Attempts
    BY <1>1, <1>2, Numbers
  <2>2. at[<<s, k + 1>>] # "idle"
    BY <1>1, <1>2, <2>1 DEF Contiguous
  <2> QED
    BY <2>1, <2>2 DEF OnlyRaises
<1>3. CASE k > n
  <2>1. n # MaxAttempts /\ n + 1 \in Attempts
    BY <1>1, <1>3, Numbers
  <2>2. at[<<s, n + 1>>] = "idle"
    BY <2>1 DEF OnlyRaises
  <2> QED
    BY <1>1, <1>3, <2>1, <2>2 DEF Contiguous
<1> QED
  BY <1>1, <1>2, <1>3

\* An attempt superseded while it ran stays one: only the attempt the workflow
\* waits for can still raise.
LEMMA OnlyRaisesBefore ==
  ASSUME EvalInv, Next, OnlyRaises'
  PROVE  OnlyRaises
<1> SUFFICES ASSUME NEW s \in Steps, NEW n \in Attempts,
                    at[<<s, n>>] \notin {"idle", "raised"}, n # MaxAttempts,
                    at[<<s, n + 1>>] # "idle"
             PROVE  FALSE
  BY DEF OnlyRaises
<1>1. /\ n + 1 \in Attempts /\ <<s, n>> \in Ids /\ <<s, n + 1>> \in Ids /\ n \in Nat
      /\ wf.n \in Nat /\ EngineTypeOK
  BY Numbers, AttemptsAssumption DEF EvalInv, TypeOK, EngineTypeOK
<1>2. at'[<<s, n>>] \notin {"idle", "raised"} /\ at'[<<s, n + 1>>] # "idle"
  <2>1. CASE ServerStep
    <3>1. Shapes /\ Position /\ Started
      BY <2>1, ServerShapes DEF EvalInv
    <3>2. <<s, n>> # <<wf.pc, wf.n>>
      <4>1. ~(n + 1 <= n) /\ s \in Nat
        BY <1>1, Numbers
      <4> QED
        BY <1>1, <3>1, <4>1 DEF Started
    <3> QED
      BY <1>1, <3>1, <3>2, ShapesSlots
  <2>2. ASSUME NEW t \in Steps, NEW k \in Attempts, ActivityStep(t, k)
        PROVE  at'[<<s, n>>] \notin {"idle", "raised"} /\ at'[<<s, n + 1>>] # "idle"
    BY <1>1, <2>2, WorkerEngine
  <2> QED
    BY <2>1, <2>2, NextCases
<1> QED
  BY <1>1, <1>2 DEF OnlyRaises

\* In an orderly run no attempt is left to write once the failed status is saved.
LEMMA Quiet ==
  ASSUME EvalInv, OnlyRaises, at[<<RunEval, MaxAttempts>>] = "raised",
         NEW n \in Attempts, at[<<SetFailed, n>>] = "returned",
         NEW s \in Steps, NEW k \in Attempts
  PROVE  at[<<s, k>>] # "read"
<1>1. wf.pc = SetFailed /\ <<SetFailed, n>> \in Ids
  <2>1. wf.pc \in Nat /\ <<SetFailed, n>> \in Ids
    BY Numbers DEF EvalInv, TypeOK, EngineTypeOK
  <2>2. wf.state # "none" /\ (SetFailed < wf.pc \/ SetFailed = wf.pc)
    BY <2>1 DEF EvalInv, Started
  <2> QED
    BY <2>1, <2>2, Numbers DEF EvalInv, Position
<1>2. CASE s = SetFailed
  BY <1>2, OneReturned, Numbers
<1>3. CASE s = SetSucceeded
  BY <1>1, <1>3 DEF EvalInv, Branches
<1>4. CASE s = RunEval
  <2>1. CASE k = MaxAttempts
    BY <1>4, <2>1
  <2>2. CASE k # MaxAttempts
    <3>1. k + 1 \in Attempts /\ k + 1 <= MaxAttempts /\ RunEval \in Steps /\ k + 1 \in Nat
      BY <2>2, Numbers, AttemptsAssumption
    <3>2. at[<<RunEval, k + 1>>] # "idle"
      BY <3>1, Numbers DEF EvalInv, Contiguous
    <3> QED
      BY <1>4, <2>2, <3>2, Numbers DEF OnlyRaises
  <2> QED
    BY <2>1, <2>2
<1>5. CASE s = SetRunning
  <2>1. PICK m \in Attempts : at[<<SetRunning, m>>] = "returned"
    BY <1>1, Numbers DEF EvalInv, Branches
  <2> QED
    BY <1>5, <2>1, OneReturned, Numbers
<1> QED
  BY <1>2, <1>3, <1>4, <1>5, Numbers

-----------------------------------------------------------------------------
(* The invariant.                                                          *)

\* The initial state: no execution, no row, no report.
LEMMA InvInit == Init => EvalInv
<1> SUFFICES ASSUME Init PROVE EvalInv
  OBVIOUS
<1>1. /\ wf = [state |-> "none", pc |-> 0, n |-> 0, cancel |-> FALSE]
      /\ at = [id \in Ids |-> "idle"] /\ faults = 0 /\ gw = "idle" /\ late = FALSE
      /\ run = NoRow /\ json = 0 /\ html = 0 /\ results = {}
      /\ seen = [id \in Ids |-> NoRow] /\ doomed = [n \in Attempts |-> {}]
  BY DEF Init, EngineInit
<1>2. EngineTypeOK
  BY <1>1, Numbers, FaultsAssumption DEF EngineTypeOK, Phases, Closed
<1>3. NoRow \in Rows
  BY AttemptsAssumption DEF NoRow, Rows
<1>4. TypeOK
  <2>1. doomed \in [Attempts -> SUBSET Attempts] /\ seen \in [Ids -> Rows]
    BY <1>1, <1>3
  <2>2. 0 \in 0..MaxAttempts /\ results \in SUBSET Attempts
    BY <1>1, AttemptsAssumption
  <2> QED
    BY <1>1, <1>2, <1>3, <2>1, <2>2 DEF TypeOK
<1>5. Position /\ ResultsKept
  BY <1>1 DEF Position, ResultsKept
<1>6. \A s \in Steps, n \in Attempts : <<s, n>> \in Ids /\ at[<<s, n>>] = "idle"
  BY <1>1, Numbers
<1>7. Started /\ Contiguous /\ Branches
  BY <1>1, <1>6, Numbers DEF Started, Contiguous, Branches
<1>8. Reports
  <2>1. NoRow.report = 0 /\ NoRow.status = "none"
    BY DEF NoRow
  <2> QED
    BY <1>1, <1>6, <2>1, Numbers DEF Reports, Uploaded
<1>9. Recorded
  BY <1>6, Numbers DEF Recorded
<1> QED
  BY <1>4, <1>5, <1>7, <1>8, <1>9 DEF EvalInv

\* Gateway and server write no report; of the row only what CreateRun puts there.
LEMMA ServerEffect ==
  ASSUME ServerStep
  PROVE  /\ UNCHANGED <<json, html, results, seen, doomed>>
         /\ \/ UNCHANGED <<run, late>> /\ (gw' = gw \/ gw' \in {"started", "crashed"})
            \/ CreateRun
  BY DEF ServerStep, StartEvaluation, CreateRun, GatewayCrash, Advance, Fail, RetryActivity,
     ActivityRaises, reportVars, gatewayVars

\* The server dispatches the last step after an attempt that uploaded, and
\* nothing it does touches a report, a result or a recorded failure.
LEMMA ServerInv ==
  ASSUME EvalInv, ServerStep
  PROVE  EvalInv'
<1>1. /\ TypeOK /\ EngineTypeOK /\ Position /\ Started /\ Contiguous /\ Branches /\ Reports
      /\ ResultsKept /\ Recorded
  BY DEF EvalInv, TypeOK
<1>2. Shapes
  BY <1>1, ServerShapes
<1>3. EngineTypeOK' /\ Position' /\ Started' /\ Contiguous' /\ Branches'
  BY <1>1, <1>2, ShapesTyped, ShapesStarted, ShapesContiguous, ShapesBranches
<1>4. /\ UNCHANGED <<json, html, results, seen, doomed>>
      /\ \/ UNCHANGED <<run, late>> /\ (gw' = gw \/ gw' \in {"started", "crashed"})
         \/ CreateRun
  BY ServerEffect
<1>5. CreateRun => /\ run' = [status |-> "pending", created |-> TRUE, report |-> 0]
                   /\ gw' = "done" /\ late' \in BOOLEAN
                   /\ \A id \in Ids : at[id] \notin {"idle", "begin"} => late'
  BY DEF CreateRun, NewRow
<1>6. TypeOK'
  <2>1. CreateRun => run' \in Rows
    <3>1. [status |-> "pending", created |-> TRUE, report |-> 0] \in Rows
      BY AttemptsAssumption DEF Rows, EvaluationStatus
    <3> QED
      BY <1>5, <3>1
  <2> QED
    BY <1>1, <1>3, <1>4, <1>5, <2>1 DEF TypeOK
<1>7. \A id \in Ids : at'[id] \notin {"idle", "begin", "raised"} => at'[id] = at[id]
  BY <1>1, <1>2, ShapesSlots
<1>8. wf'.pc = SetSucceeded => Both
  <2>1. CASE wf.pc = SetSucceeded
    BY <1>1, <2>1 DEF Reports
  <2>2. CASE wf.pc # SetSucceeded /\ wf'.pc = SetSucceeded
    <3>1. GoesOn
      BY <1>2, <2>2, Numbers DEF Shapes, Same, Starts, Diverts, Retries, Raises, Stops,
         Completes, Begins, Moves
    <3>2. wf.pc = RunEval
      <4>1. wf'.pc = wf.pc + 1 /\ wf.pc \in {SetRunning, RunEval}
        BY <3>1 DEF GoesOn, Begins, Moves
      <4> QED
        BY <2>2, <4>1 DEF SetRunning, RunEval, SetSucceeded
    <3>3. wf.n \in Attempts /\ at[<<RunEval, wf.n>>] = "returned"
      BY <3>1, <3>2 DEF GoesOn, Awaits
    <3> QED
      BY <1>1, <3>3 DEF Reports, Uploaded
  <2> QED
    BY <2>1, <2>2
<1>9. Reports'
  <2>1. \A n \in Attempts : /\ <<RunEval, n>> \in Ids /\ <<SetSucceeded, n>> \in Ids
                            /\ <<SetSucceeded, n>>[1] = SetSucceeded
    BY Numbers
  <2>2. Both' <=> Both
    BY <1>4 DEF Both
  <2>3. ASSUME NEW n \in Attempts PROVE at'[<<RunEval, n>>] \in Uploaded => Both
    BY <1>1, <1>7, <2>1 DEF Reports, Uploaded
  <2>4. ASSUME NEW n \in Attempts PROVE at'[<<RunEval, n>>] = "json" => json # 0
    BY <1>1, <1>7, <2>1 DEF Reports
  <2>5. ASSUME NEW n \in Attempts, at'[<<SetSucceeded, n>>] # "idle" PROVE Both
    <3>1. CASE at[<<SetSucceeded, n>>] # "idle"
      BY <1>1, <3>1 DEF Reports
    <3>2. CASE at[<<SetSucceeded, n>>] = "idle"
      <4>1. <<SetSucceeded, n>> = <<wf'.pc, wf'.n>>
        BY <1>1, <1>2, <2>1, <2>5, <3>2, ShapesSlots DEF Running
      <4> QED
        BY <1>8, <4>1
    <3> QED
      BY <3>1, <3>2
  <2>6. run'.report # 0 \/ run'.status = "succeeded" => Both
    BY <1>1, <1>4, <1>5 DEF Reports
  <2>7. \A id \in Ids : seen'[id].report # 0 \/ seen'[id].status = "succeeded" => Both
    BY <1>1, <1>4 DEF Reports
  <2> QED
    BY <1>4, <1>8, <2>2, <2>3, <2>4, <2>5, <2>6, <2>7 DEF Reports
<1>10. ResultsKept'
  <2>1. \A n \in results : n \in Attempts /\ <<RunEval, n>> \in Ids
    BY <1>1, Numbers DEF TypeOK
  <2> SUFFICES ASSUME NEW n \in results PROVE at'[<<RunEval, n>>] = "returned"
    BY <1>4 DEF ResultsKept
  <2> QED
    BY <1>1, <1>2, <2>1, ShapesSlots DEF ResultsKept, Running
<1>11. Recorded'
  <2> SUFFICES ASSUME Orderly', NEW n \in Attempts, at'[<<SetFailed, n>>] = "returned"
               PROVE  run'.status = "failed"
    BY DEF Recorded
  <2>1. <<SetFailed, n>> \in Ids /\ <<RunEval, MaxAttempts>> \in Ids
    BY Numbers
  <2>2. at[<<SetFailed, n>>] = "returned"
    BY <1>7, <2>1
  <2>3. OnlyRaises
    BY OnlyRaisesBefore, NextCases DEF Orderly
  <2>4. at[<<RunEval, MaxAttempts>>] = "raised"
    <3>1. <<RunEval, MaxAttempts>> # <<wf.pc, wf.n>>
      <4>1. wf.pc = SetFailed \/ SetFailed < wf.pc
        BY <1>1, <2>1, <2>2 DEF Started
      <4> QED
        BY <4>1, Numbers
    <3> QED
      BY <1>1, <1>2, <2>1, <3>1, ShapesSlots DEF Orderly
  <2>5. ~CreateRun
    BY <1>5, <2>1, <2>2 DEF Orderly
  <2>6. Orderly /\ UNCHANGED run
    BY <1>4, <2>3, <2>4, <2>5 DEF Orderly
  <2> QED
    BY <1>1, <2>2, <2>6 DEF Recorded
<1> QED
  BY <1>3, <1>6, <1>9, <1>10, <1>11 DEF EvalInv

\* What each step of an attempt does to the row, the objects and the copies.
LEMMA WorkerWrites ==
  ASSUME NEW s \in Steps, NEW n \in Attempts, ActivityStep(s, n)
  PROVE  \/ ReadRun(s, n)
         \/ SaveStatus(s, n)
         \/ s = RunEval /\ (PutJson(n) \/ PutHtml(n) \/ SaveReport(n))
         \/ s = RunEval /\ (DeleteResults(n) \/ CommitResults(n))
  BY DEF ActivityStep

\* A step of an attempt keeps the types.
LEMMA WorkerTyped ==
  ASSUME EvalInv, NEW s \in Steps, NEW n \in Attempts, ActivityStep(s, n)
  PROVE  TypeOK'
<1>1. EngineTypeOK' /\ UNCHANGED <<wf, faults, gw, late>> /\ TypeOK /\ <<s, n>> \in Ids
  BY WorkerEngine, Numbers DEF EvalInv
<1>2. /\ gw \in {"idle", "started", "done", "crashed"} /\ late \in BOOLEAN
      /\ run \in Rows /\ json \in 0..MaxAttempts /\ html \in 0..MaxAttempts
      /\ results \in SUBSET Attempts /\ seen \in [Ids -> Rows] /\ seen[<<s, n>>] \in Rows
      /\ doomed \in [Attempts -> SUBSET Attempts] /\ n \in 0..MaxAttempts
  BY <1>1, Numbers DEF TypeOK
<1>3. NoRow \in Rows /\ NewRow \in Rows
  BY AttemptsAssumption DEF NoRow, NewRow, Rows, EvaluationStatus
<1>4. SaveStatus(s, n) => run' \in Rows
  <2>1. StatusAt(s) \in EvaluationStatus
    BY Numbers DEF StatusAt, EvaluationStatus
  <2> QED
    BY <1>2, <2>1 DEF SaveStatus, Rows
<1>5. s = RunEval /\ SaveReport(n) => run' \in Rows
  BY <1>2 DEF SaveReport, Rows
<1>6. CASE ReadRun(s, n)
  BY <1>1, <1>2, <1>3, <1>6 DEF ReadRun, reportVars, TypeOK
<1>7. CASE SaveStatus(s, n)
  BY <1>1, <1>2, <1>3, <1>4, <1>7 DEF SaveStatus, reportVars, TypeOK
<1>8. CASE s = RunEval /\ PutJson(n)
  BY <1>1, <1>2, <1>8 DEF PutJson, TypeOK
<1>9. CASE s = RunEval /\ PutHtml(n)
  BY <1>1, <1>2, <1>9 DEF PutHtml, TypeOK
<1>10. CASE s = RunEval /\ SaveReport(n)
  BY <1>1, <1>2, <1>3, <1>5, <1>10 DEF SaveReport, reportVars, TypeOK
<1>11. CASE s = RunEval /\ DeleteResults(n)
  BY <1>1, <1>2, <1>11 DEF DeleteResults, TypeOK
<1>12. CASE s = RunEval /\ CommitResults(n)
  BY <1>1, <1>2, <1>12 DEF CommitResults, TypeOK
<1> QED
  BY <1>6, <1>7, <1>8, <1>9, <1>10, <1>11, <1>12, WorkerWrites

\* The objects are uploaded before the row refers to them, and stay.
LEMMA WorkerReports ==
  ASSUME EvalInv, NEW s \in Steps, NEW n \in Attempts, ActivityStep(s, n)
  PROVE  Reports'
<1>1. /\ TypeOK /\ Reports /\ UNCHANGED wf
      /\ \A id \in Ids : id # <<s, n>> => at'[id] = at[id]
      /\ \A id \in Ids : at'[id] = "idle" <=> at[id] = "idle"
  BY WorkerEngine DEF EvalInv
<1>2. \A t \in Steps, k \in Attempts : <<t, k>> \in Ids /\ (<<t, k>> = <<s, n>> <=> t = s /\ k = n)
  BY Numbers
<1>3. RunEval \in Steps /\ SetSucceeded \in Steps /\ RunEval # SetSucceeded /\ n # 0 /\ <<s, n>> \in Ids
  BY Numbers
<1>4. /\ at \in [Ids -> Phases] /\ seen \in [Ids -> Rows] /\ run \in Rows
      /\ seen[<<s, n>>] \in Rows
  BY <1>1, <1>3 DEF TypeOK, EngineTypeOK
<1>5. /\ NoRow.report = 0 /\ NoRow.status # "succeeded"
      /\ NewRow.report = 0 /\ NewRow.status # "succeeded"
  BY DEF NoRow, NewRow
<1>6. (json # 0 => json' # 0) /\ (html # 0 => html' # 0)
  <2>1. CASE ReadRun(s, n)
    BY <2>1 DEF ReadRun, reportVars
  <2>2. CASE SaveStatus(s, n)
    BY <2>2 DEF SaveStatus, reportVars
  <2>3. CASE s = RunEval /\ PutJson(n)
    BY <1>3, <2>3 DEF PutJson
  <2>4. CASE s = RunEval /\ PutHtml(n)
    BY <1>3, <2>4 DEF PutHtml
  <2>5. CASE s = RunEval /\ SaveReport(n)
    BY <2>5 DEF SaveReport, reportVars
  <2>6. CASE s = RunEval /\ (DeleteResults(n) \/ CommitResults(n))
    BY <2>6 DEF DeleteResults, CommitResults
  <2> QED
    BY <2>1, <2>2, <2>3, <2>4, <2>5, <2>6, WorkerWrites
<1>7. Both => Both'
  BY <1>6 DEF Both
<1>8. s = RunEval /\ at'[<<s, n>>] = "json" => json' # 0
  BY <1>3, <1>4 DEF ActivityStep, ReadRun, SaveStatus, PutJson, PutHtml, SaveReport,
     DeleteResults, CommitResults
<1>9. s = RunEval /\ at'[<<s, n>>] \in Uploaded => Both'
  <2>1. CASE at[<<RunEval, n>>] \in Uploaded
    BY <1>1, <1>7, <2>1 DEF Reports
  <2>2. CASE at[<<RunEval, n>>] \notin Uploaded /\ s = RunEval /\ at'[<<s, n>>] \in Uploaded
    <3>1. PutHtml(n)
      BY <1>3, <1>4, <2>2, Numbers DEF ActivityStep, ReadRun, SaveStatus, PutJson, SaveReport,
         DeleteResults, CommitResults, Uploaded
    <3>2. json # 0
      BY <1>1, <3>1 DEF PutHtml, Reports
    <3> QED
      BY <1>3, <3>1, <3>2 DEF PutHtml, Both
  <2> QED
    BY <2>1, <2>2
<1>10. run'.report # 0 \/ run'.status = "succeeded" => Both'
  <2>1. CASE SaveStatus(s, n)
    <3>1. /\ run'.report = seen[<<s, n>>].report
          /\ run'.status = StatusAt(s)
      BY <1>4, <2>1 DEF SaveStatus, Rows
    <3>2. StatusAt(s) = "succeeded" => s = SetSucceeded
      BY Numbers DEF StatusAt
    <3>3. s = SetSucceeded => Both
      BY <1>1, <2>1 DEF SaveStatus, Reports
    <3> QED
      BY <1>1, <1>3, <1>7, <3>1, <3>2, <3>3 DEF Reports
  <2>2. CASE s = RunEval /\ SaveReport(n)
    BY <1>1, <1>7, <2>2 DEF SaveReport, Reports, Uploaded
  <2>3. CASE UNCHANGED run
    BY <1>1, <1>7, <2>3 DEF Reports
  <2> QED
    BY <2>1, <2>2, <2>3, WorkerWrites DEF ReadRun, PutJson, PutHtml, DeleteResults, CommitResults
<1>11. \A id \in Ids : seen'[id].report # 0 \/ seen'[id].status = "succeeded" => Both'
  <2>1. CASE ReadRun(s, n)
    BY <1>1, <1>4, <1>5, <1>7, <2>1 DEF ReadRun, Reports
  <2>2. CASE SaveStatus(s, n)
    BY <1>1, <1>4, <1>5, <1>7, <2>2 DEF SaveStatus, Reports
  <2>3. CASE s = RunEval /\ SaveReport(n)
    BY <1>1, <1>4, <1>5, <1>7, <2>3 DEF SaveReport, Reports
  <2>4. CASE UNCHANGED seen
    BY <1>1, <1>7, <2>4 DEF Reports
  <2> QED
    BY <2>1, <2>2, <2>3, <2>4, WorkerWrites DEF PutJson, PutHtml, DeleteResults, CommitResults
<1>12. \A k \in Attempts : at'[<<RunEval, k>>] \in Uploaded => Both'
  BY <1>1, <1>2, <1>3, <1>7, <1>9 DEF Reports
<1>13. \A k \in Attempts : at'[<<RunEval, k>>] = "json" => json' # 0
  BY <1>1, <1>2, <1>3, <1>6, <1>8 DEF Reports
<1>14. \A k \in Attempts : at'[<<SetSucceeded, k>>] # "idle" => Both'
  BY <1>1, <1>2, <1>3, <1>7 DEF Reports
<1>15. wf'.pc = SetSucceeded => Both'
  BY <1>1, <1>7 DEF Reports
<1> QED
  BY <1>10, <1>11, <1>12, <1>13, <1>14, <1>15 DEF Reports

\* Rows of an attempt enter the results table as it returns; the failed status
\* is saved last.
LEMMA WorkerKeeps ==
  ASSUME EvalInv, NEW s \in Steps, NEW n \in Attempts, ActivityStep(s, n)
  PROVE  ResultsKept' /\ Recorded'
<1>1. /\ TypeOK /\ ResultsKept /\ Recorded /\ UNCHANGED <<gw, late>>
      /\ \A id \in Ids : id # <<s, n>> => at'[id] = at[id]
      /\ \A id \in Ids : at'[id] = "raised" <=> at[id] = "raised"
  BY WorkerEngine DEF EvalInv
<1>2. \A t \in Steps, k \in Attempts : <<t, k>> \in Ids /\ (<<t, k>> = <<s, n>> <=> t = s /\ k = n)
  BY Numbers
<1>3. RunEval \in Steps /\ SetFailed \in Steps /\ RunEval # SetFailed /\ <<s, n>> \in Ids
      /\ MaxAttempts \in Attempts
  BY Numbers
<1>4. /\ at \in [Ids -> Phases] /\ seen[<<s, n>>] \in Rows /\ results \subseteq Attempts
      /\ at[<<s, n>>] # "returned"
  BY <1>1, <1>3, WorkerEffect DEF TypeOK, EngineTypeOK
<1>5. ResultsKept'
  <2>1. \A k \in Attempts : at[<<RunEval, k>>] = "returned" => at'[<<RunEval, k>>] = "returned"
    BY <1>1, <1>2, <1>3, <1>4
  <2>2. CASE s = RunEval /\ CommitResults(n)
    BY <1>1, <1>3, <1>4, <2>1, <2>2 DEF CommitResults, ResultsKept
  <2>3. CASE UNCHANGED results
    BY <1>1, <1>4, <2>1, <2>3 DEF ResultsKept
  <2> QED
    BY <2>2, <2>3, WorkerWrites DEF ReadRun, SaveStatus, PutJson, PutHtml, SaveReport,
       DeleteResults, reportVars
<1>6. Recorded'
  <2> SUFFICES ASSUME Orderly', NEW k \in Attempts, at'[<<SetFailed, k>>] = "returned"
               PROVE  run'.status = "failed"
    BY DEF Recorded
  <2>1. OnlyRaises
    BY OnlyRaisesBefore, NextCases DEF Orderly
  <2>2. at[<<RunEval, MaxAttempts>>] = "raised"
    BY <1>1, <1>2, <1>3 DEF Orderly
  <2>3. CASE at[<<SetFailed, k>>] = "returned"
    <3>1. run.status = "failed"
      BY <1>1, <2>1, <2>2, <2>3 DEF Orderly, Recorded
    <3>2. at[<<s, n>>] # "read"
      BY <2>1, <2>2, <2>3, Quiet
    <3>3. UNCHANGED run
      BY <3>2, WorkerWrites DEF ReadRun, SaveStatus, PutJson, PutHtml, SaveReport,
         DeleteResults, CommitResults
    <3> QED
      BY <3>1, <3>3
  <2>4. CASE at[<<SetFailed, k>>] # "returned"
    <3>1. s = SetFailed /\ k = n
      BY <1>1, <1>2, <1>3, <2>4
    <3>2. SaveStatus(s, n)
      BY <1>3, <1>4, <3>1, WorkerWrites DEF ReadRun
    <3>3. StatusAt(s) = "failed"
      BY <3>1, Numbers DEF StatusAt
    <3> QED
      BY <1>4, <3>2, <3>3 DEF SaveStatus, Rows
  <2> QED
    BY <2>3, <2>4
<1> QED
  BY <1>5, <1>6

\* Every step keeps the invariant.
LEMMA InvNext == EvalInv /\ [Next]_vars => EvalInv'
<1> SUFFICES ASSUME EvalInv, [Next]_vars PROVE EvalInv'
  OBVIOUS
<1>1. CASE ServerStep
  BY <1>1, ServerInv
<1>2. ASSUME NEW s \in Steps, NEW n \in Attempts, ActivityStep(s, n) PROVE EvalInv'
  BY <1>2, WorkerEngine, WorkerTyped, WorkerReports, WorkerKeeps DEF EvalInv
<1>3. CASE UNCHANGED vars
  <2>1. TypeOK'
    BY <1>3 DEF vars, EvalInv, TypeOK, EngineTypeOK
  <2>2. Position' /\ Started'
    BY <1>3 DEF vars, EvalInv, Position, Started
  <2>3. Contiguous' /\ Branches'
    BY <1>3 DEF vars, EvalInv, Contiguous, Branches
  <2>4. Reports' /\ ResultsKept'
    BY <1>3 DEF vars, EvalInv, Reports, Both, ResultsKept
  <2>5. Recorded'
    BY <1>3 DEF vars, EvalInv, Recorded, Orderly, OnlyRaises
  <2> QED
    BY <2>1, <2>2, <2>3, <2>4, <2>5 DEF EvalInv
<1> QED
  BY <1>1, <1>2, <1>3, NextCases

\* The invariant holds in every reachable state.
THEOREM InvHolds == Spec => []EvalInv
  BY InvInit, InvNext, PTL DEF Spec

-----------------------------------------------------------------------------
(* The results.                                                            *)

\* A row that refers to a report, or a run that says succeeded, has both report
\* objects (GET .../report never dangles); the scores kept beside them are those
\* of one attempt unless one was superseded.
THEOREM ReportsResolve == Spec => []ReportResolves
<1>1. EvalInv => ReportResolves
  <2> SUFFICES ASSUME EvalInv PROVE ReportResolves
    OBVIOUS
  <2>1. (run.report # 0 \/ run.status = "succeeded" \/ wf.state = "completed")
          => json # 0 /\ html # 0
    BY DEF EvalInv, Reports, Position, Both
  <2>2. ASSUME OnlyRaises PROVE Cardinality(results) <= 1
    <3>1. CASE results = {}
      BY <3>1, FS_EmptySet
    <3>2. CASE results # {}
      <4>1. PICK n \in results : TRUE
        BY <3>2
      <4>2. results \subseteq Attempts
        BY DEF EvalInv, TypeOK
      <4>3. \A k \in results : k = n
        <5> SUFFICES ASSUME NEW k \in results, k # n PROVE FALSE
          OBVIOUS
        <5>1. at[<<RunEval, n>>] = "returned" /\ at[<<RunEval, k>>] = "returned"
          BY DEF EvalInv, ResultsKept
        <5> QED
          BY <2>2, <4>2, <5>1, OneReturned, Numbers
      <4>4. results = {n}
        BY <4>1, <4>3
      <4> QED
        BY <4>4, FS_Singleton
    <3> QED
      BY <3>1, <3>2
  <2> QED
    BY <2>1, <2>2 DEF ReportResolves
<1> QED
  BY <1>1, InvHolds, PTL

\* When run_evaluation raised in every attempt and the except branch saved the
\* failed status, the closed workflow leaves a row that says failed.
THEOREM FailuresRecorded == Spec => []FailureIsRecorded
<1>1. EvalInv => FailureIsRecorded
  <2> SUFFICES ASSUME EvalInv, wf.pc = SetFailed, at[Current] = "returned",
                      at[<<RunEval, MaxAttempts>>] = "raised", OnlyRaises, gw = "done", ~late
               PROVE  run.status = "failed"
    BY DEF FailureIsRecorded
  <2>1. wf.n \in Attempts /\ Recorded
    BY Numbers DEF EvalInv, TypeOK, EngineTypeOK
  <2> QED
    BY <2>1 DEF Recorded, Orderly, Current
<1> QED
  BY <1>1, InvHolds, PTL

-----------------------------------------------------------------------------
(* No workflow is stranded: what RunCloses needs besides fairness.         *)

\* How far the code of an attempt gets, by its position.
Phased ==
  \A s \in Steps, n \in Attempts :
    \/ at[<<s, n>>] \in {"idle", "begin", "read", "returned", "raised"}
    \/ s = RunEval /\ at[<<s, n>>] \in {"json", "uploaded", "saved", "cleared"}

\* The guard of the step that attempt n at s takes next holds.
MayProceed(s, n) ==
  \/ at[<<s, n>>] = (IF s = RunEval THEN "uploaded" ELSE "begin")
  \/ s \in StatusSteps /\ at[<<s, n>>] = "read"
  \/ s = RunEval /\ at[<<s, n>>] \in {"begin", "json", "read", "saved", "cleared"}

\* An open workflow waits for an attempt that has ended or can go on.
NotStranded ==
  Open => OnActivity /\ (at[Current] \in {"returned", "raised"} \/ MayProceed(wf.pc, wf.n))

\* Every step leaves each attempt in a phase its code goes on from.
LEMMA PhasedNext == EvalInv /\ Phased /\ [Next]_vars => Phased'
<1> SUFFICES ASSUME EvalInv, Phased, [Next]_vars,
                    NEW t \in Steps, NEW k \in Attempts
             PROVE  \/ at'[<<t, k>>] \in {"idle", "begin", "read", "returned", "raised"}
                    \/ t = RunEval /\ at'[<<t, k>>] \in {"json", "uploaded", "saved", "cleared"}
  BY DEF Phased
<1>1. CASE UNCHANGED vars
  BY <1>1 DEF vars, Phased
<1>2. CASE ServerStep
  <2>1. EngineTypeOK /\ Position /\ Started /\ Shapes /\ <<t, k>> \in Ids
    BY <1>2, ServerShapes, Numbers DEF EvalInv, TypeOK
  <2>2. at'[<<t, k>>] = at[<<t, k>>] \/ at'[<<t, k>>] \in {"begin", "raised"}
    BY <2>1, ShapesSlots
  <2> QED
    BY <2>2 DEF Phased
<1>3. ASSUME NEW s \in Steps, NEW n \in Attempts, ActivityStep(s, n)
      PROVE  \/ at'[<<t, k>>] \in {"idle", "begin", "read", "returned", "raised"}
             \/ t = RunEval /\ at'[<<t, k>>] \in {"json", "uploaded", "saved", "cleared"}
  <2>1. at \in [Ids -> Phases] /\ <<s, n>> \in Ids /\ <<t, k>> \in Ids
    BY Numbers DEF EvalInv, TypeOK, EngineTypeOK
  <2>2. PICK x \in {"json", "uploaded", "read", "saved", "cleared", "returned"} :
          at' = [at EXCEPT ![<<s, n>>] = x]
    BY <1>3, WorkerEffect
  <2>3. \/ at'[<<s, n>>] \in {"read", "returned"}
        \/ s = RunEval /\ at'[<<s, n>>] \in {"json", "uploaded", "saved", "cleared"}
    BY <1>3, <2>1 DEF ActivityStep, ReadRun, SaveStatus, PutJson, PutHtml, SaveReport,
       DeleteResults, CommitResults
  <2>4. CASE <<t, k>> = <<s, n>>
    BY <2>3, <2>4
  <2>5. CASE <<t, k>> # <<s, n>>
    <3>1. at'[<<t, k>>] = at[<<t, k>>]
      BY <2>1, <2>2, <2>5
    <3> QED
      BY <3>1 DEF Phased
  <2> QED
    BY <2>4, <2>5
<1> QED
  BY <1>1, <1>2, <1>3, NextCases

\* An evaluation request is never stranded: an open workflow has an outcome to
\* take up, or the attempt it waits for can go on, whether or not the gateway's
\* row is there.
THEOREM NeverStranded == Spec => []NotStranded
<1>1. Init => Phased
  BY Numbers DEF Init, EngineInit, Phased
<1>2. EvalInv /\ Phased => NotStranded
  <2> SUFFICES ASSUME EvalInv, Phased, Open
               PROVE  OnActivity /\ (at[Current] \in {"returned", "raised"} \/ MayProceed(wf.pc, wf.n))
    BY DEF NotStranded
  <2>1. wf.pc \in Steps /\ wf.n \in Attempts /\ at[<<wf.pc, wf.n>>] # "idle"
    BY Numbers DEF EvalInv, TypeOK, EngineTypeOK, Position, Started, Open
  <2>2. \/ at[<<wf.pc, wf.n>>] \in {"begin", "read", "returned", "raised"}
        \/ wf.pc = RunEval /\ at[<<wf.pc, wf.n>>] \in {"json", "uploaded", "saved", "cleared"}
    BY <2>1 DEF Phased
  <2>3. wf.pc = RunEval \/ (wf.pc # RunEval /\ wf.pc \in StatusSteps)
    BY <2>1, Numbers
  <2>4. at[<<wf.pc, wf.n>>] \in {"returned", "raised"} \/ MayProceed(wf.pc, wf.n)
    BY <2>2, <2>3 DEF MayProceed
  <2> QED
    BY <2>1, <2>4 DEF OnActivity, Current
<1> QED
  BY <1>1, <1>2, InvHolds, PhasedNext, PTL DEF Spec
=============================================================================
