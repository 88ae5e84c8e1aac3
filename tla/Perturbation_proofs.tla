------------------------- MODULE Perturbation_proofs ------------------------
(***************************************************************************)
(* Proofs about a perturbation request for every number of attempts and    *)
(* faults.  As in Generation_proofs the invariant orders the workflow's    *)
(* history; what is new is the job row, which gateway and attempts read,   *)
(* change and write back whole: the copies the attempts hold are part of   *)
(* the invariant.                                                          *)
(***************************************************************************)
EXTENDS Perturbation, TLAPS

\* Where the workflow can be, and where it must be to have completed.
Position ==
  /\ wf.state = "none" => wf.pc = 0
  /\ wf.state # "none" => wf.pc \in Steps
  /\ wf.state = "completed" => wf.pc = SetSucceeded

\* Attempts exist only for positions reached, in the order of their numbers,
\* and the attempt the workflow waits for exists.
Started ==
  /\ \A id \in Ids : at[id] # "idle" =>
       /\ wf.state # "none"
       /\ id[1] < wf.pc \/ (id[1] = wf.pc /\ id[2] <= wf.n)
  /\ wf.state = "open" => at[<<wf.pc, wf.n>>] # "idle"

\* Until an attempt is lost or raises, only one attempt is under way.
Sequential ==
  /\ \A id \in Ids : at[id] = "raised" => faults > 0
  /\ faults = 0 =>
       \A id \in Ids : at[id] \in {"idle", "returned"} \/ id = <<wf.pc, wf.n>>

\* The artifact, once an attempt of apply_perturbation returned.
ArtifactKept ==
  /\ \A n \in Attempts : at[<<Apply, n>>] = "returned" => artifact
  /\ wf.pc > Apply => artifact
  /\ artifact => wf.pc >= Apply

\* Version rows are inserted first and never taken back.
VersionsKept ==
  /\ \A n \in Attempts :
       at[<<Register, n>>] \in {"inserted", "read", "returned"} => n \in versions
  /\ versions # {} => wf.pc >= Register
  /\ wf.pc > Register => versions # {}

\* Row and copies name only inserted versions.
Stamped ==
  /\ job.result # 0 => job.result \in versions
  /\ \A id \in RowSteps \X Attempts : seen[id].result # 0 => seen[id].result \in versions

\* Without faults, a copy about to be saved carries the stamp the row has.
Carried ==
  faults = 0 /\ job.result # 0 =>
    \A id \in RowSteps \X Attempts : at[id] = "read" => seen[id].result # 0

PertInv ==
  /\ TypeOK
  /\ Position
  /\ Started
  /\ Sequential
  /\ ArtifactKept
  /\ VersionsKept
  /\ Stamped
  /\ Carried

-----------------------------------------------------------------------------
(* The positions and what a step does to the engine's variables.           *)

\* The positions as numbers, and the attempts.
LEMMA Numbers ==
  /\ Steps = {1, 2, 3, 4}
  /\ SetRunning = 1 /\ Apply = 2 /\ Register = 3 /\ SetSucceeded = 4
  /\ StatusSteps = {1, 4} /\ RowSteps = {1, 3, 4}
  /\ Attempts = 1..MaxAttempts /\ 1 \in Attempts /\ Attempts \subseteq Nat
  /\ Ids = Steps \X Attempts /\ RowSteps \X Attempts \subseteq Ids
  BY AttemptsAssumption DEF Steps, SetRunning, Apply, Register, SetSucceeded, StatusSteps,
     RowSteps, Attempts, Ids

Executions ==
  [state : {"none", "open"} \cup Closed, pc : Nat, n : Nat, cancel : BOOLEAN]

\* The steps of gateway and server.
ServerStep ==
  \/ LaunchPerturbation \/ GatewaySaveJob \/ GatewayCrash
  \/ Advance \/ Fail \/ RetryActivity \/ ActivityRaises

\* A step is the server's side or one attempt's.
LEMMA NextCases ==
  Next <=> ServerStep \/ \E s \in Steps, n \in Attempts : ActivityStep(s, n)
  BY DEF Next, ServerStep

\* A worker's step changes its own attempt and nothing else of the engine.
LEMMA WorkerEffect ==
  ASSUME NEW s \in Steps, NEW n \in Attempts, ActivityStep(s, n)
  PROVE  /\ UNCHANGED <<wf, faults, gw>>
         /\ at[<<s, n>>] \in {"begin", "read", "saved", "inserted"}
         /\ \E x \in {"read", "saved", "inserted", "returned"} :
              at' = [at EXCEPT ![<<s, n>>] = x]
  BY Zenon DEF ActivityStep, ReadJob, SaveStatus, Publish, ApplyPerturbation, InsertVersion,
     ReadForStamp, StampResult, gatewayVars

Moves(st, p, n) ==
  /\ wf' \in Executions
  /\ wf'.state = st /\ wf'.pc = p /\ wf'.n = n

Begins(p, n) ==
  /\ p \in Steps /\ n \in Attempts
  /\ Moves("open", p, n)
  /\ at' = [at EXCEPT ![<<p, n>>] = "begin"]

Awaits(phases) ==
  /\ wf.state = "open" /\ wf.pc \in Steps /\ wf.n \in Attempts
  /\ at[<<wf.pc, wf.n>>] \in phases

\* The shapes a server step can have.
Same == UNCHANGED <<wf, at, faults>>
Starts == wf.state = "none" /\ Begins(SetRunning, 1) /\ UNCHANGED faults
GoesOn == Awaits({"returned"}) /\ Begins(wf.pc + 1, 1) /\ UNCHANGED faults
Retries ==
  /\ Awaits(Phases) /\ Begins(wf.pc, wf.n + 1)
  /\ \/ at[<<wf.pc, wf.n>>] = "raised" /\ UNCHANGED faults
     \/ faults < MaxFaults /\ faults' = faults + 1
Raises ==
  /\ Awaits(Running) /\ UNCHANGED wf
  /\ at' = [at EXCEPT ![<<wf.pc, wf.n>>] = "raised"]
  /\ faults < MaxFaults /\ faults' = faults + 1
Stops ==
  /\ wf.state = "open" /\ Moves("failed", wf.pc, wf.n) /\ UNCHANGED at
  /\ faults' \in {faults, faults + 1} /\ faults' <= MaxFaults
Completes ==
  /\ Awaits({"returned"}) /\ wf.pc = SetSucceeded
  /\ Moves("completed", wf.pc, wf.n) /\ UNCHANGED <<at, faults>>

Shapes == Same \/ Starts \/ GoesOn \/ Retries \/ Raises \/ Stops \/ Completes

\* Every action of gateway and server has one of the shapes.
LEMMA ServerShapes ==
  ASSUME TypeOK, Position, ServerStep
  PROVE  Shapes
<1>1. /\ wf \in Executions /\ at \in [Ids -> Phases]
      /\ wf.pc \in Steps => wf.n \in Attempts
      /\ faults \in 0..MaxFaults
  BY DEF TypeOK, EngineTypeOK, Executions
<1>2. wf.pc \in Steps => at[<<wf.pc, wf.n>>] \in Phases
  BY <1>1, Numbers
<1>3. CASE GatewaySaveJob \/ GatewayCrash
  BY <1>3 DEF GatewaySaveJob, GatewayCrash, engineVars, Shapes, Same
<1>4. CASE LaunchPerturbation
  BY <1>4, <1>1, Numbers
     DEF LaunchPerturbation, StartWorkflow, Shapes, Starts, Begins, Moves, Executions
<1>5. CASE Advance
  <2>1. Awaits({"returned"}) /\ UNCHANGED faults
    BY <1>5, <1>1 DEF Advance, Returned, OnActivity, Open, Current, Awaits
  <2>2. CASE wf.pc = SetSucceeded
    <3>1. wf' = [wf EXCEPT !.state = "completed"] /\ UNCHANGED at
      BY <1>5, <2>2 DEF Advance, Close
    <3>2. Moves("completed", wf.pc, wf.n)
      BY <3>1, <1>1 DEF Moves, Executions, Closed
    <3> QED
      BY <3>1, <3>2, <2>1, <2>2 DEF Shapes, Completes
  <2>3. CASE wf.pc # SetSucceeded
    <3>1. /\ wf' = [wf EXCEPT !.pc = wf.pc + 1, !.n = 1]
          /\ at' = [at EXCEPT ![<<wf.pc + 1, 1>>] = "begin"]
      BY <1>5, <2>3 DEF Advance, Schedule
    <3>2. wf.pc + 1 \in Steps /\ wf.pc + 1 \in Nat
      BY <2>1, <2>3, Numbers DEF Awaits
    <3>3. Moves("open", wf.pc + 1, 1)
      BY <3>1, <3>2, <2>1, <1>1 DEF Moves, Executions, Awaits
    <3> QED
      BY <3>1, <3>2, <3>3, <2>1, Numbers DEF Shapes, GoesOn, Begins
  <2> QED
    BY <2>2, <2>3
<1>6. CASE Fail
  <2>1. /\ wf.state = "open" /\ UNCHANGED at
        /\ wf' = [wf EXCEPT !.state = "failed"]
        /\ faults' \in {faults, faults + 1} /\ faults' <= MaxFaults
    BY <1>6, <1>1, FaultsAssumption DEF Fail, Exhausted, Lost, OnActivity, Open, Close
  <2>2. Moves("failed", wf.pc, wf.n)
    BY <2>1, <1>1 DEF Moves, Executions, Closed
  <2> QED
    BY <2>1, <2>2 DEF Shapes, Stops
<1>7. CASE RetryActivity
  <2>1. /\ wf.state = "open" /\ wf.pc \in Steps /\ wf.n < MaxAttempts
        /\ wf' = [wf EXCEPT !.n = wf.n + 1]
        /\ at' = [at EXCEPT ![<<wf.pc, wf.n + 1>>] = "begin"]
        /\ \/ at[<<wf.pc, wf.n>>] = "raised" /\ UNCHANGED faults
           \/ faults < MaxFaults /\ faults' = faults + 1
    BY <1>7, <1>1 DEF RetryActivity, Retry, Lost, OnActivity, Open, Current
  <2>2. wf.n \in Attempts /\ wf.n + 1 \in Attempts /\ wf.n + 1 \in Nat
    BY <2>1, <1>1, Numbers, AttemptsAssumption
  <2>3. Moves("open", wf.pc, wf.n + 1)
    BY <2>1, <2>2, <1>1 DEF Moves, Executions
  <2> QED
    BY <2>1, <2>2, <2>3, <1>2 DEF Shapes, Retries, Begins, Awaits
<1>8. CASE ActivityRaises
  BY <1>8, <1>1 DEF ActivityRaises, Raise, OnActivity, Open, Current, Shapes, Raises, Awaits
<1> QED
  BY <1>3, <1>4, <1>5, <1>6, <1>7, <1>8 DEF ServerStep

\* Dispatching an attempt touches no other attempt.
LEMMA BeginsSlots ==
  ASSUME EngineTypeOK, NEW p, NEW n, Begins(p, n), NEW id \in Ids
  PROVE  /\ at'[id] = (IF id = <<p, n>> THEN "begin" ELSE at[id])
         /\ id = <<id[1], id[2]>> /\ id[1] \in Nat /\ id[2] \in Nat
  BY Numbers DEF EngineTypeOK, Begins

\* The shapes keep the engine's types and positions; nothing is taken back.
LEMMA ShapesTyped ==
  ASSUME EngineTypeOK, Position, Shapes
  PROVE  /\ EngineTypeOK' /\ Position'
         /\ wf'.pc >= wf.pc /\ faults' >= faults /\ faults \in Nat /\ faults' \in Nat
<1>1. /\ wf \in Executions /\ (wf.pc \in Steps => wf.n \in Attempts)
      /\ at \in [Ids -> Phases] /\ faults \in 0..MaxFaults
      /\ wf.pc \in Nat /\ wf.n \in Nat
  BY DEF EngineTypeOK, Executions
<1>2. {"begin", "raised"} \subseteq Phases
  BY DEF Phases, Running
<1> DEFINE Goal == /\ wf' \in Executions /\ (wf'.pc \in Steps => wf'.n \in Attempts)
                   /\ at' \in [Ids -> Phases]
                   /\ faults' \in 0..MaxFaults /\ faults' >= faults
                   /\ wf'.pc >= wf.pc
<1>3. Goal
  <2>1. CASE Same \/ Stops \/ Completes
    BY <1>1, <2>1, FaultsAssumption DEF Same, Stops, Completes, Moves, Awaits
  <2>2. CASE Starts
    BY <1>1, <1>2, <2>2, Numbers DEF Starts, Begins, Moves, Position
  <2>3. CASE GoesOn
    BY <1>1, <1>2, <2>3, Numbers DEF GoesOn, Begins, Moves, Awaits
  <2>4. CASE Retries
    BY <1>1, <1>2, <2>4, Numbers, FaultsAssumption DEF Retries, Begins, Moves
  <2>5. CASE Raises
    BY <1>1, <1>2, <2>5, Numbers, FaultsAssumption DEF Raises, Awaits
  <2> QED
    BY <2>1, <2>2, <2>3, <2>4, <2>5 DEF Shapes
<1>4. Position'
  BY Numbers DEF Shapes, Same, Starts, GoesOn, Retries, Raises, Stops, Completes, Awaits,
     Begins, Moves, Position
<1> QED
  BY <1>1, <1>3, <1>4, FaultsAssumption DEF EngineTypeOK, Executions

\* A dispatched attempt is at a position reached.
LEMMA ShapesStarted ==
  ASSUME EngineTypeOK, Position, Started, Shapes
  PROVE  Started'
<1>1. /\ wf.pc \in Nat /\ wf.n \in Nat /\ at \in [Ids -> Phases]
      /\ wf.pc \in Steps => <<wf.pc, wf.n>> \in Ids
  BY Numbers DEF EngineTypeOK
<1>2. wf'.state = "open" => at'[<<wf'.pc, wf'.n>>] # "idle"
  <2>1. CASE Same \/ Stops \/ Completes
    BY <2>1 DEF Same, Stops, Completes, Moves, Started
  <2>2. ASSUME NEW p, NEW n, Begins(p, n) PROVE at'[<<wf'.pc, wf'.n>>] # "idle"
    BY <2>2, <1>1, Numbers DEF Begins, Moves
  <2>3. CASE Raises
    BY <2>3, <1>1 DEF Raises, Awaits
  <2> QED
    BY <2>1, <2>2, <2>3 DEF Shapes, Starts, GoesOn, Retries
<1> SUFFICES ASSUME NEW id \in Ids, at'[id] # "idle"
             PROVE  /\ wf'.state # "none"
                    /\ id[1] < wf'.pc \/ (id[1] = wf'.pc /\ id[2] <= wf'.n)
  BY <1>2 DEF Started
<1>3. /\ id[1] \in Nat /\ id[2] \in Nat
      /\ at[id] # "idle" => /\ wf.state # "none"
                            /\ id[1] < wf.pc \/ (id[1] = wf.pc /\ id[2] <= wf.n)
  BY Numbers DEF Started
<1>4. CASE Same \/ Stops \/ Completes
  BY <1>3, <1>4 DEF Same, Stops, Completes, Moves
<1>5. CASE Starts
  BY <1>1, <1>3, <1>5, BeginsSlots DEF Starts, Begins, Moves
<1>6. CASE GoesOn
  BY <1>1, <1>3, <1>6, BeginsSlots DEF GoesOn, Begins, Moves
<1>7. CASE Retries
  BY <1>1, <1>3, <1>7, BeginsSlots DEF Retries, Begins, Moves
<1>8. CASE Raises
  BY <1>1, <1>3, <1>8 DEF Raises, Awaits
<1> QED
  BY <1>4, <1>5, <1>6, <1>7, <1>8 DEF Shapes

\* What a server step does to one attempt: dispatch it, or let it raise.
LEMMA ShapesSlots ==
  ASSUME EngineTypeOK, Position, Started, Shapes, NEW id \in Ids
  PROVE  \/ at'[id] = at[id]
         \/ at[id] = "idle" /\ at'[id] = "begin" /\ id = <<wf'.pc, wf'.n>>
         \/ at[id] \in Running /\ at'[id] = "raised" /\ faults' > 0
<1>1. /\ wf.pc \in Nat /\ wf.n \in Nat /\ at \in [Ids -> Phases] /\ faults \in Nat
      /\ id[1] \in Nat /\ id[2] \in Nat /\ id = <<id[1], id[2]>>
  BY Numbers, FaultsAssumption DEF EngineTypeOK
<1>2. at[id] # "idle" => /\ wf.state # "none"
                         /\ id[1] < wf.pc \/ (id[1] = wf.pc /\ id[2] <= wf.n)
  BY DEF Started
<1>3. CASE Same \/ Stops \/ Completes
  BY <1>3 DEF Same, Stops, Completes
<1>4. CASE Starts
  BY <1>2, <1>4, BeginsSlots DEF Starts, Begins, Moves
<1>5. CASE GoesOn
  BY <1>1, <1>2, <1>5, BeginsSlots DEF GoesOn, Begins, Moves
<1>6. CASE Retries
  BY <1>1, <1>2, <1>6, BeginsSlots DEF Retries, Begins, Moves
<1>7. CASE Raises
  BY <1>1, <1>7 DEF Raises, Awaits
<1> QED
  BY <1>3, <1>4, <1>5, <1>6, <1>7 DEF Shapes

\* The workflow moves past a position only when an attempt of it returned.
LEMMA Passing ==
  ASSUME EngineTypeOK, Position, Shapes, NEW p \in Steps, wf.pc <= p, wf'.pc > p
  PROVE  \E n \in Attempts : at[<<p, n>>] = "returned"
<1>1. wf.pc \in Nat
  BY DEF EngineTypeOK
<1>2. wf.n \in Attempts /\ wf.pc = p /\ at[<<p, wf.n>>] = "returned"
  BY <1>1, Numbers DEF Shapes, Same, Starts, GoesOn, Retries, Raises, Stops, Completes,
     Awaits, Begins, Moves, Position
<1> QED
  BY <1>2

\* Without a fault the server dispatches an attempt only after the last returned.
LEMMA ShapesSequential ==
  ASSUME EngineTypeOK, Position, Started, Sequential, Shapes
  PROVE  Sequential'
<1>1. /\ faults \in Nat /\ faults' \in Nat /\ faults' >= faults
      /\ wf.pc \in Nat /\ wf.n \in Nat
  BY ShapesTyped DEF EngineTypeOK
<1>2. ASSUME NEW id \in Ids, at'[id] = "raised" PROVE faults' > 0
  BY <1>1, <1>2, ShapesSlots DEF Sequential
<1>3. ASSUME faults' = 0, NEW id \in Ids, at'[id] \notin {"idle", "returned"}
      PROVE  id = <<wf'.pc, wf'.n>>
  <2>1. faults = 0 /\ at'[id] # "raised"
    BY <1>1, <1>2, <1>3
  <2>2. CASE at'[id] # at[id]
    BY <2>1, <2>2, ShapesSlots
  <2>3. CASE at'[id] = at[id]
    <3>1. id = <<wf.pc, wf.n>> /\ at[id] \notin {"idle", "returned"}
      BY <1>3, <2>1, <2>3 DEF Sequential
    <3>2. CASE Same \/ Stops \/ Completes
      BY <3>1, <3>2 DEF Same, Stops, Completes, Moves
    <3>3. CASE Starts
      BY <3>1, <3>3 DEF Starts, Started
    <3>4. CASE GoesOn
      BY <3>1, <3>4 DEF GoesOn, Awaits
    <3>5. CASE Retries
      <4>1. at[id] = "raised"
        BY <1>1, <1>3, <3>1, <3>5 DEF Retries
      <4> QED
        BY <2>1, <2>3, <4>1
    <3>6. CASE Raises
      BY <1>1, <1>3, <3>6 DEF Raises
    <3> QED
      BY <3>2, <3>3, <3>4, <3>5, <3>6 DEF Shapes
  <2> QED
    BY <2>2, <2>3
<1> QED
  BY <1>2, <1>3 DEF Sequential

\* A worker's step leaves the engine's invariants alone; its attempt is at a
\* position the workflow has reached, and the only one unless a fault happened.
LEMMA WorkerEngine ==
  ASSUME PertInv, NEW s \in Steps, NEW n \in Attempts, ActivityStep(s, n)
  PROVE  /\ EngineTypeOK' /\ Position' /\ Started' /\ Sequential'
         /\ wf' = wf /\ wf.pc \in Nat /\ wf.pc >= s /\ faults' = faults
         /\ \A id \in Ids : id # <<s, n>> => at'[id] = at[id]
         /\ faults = 0 => \A id \in Ids : id # <<s, n>> => at[id] \in {"idle", "returned"}
<1>1. /\ UNCHANGED <<wf, faults>> /\ at[<<s, n>>] \in {"begin", "read", "saved", "inserted"}
  BY WorkerEffect
<1>2. PICK x \in {"read", "saved", "inserted", "returned"} : at' = [at EXCEPT ![<<s, n>>] = x]
  BY WorkerEffect
<1>3. /\ EngineTypeOK /\ Position /\ Started /\ Sequential
      /\ at \in [Ids -> Phases] /\ wf.pc \in Nat /\ s \in Nat /\ <<s, n>> \in Ids
  BY Numbers DEF PertInv, TypeOK, EngineTypeOK
<1>4. \A id \in Ids : /\ at'[id] = IF id = <<s, n>> THEN x ELSE at[id]
                      /\ at'[id] = "idle" <=> at[id] = "idle"
                      /\ at'[id] = "raised" <=> at[id] = "raised"
  BY <1>1, <1>2, <1>3
<1>5. EngineTypeOK' /\ Position'
  BY <1>1, <1>2, <1>3 DEF EngineTypeOK, Position, Phases, Running
<1>6. Started'
  <2>1. wf.state = "open" => <<wf.pc, wf.n>> \in Ids
    BY <1>3, Numbers DEF EngineTypeOK, Position
  <2> QED
    BY <1>1, <1>3, <1>4, <2>1 DEF Started
<1>7. faults = 0 => <<s, n>> = <<wf.pc, wf.n>>
  BY <1>1, <1>3 DEF Sequential
<1>8. Sequential'
  BY <1>1, <1>3, <1>4, <1>7 DEF Sequential
<1>9. wf.pc >= s
  BY <1>1, <1>3 DEF Started
<1> QED
  BY <1>1, <1>3, <1>4, <1>5, <1>6, <1>7, <1>8, <1>9 DEF Sequential

-----------------------------------------------------------------------------
(* The invariant.                                                          *)

\* The initial state.
LEMMA InvInit == Init => PertInv
<1> SUFFICES ASSUME Init PROVE PertInv
  OBVIOUS
<1>1. /\ wf.state = "none" /\ wf.pc = 0 /\ wf.n = 0 /\ faults = 0
      /\ \A id \in Ids : at[id] = "idle"
      /\ \A s \in Steps, n \in Attempts : at[<<s, n>>] = "idle"
      /\ job.result = 0 /\ \A id \in RowSteps \X Attempts : seen[id].result = 0
  BY DEF Init, EngineInit, Ids, NoRow
<1>2. EngineTypeOK
  BY FaultsAssumption, Numbers DEF Init, EngineInit, EngineTypeOK, Phases
<1>3. NoRow \in Rows
  BY AttemptsAssumption DEF NoRow, Rows, JobStatus
<1>4. TypeOK
  BY <1>2, <1>3 DEF Init, TypeOK
<1>5. Position /\ Started /\ Sequential
  BY <1>1 DEF Position, Started, Sequential
<1>6. ArtifactKept /\ VersionsKept
  BY <1>1, Numbers DEF Init, ArtifactKept, VersionsKept
<1>7. Stamped /\ Carried
  BY <1>1 DEF Stamped, Carried
<1> QED
  BY <1>4, <1>5, <1>6, <1>7 DEF PertInv

\* Server steps: they write the row only in the gateway's save.
LEMMA ServerInv ==
  ASSUME PertInv, ServerStep
  PROVE  PertInv'
<1>1. Shapes /\ EngineTypeOK /\ Position /\ Started /\ Sequential
  BY ServerShapes DEF PertInv, TypeOK
<1>2. /\ EngineTypeOK' /\ Position' /\ Started' /\ Sequential'
      /\ wf'.pc >= wf.pc /\ wf.pc \in Nat /\ wf'.pc \in Nat
      /\ faults' >= faults /\ faults \in Nat /\ faults' \in Nat
  BY <1>1, ShapesTyped, ShapesStarted, ShapesSequential DEF EngineTypeOK
<1>3. /\ UNCHANGED <<channel, artifact, versions, seen>>
      /\ UNCHANGED job \/ job' = [status |-> "pending", workflow_id |-> TRUE, result |-> 0]
      /\ gw' \in {gw, "started", "done", "crashed"}
  BY DEF ServerStep, LaunchPerturbation, GatewaySaveJob, GatewayCrash, Advance, Fail,
     RetryActivity, ActivityRaises, gatewayVars
<1>4. TypeOK'
  <2>1. [status |-> "pending", workflow_id |-> TRUE, result |-> 0] \in Rows
    BY AttemptsAssumption DEF Rows, JobStatus
  <2> QED
    BY <1>2, <1>3, <2>1 DEF PertInv, TypeOK
<1>5. ASSUME NEW id \in Ids, at'[id] \in {"inserted", "read", "returned"} PROVE at'[id] = at[id]
  BY <1>1, <1>5, ShapesSlots
<1>6. ArtifactKept'
  <2>1. \A n \in Attempts : at'[<<Apply, n>>] = "returned" => artifact
    BY <1>5, Numbers DEF PertInv, ArtifactKept
  <2>2. wf'.pc > Apply => artifact
    <3>1. CASE wf.pc > Apply
      BY <3>1 DEF PertInv, ArtifactKept
    <3>2. CASE wf.pc <= Apply
      BY <1>1, <3>2, Passing, Numbers DEF PertInv, ArtifactKept
    <3> QED
      BY <1>2, <3>1, <3>2, Numbers
  <2> QED
    BY <1>2, <1>3, <2>1, <2>2, Numbers DEF PertInv, ArtifactKept
<1>7. VersionsKept'
  <2>1. \A n \in Attempts :
          at'[<<Register, n>>] \in {"inserted", "read", "returned"} => n \in versions
    BY <1>5, Numbers DEF PertInv, VersionsKept
  <2>2. wf'.pc > Register => versions # {}
    <3>1. CASE wf.pc > Register
      BY <3>1 DEF PertInv, VersionsKept
    <3>2. CASE wf.pc <= Register
      BY <1>1, <3>2, Passing, Numbers DEF PertInv, VersionsKept
    <3> QED
      BY <1>2, <3>1, <3>2, Numbers
  <2> QED
    BY <1>2, <1>3, <2>1, <2>2, Numbers DEF PertInv, VersionsKept
<1>8. Stamped'
  BY <1>3 DEF PertInv, Stamped
<1>9. Carried'
  <2> SUFFICES ASSUME faults' = 0, job'.result # 0, NEW id \in RowSteps \X Attempts, at'[id] = "read"
               PROVE  seen[id].result # 0
    BY <1>3 DEF Carried
  <2>1. faults = 0 /\ job.result # 0 /\ at[id] = "read"
    BY <1>2, <1>3, <1>5, Numbers
  <2> QED
    BY <2>1 DEF PertInv, Carried
<1> QED
  BY <1>2, <1>4, <1>6, <1>7, <1>8, <1>9 DEF PertInv

\* A worker's step: what it writes is what it read, or a row it inserted.
LEMMA WorkerInv ==
  ASSUME PertInv, NEW s \in Steps, NEW n \in Attempts, ActivityStep(s, n)
  PROVE  PertInv'
<1>1. /\ EngineTypeOK' /\ Position' /\ Started' /\ Sequential'
      /\ wf' = wf /\ wf.pc \in Nat /\ wf.pc >= s /\ faults' = faults /\ gw' = gw
      /\ \A id \in Ids : id # <<s, n>> => at'[id] = at[id]
      /\ faults = 0 => \A id \in Ids : id # <<s, n>> => at[id] \in {"idle", "returned"}
  BY WorkerEngine, WorkerEffect
<1>2. /\ job \in Rows /\ seen \in [RowSteps \X Attempts -> Rows] /\ NoRow \in Rows
      /\ versions \in SUBSET Attempts /\ at \in [Ids -> Phases] /\ <<s, n>> \in Ids
      /\ NoRow.result = 0 /\ n \in 0..MaxAttempts /\ n # 0
      /\ s \in RowSteps => <<s, n>> \in RowSteps \X Attempts
  BY Numbers, AttemptsAssumption DEF PertInv, TypeOK, EngineTypeOK, NoRow, Rows, JobStatus
<1>3. TypeOK /\ ArtifactKept /\ VersionsKept /\ Stamped /\ Carried
  BY DEF PertInv
<1>4. CASE ReadJob(s, n)
  <2>1. /\ s \in RowSteps /\ s \notin {Apply, Register}
        /\ seen' = [seen EXCEPT ![<<s, n>>] = job]
        /\ UNCHANGED <<job, channel, artifact, versions>>
    BY <1>4, Numbers DEF ReadJob
  <2>2. TypeOK'
    BY <1>1, <1>2, <1>3, <2>1 DEF TypeOK
  <2>3. ArtifactKept' /\ VersionsKept'
    BY <1>1, <1>3, <2>1, Numbers DEF ArtifactKept, VersionsKept
  <2>4. Stamped' /\ Carried'
    BY <1>1, <1>2, <1>3, <2>1, Numbers DEF Stamped, Carried
  <2> QED
    BY <1>1, <2>2, <2>3, <2>4 DEF PertInv
<1>5. CASE SaveStatus(s, n)
  <2>1. /\ s \in RowSteps /\ s \notin {Apply, Register} /\ at[<<s, n>>] = "read"
        /\ at'[<<s, n>>] = "saved"
        /\ job' = [seen[<<s, n>>] EXCEPT !.status = StatusAt(s)]
        /\ seen' = [seen EXCEPT ![<<s, n>>] = NoRow]
        /\ UNCHANGED <<channel, artifact, versions>>
    BY <1>2, <1>5, Numbers DEF SaveStatus
  <2>2. job' \in Rows /\ job'.result = seen[<<s, n>>].result
    BY <1>2, <2>1 DEF Rows, JobStatus, StatusAt
  <2>3. TypeOK'
    BY <1>1, <1>2, <1>3, <2>1, <2>2 DEF TypeOK
  <2>4. ArtifactKept' /\ VersionsKept'
    BY <1>1, <1>3, <2>1, Numbers DEF ArtifactKept, VersionsKept
  <2>5. Stamped'
    BY <1>2, <1>3, <2>1, <2>2 DEF Stamped
  <2>6. Carried'
    <3> SUFFICES ASSUME faults = 0, NEW id \in RowSteps \X Attempts PROVE at'[id] # "read"
      BY <1>1 DEF Carried
    <3> QED
      BY <1>1, <1>2, <2>1, Numbers
  <2> QED
    BY <1>1, <2>3, <2>4, <2>5, <2>6 DEF PertInv
<1>6. CASE Publish(s, n)
  <2>1. /\ s \notin {Apply, Register} /\ at'[<<s, n>>] = "returned" /\ channel' = StatusAt(s)
        /\ UNCHANGED <<job, artifact, versions, seen>>
    BY <1>2, <1>6, Numbers DEF Publish
  <2>2. TypeOK'
    BY <1>1, <1>3, <2>1 DEF TypeOK, StatusAt
  <2>3. ArtifactKept' /\ VersionsKept' /\ Stamped'
    BY <1>1, <1>3, <2>1, Numbers DEF ArtifactKept, VersionsKept, Stamped
  <2>4. Carried'
    BY <1>1, <1>3, <2>1, Numbers DEF Carried
  <2> QED
    BY <1>1, <2>2, <2>3, <2>4 DEF PertInv
<1>7. CASE s = Apply /\ ApplyPerturbation(n)
  <2>1. /\ artifact' = TRUE /\ UNCHANGED <<job, channel, versions, seen>>
        /\ at'[<<s, n>>] = "returned"
    BY <1>2, <1>7 DEF ApplyPerturbation
  <2>2. TypeOK' /\ ArtifactKept'
    BY <1>1, <1>3, <1>7, <2>1 DEF TypeOK, ArtifactKept
  <2>3. VersionsKept' /\ Stamped' /\ Carried'
    BY <1>1, <1>3, <1>7, <2>1, Numbers DEF VersionsKept, Stamped, Carried
  <2> QED
    BY <1>1, <2>2, <2>3 DEF PertInv
<1>8. CASE s = Register /\ InsertVersion(n)
  <2>1. /\ versions' = versions \cup {n} /\ UNCHANGED <<job, channel, artifact, seen>>
        /\ at'[<<s, n>>] = "inserted"
    BY <1>2, <1>8 DEF InsertVersion
  <2>2. TypeOK'
    BY <1>1, <1>2, <1>3, <2>1, Numbers DEF TypeOK
  <2>3. ArtifactKept'
    BY <1>1, <1>3, <1>8, <2>1, Numbers DEF ArtifactKept
  <2>4. VersionsKept'
    BY <1>1, <1>3, <1>8, <2>1, Numbers DEF VersionsKept
  <2>5. Stamped' /\ Carried'
    BY <1>1, <1>3, <2>1, Numbers DEF Stamped, Carried
  <2> QED
    BY <1>1, <2>2, <2>3, <2>4, <2>5 DEF PertInv
<1>9. CASE s = Register /\ ReadForStamp(n)
  <2>1. /\ seen' = [seen EXCEPT ![<<s, n>>] = job] /\ at[<<s, n>>] = "inserted"
        /\ UNCHANGED <<job, channel, artifact, versions>> /\ s \in RowSteps
    BY <1>9, Numbers DEF ReadForStamp
  <2>2. TypeOK'
    BY <1>1, <1>2, <1>3, <2>1 DEF TypeOK
  <2>3. ArtifactKept'
    BY <1>1, <1>3, <1>9, <2>1, Numbers DEF ArtifactKept
  <2>4. VersionsKept'
    <3>1. n \in versions
      BY <1>3, <1>9, <2>1 DEF VersionsKept
    <3>2. \A k \in Attempts : k # n => at'[<<Register, k>>] = at[<<Register, k>>]
      BY <1>1, <1>9, Numbers
    <3> QED
      BY <1>1, <1>3, <2>1, <3>1, <3>2 DEF VersionsKept
  <2>5. Stamped' /\ Carried'
    BY <1>1, <1>2, <1>3, <2>1, Numbers DEF Stamped, Carried
  <2> QED
    BY <1>1, <2>2, <2>3, <2>4, <2>5 DEF PertInv
<1>10. CASE s = Register /\ StampResult(n)
  <2>1. /\ at[<<s, n>>] = "read" /\ at'[<<s, n>>] = "returned" /\ s \in RowSteps
        /\ job' = [seen[<<s, n>>] EXCEPT !.result = n]
        /\ seen' = [seen EXCEPT ![<<s, n>>] = NoRow]
        /\ UNCHANGED <<channel, artifact, versions>>
    BY <1>2, <1>10, Numbers DEF StampResult
  <2>2. job' \in Rows /\ job'.result = n /\ n \in versions
    BY <1>2, <1>3, <1>10, <2>1 DEF Rows, VersionsKept
  <2>3. TypeOK'
    BY <1>1, <1>2, <1>3, <2>1, <2>2 DEF TypeOK
  <2>4. ArtifactKept'
    BY <1>1, <1>3, <1>10, <2>1, Numbers DEF ArtifactKept
  <2>5. VersionsKept'
    <3>1. \A k \in Attempts : k # n => at'[<<Register, k>>] = at[<<Register, k>>]
      BY <1>1, <1>10, Numbers
    <3> QED
      BY <1>1, <1>3, <2>1, <2>2, <3>1 DEF VersionsKept
  <2>6. Stamped'
    BY <1>2, <1>3, <2>1, <2>2 DEF Stamped
  <2>7. Carried'
    <3> SUFFICES ASSUME faults = 0, NEW id \in RowSteps \X Attempts PROVE at'[id] # "read"
      BY <1>1 DEF Carried
    <3> QED
      BY <1>1, <1>2, <2>1, Numbers
  <2> QED
    BY <1>1, <2>3, <2>4, <2>5, <2>6, <2>7 DEF PertInv
<1> QED
  BY <1>4, <1>5, <1>6, <1>7, <1>8, <1>9, <1>10 DEF ActivityStep

\* The invariant holds always.
LEMMA InvHolds == Spec => []PertInv
<1>1. PertInv /\ [Next]_vars => PertInv'
  <2> SUFFICES ASSUME PertInv, [Next]_vars PROVE PertInv'
    OBVIOUS
  <2>1. CASE UNCHANGED vars
    BY <2>1 DEF vars, PertInv, TypeOK, EngineTypeOK, Position, Started, Sequential,
       ArtifactKept, VersionsKept, Stamped, Carried
  <2> QED
    BY <2>1, ServerInv, WorkerInv, NextCases
<1> QED
  BY <1>1, InvInit, PTL DEF Spec

-----------------------------------------------------------------------------
(* The theorems.                                                           *)

\* What a reader of the job row follows is there: a stamped result names an
\* inserted version, and a version has its artifact, whatever retries and
\* abandoned attempts of register_perturbed_version write.
THEOREM ResultsResolve == Spec => []ResultResolves
<1>1. PertInv => ResultResolves
  <2> SUFFICES ASSUME PertInv PROVE ResultResolves
    OBVIOUS
  <2>1. wf.pc \in Nat
    BY DEF PertInv, TypeOK, EngineTypeOK
  <2> QED
    BY <2>1, Numbers DEF PertInv, ResultResolves, Stamped, VersionsKept, ArtifactKept
<1> QED
  BY <1>1, InvHolds, PTL

\* result_version_id is lost only by the gateway's late save_perturbation_job or
\* after an attempt was lost or raised.
THEOREM StampsLostByRaces == Spec => StampLostOnlyByRace
<1> DEFINE Excused ==
      (job.result # 0 /\ job'.result = 0) =>
        (gw = "started" /\ gw' # "started") \/ faults > 0
<1>1. PertInv /\ [Next]_vars => [Excused]_vars
  <2> SUFFICES ASSUME PertInv, Next, job.result # 0, job'.result = 0, ~(faults > 0)
               PROVE  gw = "started" /\ gw' # "started"
    OBVIOUS
  <2>1. faults = 0 /\ job' # job
    BY FaultsAssumption DEF PertInv, TypeOK, EngineTypeOK
  <2>2. CASE ServerStep
    BY <2>1, <2>2 DEF ServerStep, LaunchPerturbation, GatewaySaveJob, GatewayCrash, Advance,
       Fail, RetryActivity, ActivityRaises
  <2>3. ASSUME NEW s \in Steps, NEW n \in Attempts, ActivityStep(s, n) PROVE FALSE
    <3>1. CASE SaveStatus(s, n)
      <4>1. /\ <<s, n>> \in RowSteps \X Attempts /\ at[<<s, n>>] = "read"
            /\ seen[<<s, n>>] \in Rows
            /\ job' = [seen[<<s, n>>] EXCEPT !.status = StatusAt(s)]
        BY <3>1, Numbers DEF SaveStatus, PertInv, TypeOK
      <4>2. job'.result = seen[<<s, n>>].result
        BY <4>1 DEF Rows
      <4> QED
        BY <2>1, <4>1, <4>2 DEF PertInv, Carried
    <3>2. CASE s = Register /\ StampResult(n)
      <4>1. seen[<<s, n>>] \in Rows /\ n # 0
        BY <3>2, Numbers DEF PertInv, TypeOK
      <4> QED
        BY <3>2, <4>1 DEF StampResult, Rows
    <3> QED
      BY <2>1, <2>3, <3>1, <3>2 DEF ActivityStep, ReadJob, Publish, ApplyPerturbation,
         InsertVersion, ReadForStamp
  <2> QED
    BY <2>2, <2>3, NextCases
<1> QED
  BY <1>1, InvHolds, PTL DEF Spec, StampLostOnlyByRace

\* A perturbation request implements the publication service of a generation
\* whose review is waived: no success without a version, no version without an
\* artifact.
THEOREM PublicationImplemented == Spec => ImplementsPublication
<1>1. Init => Pub!PubInit
  BY DEF Init, EngineInit, Pub!PubInit
<1>2. PertInv /\ [Next]_vars => [Pub!PubNext]_(Pub!pubVars)
  <2> SUFFICES ASSUME PertInv, [Next]_vars
               PROVE  Pub!PubNext \/ UNCHANGED Pub!pubVars
    OBVIOUS
  <2>1. CASE ServerStep
    <3>1. UNCHANGED <<artifact, versions>>
      BY <2>1 DEF ServerStep, LaunchPerturbation, GatewaySaveJob, GatewayCrash, Advance,
         Fail, RetryActivity, ActivityRaises
    <3>2. Shapes /\ wf.pc \in Nat
      BY <2>1, ServerShapes DEF PertInv, TypeOK, EngineTypeOK
    <3>3. CASE Starts
      <4>1. wf.state = "none" /\ wf'.state = "open"
        BY <3>3 DEF Starts, Begins, Moves
      <4> QED
        BY <3>1, <4>1 DEF Pub!PubNext, Pub!Submit
    <3>4. CASE Completes
      <4>1. wf.state = "open" /\ wf'.state = "completed" /\ wf.pc = SetSucceeded
        BY <3>4 DEF Completes, Awaits, Moves
      <4>2. versions # {}
        BY <4>1, Numbers DEF PertInv, VersionsKept
      <4> QED
        BY <3>1, <4>1, <4>2 DEF Pub!PubNext, Pub!Complete
    <3>5. CASE Stops
      <4>1. wf.state = "open" /\ wf'.state = "failed"
        BY <3>5 DEF Stops, Moves
      <4> QED
        BY <3>1, <4>1 DEF Pub!PubNext, Pub!Abort
    <3>6. CASE Same \/ GoesOn \/ Retries \/ Raises
      <4>1. wf'.state = wf.state
        BY <3>6 DEF Same, GoesOn, Retries, Raises, Awaits, Begins, Moves
      <4> QED
        BY <3>1, <4>1 DEF Pub!pubVars
    <3> QED
      BY <3>2, <3>3, <3>4, <3>5, <3>6 DEF Shapes
  <2>2. ASSUME NEW s \in Steps, NEW n \in Attempts, ActivityStep(s, n)
        PROVE  Pub!PubNext \/ UNCHANGED Pub!pubVars
    <3>1. wf' = wf /\ wf.pc \in Nat /\ wf.pc >= s
      BY <2>2, WorkerEngine
    <3>2. wf.state # "none"
      BY <3>1, Numbers DEF PertInv, Position
    <3>3. CASE s = Apply /\ ApplyPerturbation(n)
      BY <3>1, <3>2, <3>3 DEF ApplyPerturbation, Pub!PubNext, Pub!Produce
    <3>4. CASE s = Register /\ InsertVersion(n)
      <4>1. artifact
        BY <3>1, <3>4, Numbers DEF PertInv, ArtifactKept
      <4> QED
        BY <3>1, <3>4, <4>1 DEF InsertVersion, Pub!PubNext, Pub!PublishVersion
    <3>5. CASE ~(s = Apply /\ ApplyPerturbation(n)) /\ ~(s = Register /\ InsertVersion(n))
      <4>1. UNCHANGED <<artifact, versions>>
        BY <2>2, <3>5 DEF ActivityStep, ReadJob, SaveStatus, Publish, ReadForStamp, StampResult
      <4> QED
        BY <3>1, <4>1 DEF Pub!pubVars
    <3> QED
      BY <3>3, <3>4, <3>5
  <2>3. CASE UNCHANGED vars
    BY <2>3 DEF vars, Pub!pubVars
  <2> QED
    BY <2>1, <2>2, <2>3, NextCases
<1> QED
  BY <1>1, <1>2, InvHolds, PTL DEF Spec, ImplementsPublication, Pub!PubSpec

-----------------------------------------------------------------------------
(* No workflow is stranded: what RunCloses needs besides fairness.         *)

\* How far the code of an attempt gets, by its position.
Phased ==
  \A s \in Steps, n \in Attempts :
    \/ at[<<s, n>>] \in {"idle", "begin", "returned", "raised"}
    \/ s \in StatusSteps /\ at[<<s, n>>] \in {"read", "saved"}
    \/ s = Register /\ at[<<s, n>>] \in {"inserted", "read"}

\* The guard of the step that attempt n at s takes next holds.
MayProceed(s, n) ==
  \/ s \in StatusSteps /\ at[<<s, n>>] \in {"begin", "read", "saved"}
  \/ s = Apply /\ at[<<s, n>>] = "begin"
  \/ s = Register /\ at[<<s, n>>] \in {"begin", "inserted", "read"}

\* An open workflow waits for an attempt that has ended or can go on.
NotStranded ==
  Open => OnActivity /\ (at[Current] \in {"returned", "raised"} \/ MayProceed(wf.pc, wf.n))

\* Every step leaves each attempt in a phase its code goes on from.
LEMMA PhasedNext == PertInv /\ Phased /\ [Next]_vars => Phased'
<1> SUFFICES ASSUME PertInv, Phased, [Next]_vars,
                    NEW t \in Steps, NEW k \in Attempts
             PROVE  \/ at'[<<t, k>>] \in {"idle", "begin", "returned", "raised"}
                    \/ t \in StatusSteps /\ at'[<<t, k>>] \in {"read", "saved"}
                    \/ t = Register /\ at'[<<t, k>>] \in {"inserted", "read"}
  BY DEF Phased
<1>1. CASE UNCHANGED vars
  BY <1>1 DEF vars, Phased
<1>2. CASE ServerStep
  <2>1. EngineTypeOK /\ Position /\ Started /\ Shapes /\ <<t, k>> \in Ids
    BY <1>2, ServerShapes, Numbers DEF PertInv, TypeOK
  <2>2. at'[<<t, k>>] = at[<<t, k>>] \/ at'[<<t, k>>] \in {"begin", "raised"}
    BY <2>1, ShapesSlots
  <2> QED
    BY <2>2 DEF Phased
<1>3. ASSUME NEW s \in Steps, NEW n \in Attempts, ActivityStep(s, n)
      PROVE  \/ at'[<<t, k>>] \in {"idle", "begin", "returned", "raised"}
             \/ t \in StatusSteps /\ at'[<<t, k>>] \in {"read", "saved"}
             \/ t = Register /\ at'[<<t, k>>] \in {"inserted", "read"}
  <2>1. at \in [Ids -> Phases] /\ <<s, n>> \in Ids /\ <<t, k>> \in Ids
    BY Numbers DEF PertInv, TypeOK, EngineTypeOK
  <2>2. PICK x \in {"read", "saved", "inserted", "returned"} : at' = [at EXCEPT ![<<s, n>>] = x]
    BY <1>3, WorkerEffect
  <2>3. \/ at'[<<s, n>>] = "returned"
        \/ s \in StatusSteps /\ at'[<<s, n>>] \in {"read", "saved"}
        \/ s = Register /\ at'[<<s, n>>] \in {"inserted", "read"}
    BY <1>3, <2>1 DEF ActivityStep, ReadJob, SaveStatus, Publish, ApplyPerturbation,
       InsertVersion, ReadForStamp, StampResult
  <2>4. CASE <<t, k>> = <<s, n>>
    BY <2>3, <2>4
  <2>5. CASE <<t, k>> # <<s, n>>
    <3>1. at'[<<t, k>>] = at[<<t, k>>]
      BY <2>1, <2>2, <2>5
    <3> QED
      BY <3>1 DEF Phased
  <2> QED
    BY <2>4, <2>5
<1> QED
  BY <1>1, <1>2, <1>3, NextCases

\* A perturbation request is never stranded: an open workflow has an outcome to
\* take up, or the attempt it waits for can go on, whether or not the gateway's
\* row is there.
THEOREM NeverStranded == Spec => []NotStranded
<1>1. Init => Phased
  BY Numbers DEF Init, EngineInit, Phased
<1>2. PertInv /\ Phased => NotStranded
  <2> SUFFICES ASSUME PertInv, Phased, Open
               PROVE  OnActivity /\ (at[Current] \in {"returned", "raised"} \/ MayProceed(wf.pc, wf.n))
    BY DEF NotStranded
  <2>1. wf.pc \in Steps /\ wf.n \in Attempts /\ at[<<wf.pc, wf.n>>] # "idle"
    BY Numbers DEF PertInv, TypeOK, EngineTypeOK, Position, Started, Open
  <2>2. \/ at[<<wf.pc, wf.n>>] \in {"begin", "returned", "raised"}
        \/ wf.pc \in StatusSteps /\ at[<<wf.pc, wf.n>>] \in {"read", "saved"}
        \/ wf.pc = Register /\ at[<<wf.pc, wf.n>>] \in {"inserted", "read"}
    BY <2>1 DEF Phased
  <2>3. wf.pc \in StatusSteps \cup {Apply, Register}
    BY <2>1, Numbers
  <2>4. at[<<wf.pc, wf.n>>] \in {"returned", "raised"} \/ MayProceed(wf.pc, wf.n)
    BY <2>2, <2>3 DEF MayProceed
  <2> QED
    BY <2>1, <2>4 DEF OnActivity, Current
<1> QED
  BY <1>1, <1>2, InvHolds, PhasedNext, PTL DEF Spec
=============================================================================
