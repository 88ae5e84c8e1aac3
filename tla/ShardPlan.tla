------------------------------ MODULE ShardPlan -----------------------------
(***************************************************************************)
(* plan_shards: the while loop that splits target_rows into contiguous     *)
(* [start, count] chunks of at most shard_rows rows.  Every later step     *)
(* trusts the plan: a shard's rows and its random seed are functions of    *)
(* its start, its count and its index.                                     *)
(***************************************************************************)
EXTENDS Integers, Sequences

CONSTANTS Targets,  \* values of inp.target_rows
          Sizes     \* shard_rows of the modality handlers, and _SHARD_ROWS

ASSUME TargetsAssumption == Targets \subseteq Int
ASSUME SizesAssumption == Sizes \subseteq Nat \ {0}

VARIABLES pc, target, size, start, remaining, shards

vars == <<pc, target, size, start, remaining, shards>>

Shard == [start : Nat, count : Nat]

TypeOK ==
  /\ pc \in {"loop", "done"}
  /\ target \in Targets
  /\ size \in Sizes
  /\ start \in Nat
  /\ remaining \in Int
  /\ shards \in Seq(Shard)

Init ==
  /\ pc = "loop"
  /\ target \in Targets
  /\ size \in Sizes
  /\ start = 0
  /\ remaining = target
  /\ shards = <<>>

\* Mutant: every chunk has shard_rows rows.
ChunkFullSize ==
  /\ pc = "loop"
  /\ remaining > 0
  /\ shards' = Append(shards, [start |-> start, count |-> size])
  /\ start' = start + size
  /\ remaining' = remaining - size
  /\ UNCHANGED <<pc, target, size>>

\* One iteration: count = min(shard_rows, remaining).
Chunk ==
  /\ pc = "loop"
  /\ remaining > 0
  /\ LET count == IF size < remaining THEN size ELSE remaining
     IN /\ shards' = Append(shards, [start |-> start, count |-> count])
        /\ start' = start + count
        /\ remaining' = remaining - count
  /\ UNCHANGED <<pc, target, size>>

\* return shards or [[0, 0]]
Finish ==
  /\ pc = "loop"
  /\ remaining <= 0
  /\ pc' = "done"
  /\ shards' = IF shards = <<>> THEN <<[start |-> 0, count |-> 0]>> ELSE shards
  /\ UNCHANGED <<target, size, start, remaining>>

Next == Chunk \/ Finish

Spec == Init /\ [][Next]_vars

-----------------------------------------------------------------------------
(* Properties.                                                             *)

Holds(sh, r) == sh.start <= r /\ r < sh.start + sh.count

\* Every row index below the target is generated by exactly one shard, and no
\* shard reaches beyond the target.
EveryRowOnce ==
  pc = "done" =>
    /\ \A r \in 0..(target - 1) : \E i \in DOMAIN shards :
         /\ Holds(shards[i], r)
         /\ \A j \in DOMAIN shards : Holds(shards[j], r) => j = i
    /\ \A i \in DOMAIN shards :
         shards[i].count # 0 => shards[i].start + shards[i].count <= target

\* Shards are cut in order, never longer than shard_rows, and only the last one
\* may be shorter: shard i starts at i * shard_rows.
CutToSize ==
  \A i \in DOMAIN shards :
    /\ shards[i].count <= size
    /\ i < Len(shards) => shards[i].count = size
    /\ i < Len(shards) => shards[i + 1].start = shards[i].start + size

\* generate_shards and assemble get at least one shard, also for a target of
\* zero or less, and an empty shard is planned in no other case.
PlanNeverEmpty ==
  pc = "done" =>
    /\ shards # <<>>
    /\ (\E i \in DOMAIN shards : shards[i].count = 0) <=> target <= 0
=============================================================================
