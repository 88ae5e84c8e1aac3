--------------------------- MODULE Media_proofs ----------------------------
(***************************************************************************)
(* Proofs about plan_shards and about the shards, clips and datasets made  *)
(* after its plan, for every set of targets and of shard sizes, and any    *)
(* number of attempts, configurations, replies and polls.                  *)
(***************************************************************************)
EXTENDS Media, TLAPS, FiniteSetTheorems, WellFoundedInduction

IsSeq(s) == \E S : s \in Seq(S)

-----------------------------------------------------------------------------
(* The plan.                                                               *)

\* The bookkeeping of the loop's two counters.
Sums ==
  /\ start + remaining = target
  /\ remaining < 0 => shards = <<>>

\* The chunks end at or before start, the last of them exactly there, and all
\* have the full size as long as rows remain.
Chunks ==
  /\ shards = <<>> => start = 0
  /\ shards # <<>> =>
       shards[Len(shards)].start + shards[Len(shards)].count = start
  /\ \A i \in DOMAIN shards :
       /\ shards[i].count > 0
       /\ shards[i].start + shards[i].count <= start
       /\ remaining > 0 => shards[i].count = size

\* Each row below start lies in exactly one chunk.
Tiled ==
  \A r \in 0..(start - 1) : \E i \in DOMAIN shards :
    /\ Holds(shards[i], r)
    /\ \A j \in DOMAIN shards : Holds(shards[j], r) => j = i

LoopInv == pc = "loop" => Sums /\ Chunks /\ Tiled

PlanInv ==
  /\ TypeOK
  /\ LoopInv
  /\ CutToSize
  /\ EveryRowOnce
  /\ PlanNeverEmpty

\* The plan begins at row 0 and ends at the target.
Anchored ==
  /\ shards # <<>> => shards[1].start = 0
  /\ pc = "done" =>
       shards[Len(shards)].start + shards[Len(shards)].count = IF target > 0 THEN target ELSE 0

-----------------------------------------------------------------------------
(* The attempts, the objects and the assembly.                             *)

\* Rows that passed, no two with one key.
KeptRows(rows, count) ==
  /\ rows \in Seq(Row) /\ Len(rows) <= count
  /\ \A j \in DOMAIN rows : rows[j].key > 0
  /\ \A j, k \in DOMAIN rows : rows[j].key = rows[k].key => j = k

Running == {"shard", "text", "poll", "download", "clips"}

\* The phases of an attempt of modality m.
InPhase(m, at) ==
  /\ at \in {"off", "raised", "done"} \cup Running
  /\ at = "text" => m = "text"
  /\ at = "clips" => m \in {"audio", "video"}
  /\ at \in {"poll", "download"} => m = "video"

\* An item of index x, and what of it does not depend on the attempt.
Made(m, item, x) ==
  /\ item.index = x
  /\ m \in {"audio", "video"} => item.seed = x
  /\ m = "audio" => item.by = "none"
  /\ m = "video" => item.fmt = "mp4"

\* The first items of a shard, and all of them.
Partly(m, cut, s) ==
  /\ IsSeq(s) /\ Len(s) <= cut.count
  /\ \A j \in DOMAIN s : Made(m, s[j], cut.start + j - 1)

Filled(m, cut, s) == Partly(m, cut, s) /\ Len(s) = cut.count

\* What is left of s when its first items are done.
Suffix(u, s) ==
  IsSeq(u) /\ Len(u) <= Len(s) /\ \A k \in DOMAIN u : u[k] = s[Len(s) - Len(u) + k]

DoneOf(u, s) == 1..(Len(s) - Len(u))

KeyOf(item) == <<"clip", item.index, item.fmt>>

\* The record of an attempt has these fields.
Rec(at, lost, by, i, items, todo, calls, polls, short) ==
  [at |-> at, lost |-> lost, by |-> by, i |-> i, items |-> items, todo |-> todo,
   calls |-> calls, polls |-> polls, short |-> short]

IsTry(t) == t = Rec(t.at, t.lost, t.by, t.i, t.items, t.todo, t.calls, t.polls, t.short)

\* An attempt's own variables.
TryWell(m, sh, t) ==
  /\ IsTry(t)
  /\ InPhase(m, t.at) /\ t.lost \in BOOLEAN
  /\ t.at = "off" => t = Fresh
  /\ t.i \in 1..(Len(sh) + 1)
  /\ t.at \in Running => t.i \in DOMAIN sh
  /\ t.at = "done" => t.i = Len(sh) + 1
  /\ m # "text" /\ t.at \in {"shard", "poll", "download"} => Partly(m, sh[t.i], t.items)
  /\ t.at \in {"poll", "download"} => Len(t.items) < sh[t.i].count
  /\ t.at = "clips" => Filled(m, sh[t.i], t.items) /\ Suffix(t.todo, t.items)
  /\ m = "video" => \A j \in DOMAIN t.items : t.items[j].by = t.by

\* The objects hold what their keys say, and a fragment's clips are stored.
StoreWell(m, sh, st) ==
  \A k \in DOMAIN st :
    /\ k[1] = "shard" /\ m # "text" => k[2] \in DOMAIN sh /\ Filled(m, sh[k[2]], st[k])
    /\ k[1] = "shard" /\ m \in {"audio", "video"} => \A j \in DOMAIN st[k] : KeyOf(st[k][j]) \in DOMAIN st
    /\ k[1] = "clip" /\ m \in {"audio", "video"} => Made(m, st[k][1], k[2])

\* The objects an attempt has written.
Written(st, t) ==
  /\ \A i \in 1..(t.i - 1) : ShardKey(i) \in DOMAIN st
  /\ t.at = "clips" => \A k \in DoneOf(t.todo, t.items) : KeyOf(t.items[k]) \in DOMAIN st

\* Before an attempt starts the earlier ones have raised or were given up.
Ordered(ts) ==
  \A n \in Tries : ts[n].at # "off" =>
    \A k \in Tries : k < n => ts[k].at # "off" /\ (ts[k].at = "raised" \/ ts[k].lost)

Latest(ts, n) == ts[n].at # "off" /\ \A k \in Tries : k > n => ts[k].at = "off"

\* The configuration changed while an abandoned attempt may still write.
Mixed(ts, ch) == ch /\ \E n \in Tries : ts[n].lost

OneConfig(ts, ch, c) == ~ch => \A n \in Tries : ts[n].at # "off" => ts[n].by = c

\* The fragment and the clips of shard i were made with configuration by.
OneBy(sh, st, i, by) ==
  /\ \A j \in DOMAIN st[ShardKey(i)] : st[ShardKey(i)][j].by = by
  /\ \A x \in sh[i].start..(sh[i].start + sh[i].count - 1) : st[<<"clip", x, "mp4">>][1].by = by

\* All that the latest attempt has written is still made with its configuration.
Coherent(sh, ts, ch, st) ==
  ~Mixed(ts, ch) =>
    \A n \in Tries : Latest(ts, n) =>
      /\ \A i \in 1..(ts[n].i - 1) : OneBy(sh, st, i, ts[n].by)
      /\ ts[n].at = "clips" =>
           \A k \in DoneOf(ts[n].todo, ts[n].items) : st[KeyOf(ts[n].items[k])][1].by = ts[n].by

Attempts ==
  /\ pc = "loop" => tries = [n \in Tries |-> Fresh] /\ DOMAIN store = {} /\ asm.at = "off"
  /\ modality \in Modalities /\ changed \in BOOLEAN
  /\ tries = [n \in Tries |-> tries[n]]
  /\ \A n \in Tries : TryWell(modality, shards, tries[n]) /\ Written(store, tries[n])
  /\ Ordered(tries)
  /\ OneConfig(tries, changed, config)

Objects ==
  /\ StoreWell(modality, shards, store)
  /\ modality = "video" => Coherent(shards, tries, changed, store)

\* The rows of the shards before shard j.
RowsBefore(sh, j) ==
  IF j <= Len(sh) THEN sh[j].start ELSE sh[Len(sh)].start + sh[Len(sh)].count

OutKey == IF modality = "tabular" THEN ArtifactKey ELSE ManifestKey

\* The record of the assembly has these fields.
IsAsm(a) == a = [at |-> a.at, j |-> a.j, items |-> a.items, todo |-> a.todo]

\* The rows that were read have the first indices in order, and clips.
Gathered ==
  /\ IsSeq(asm.items) /\ Len(asm.items) = RowsBefore(shards, asm.j)
  /\ \A k \in DOMAIN asm.items : Made(modality, asm.items[k], k - 1)
  /\ modality \in {"audio", "video"} => \A k \in DOMAIN asm.items : KeyOf(asm.items[k]) \in DOMAIN store
  /\ modality = "video" /\ ~Mixed(tries, changed) =>
       \A n \in Tries : tries[n].at = "done" => \A k \in DOMAIN asm.items : asm.items[k].by = tries[n].by

Unpacked(k) == KeyOf(asm.items[k]) \in DOMAIN store /\ store[KeyOf(asm.items[k])] = <<asm.items[k]>>

Assembled ==
  /\ IsAsm(asm)
  /\ asm.at \in {"off", "read", "unpack", "written", "done"}
  /\ asm.j \in 1..(Len(shards) + 1)
  /\ asm.at = "off" => asm.j = 1 /\ asm.items = <<>>
  /\ asm.at # "off" => Returned /\ \A i \in DOMAIN shards : ShardKey(i) \in DOMAIN store
  /\ asm.at \in {"unpack", "written", "done"} => asm.j = Len(shards) + 1
  /\ asm.at = "unpack" => modality = "image" /\ Suffix(asm.todo, asm.items)
                          /\ \A k \in DoneOf(asm.todo, asm.items) : Unpacked(k)
  /\ asm.at = "written" => modality = "text"
  /\ asm.at = "done" /\ modality # "text" =>
       /\ OutKey \in DOMAIN store /\ store[OutKey] = asm.items
       /\ modality = "image" => \A k \in DOMAIN asm.items : Unpacked(k)
  /\ modality # "text" /\ asm.at # "off" => Gathered

\* len rows and short missing ones make up for the calls so far, or the count.
MadeUp(len, short, count, calls) ==
  /\ short \in Int
  /\ BatchSize >= 0 => short >= 0 /\ (len + short >= count \/ len + short >= BatchSize * calls)
  /\ BatchSize < 0 => len + short >= BatchSize * calls

\* The rows an attempt at a text shard has so far, and what the replies so far
\* may have brought at most.
TryText(sh, names, t) ==
  /\ t.at = "shard" => t.items = <<>> /\ t.calls = 0 /\ t.short = 0
  /\ t.at = "text" =>
       /\ KeptRows(t.items, sh[t.i].count)
       /\ t.calls \in 0..MaxAttempts
       /\ MadeUp(Len(t.items), t.short, sh[t.i].count, t.calls)
       /\ PrimaryField(names) # "none"

TextWell ==
  modality = "text" => fields \in Fields /\ \A n \in Tries : TryText(shards, fields, tries[n])

MediaInv == PlanInv /\ Anchored /\ Attempts /\ Objects /\ Assembled /\ TextWell


-----------------------------------------------------------------------------
(* The steps of attempt n: u is its record after the step.                 *)

With(ts, n, u) == [k \in Tries |-> IF k = n THEN u ELSE ts[k]]

Put(st, key, value) == [k \in DOMAIN st \cup {key} |-> IF k = key THEN value ELSE st[k]]

\* What every step of an attempt does.
Steps(n, u) ==
  /\ Frame /\ pc = "done"
  /\ tries' = With(tries, n, u)
  /\ TryWell(modality, shards, u)
  /\ modality = "text" => TryText(shards, fields, u)
  /\ tries[n].at \notin {"raised", "done"} /\ u.at # "off"
  /\ tries[n].lost => u.lost
  /\ tries[n].at = "off" =>
       /\ u.by = config
       /\ \A k \in Tries : k < n => tries[k].at # "off" /\ (tries[k].at = "raised" \/ tries[k].lost)
  /\ tries[n].at # "off" => u.by = tries[n].by

\* The store stays as it is.
GoesOn(n, u) ==
  /\ Steps(n, u) /\ store' = store
  /\ u.i = tries[n].i
  /\ u.at = "clips" => \/ u.todo = u.items
                       \/ tries[n].at = "clips" /\ u.items = tries[n].items /\ u.todo = tries[n].todo

\* The object of a shard is written.
StoresShard(n, u, value) ==
  /\ Steps(n, u) /\ store' = Put(store, ShardKey(tries[n].i), value)
  /\ tries[n].at \in Running
  /\ u.i = tries[n].i + 1 /\ u.at \in {"shard", "done"}
  /\ modality \in {"tabular", "image"} => Filled(modality, shards[tries[n].i], value)
  /\ modality \in {"audio", "video"} =>
       tries[n].at = "clips" /\ tries[n].todo = <<>> /\ value = tries[n].items

\* A clip is written.
StoresClip(n, u) ==
  /\ Steps(n, u) /\ store' = Put(store, KeyOf(Head(tries[n].todo)), <<Head(tries[n].todo)>>)
  /\ tries[n].at = "clips" /\ tries[n].todo # <<>>
  /\ u.at = "clips" /\ u.i = tries[n].i /\ u.items = tries[n].items /\ u.todo = Tail(tries[n].todo)

Kinds(n) ==
  \/ \E u : GoesOn(n, u)
  \/ \E u, value : StoresShard(n, u, value)
  \/ \E u : StoresClip(n, u)

-----------------------------------------------------------------------------
(* Sequences and folds.                                                    *)

\* A set of natural numbers has a least element.
LEMMA LeastElement ==
    ASSUME NEW T, T \subseteq Nat, T # {}
    PROVE  \E x \in T : \A y \in T : x <= y
<1> DEFINE R == OpToRel(<, Nat)
<1>1. IsWellFoundedOn(R, Nat)
  BY NatLessThanWellFounded, Zenon
<1>2. \A x, y \in Nat : <<y, x>> \in R <=> y < x
  BY DEF OpToRel
<1> HIDE DEF R
<1>3. \E x \in T : \A y \in T : ~(<<y, x>> \in R)
  BY <1>1, WFMin
<1>4. PICK x \in T : \A y \in T : ~(<<y, x>> \in R)
  BY <1>3
<1>5. \A y \in T : ~(y < x)
  BY <1>2, <1>4
<1>6. \A y \in T : x <= y
  BY <1>5
<1> QED
  BY <1>6

\* Induction over natural numbers, with the property as a set.
LEMMA NatSteps ==
    ASSUME NEW Good, 0 \in Good, \A n \in Nat : n \in Good => n + 1 \in Good
    PROVE  Nat \subseteq Good
<1> SUFFICES ASSUME Nat \ Good # {} PROVE FALSE
  OBVIOUS
<1>1. PICK x \in Nat \ Good : \A y \in Nat \ Good : x <= y
  BY LeastElement
<1>2. x # 0 /\ x - 1 \in Nat
  OBVIOUS
<1>3. x - 1 \in Good
  BY <1>1, <1>2
<1> QED
  BY <1>2, <1>3

\* A nonempty set of positions has a greatest one.
LEMMA MaxIsIn ==
    ASSUME NEW n \in Nat, NEW s \in SUBSET (1..n), s # {}
    PROVE  Max(s) \in s /\ \A y \in s : Max(s) >= y
<1> DEFINE T == {n - x : x \in s}
<1>1. T \subseteq Nat /\ T # {}
  <2>1. \A x \in s : x \in 1..n /\ n - x \in Nat
    OBVIOUS
  <2>2. T \subseteq Nat
    BY <2>1
  <2>3. T # {}
    OBVIOUS
  <2> QED
    BY <2>2, <2>3
<1>2. PICK t \in T : \A y \in T : t <= y
  BY <1>1, LeastElement
<1>3. PICK x \in s : t = n - x
  OBVIOUS
<1>4. \A y \in s : x >= y
  <2> SUFFICES ASSUME NEW y \in s PROVE x >= y
    OBVIOUS
  <2>1. n - y \in T
    OBVIOUS
  <2>2. n - x <= n - y
    BY <1>2, <1>3, <2>1
  <2>3. x \in 1..n /\ y \in 1..n
    OBVIOUS
  <2> HIDE DEF T
  <2> QED
    BY <2>2, <2>3
<1> HIDE DEF T
<1> QED
  BY <1>4 DEF Max

LEMMA WithoutMax ==
    ASSUME NEW m \in Nat, NEW s \in SUBSET (1..(m + 1)), s # {}
    PROVE  s \ {Max(s)} \in SUBSET (1..m)
<1>1. Max(s) \in s /\ \A y \in s : Max(s) >= y
  <2>1. m + 1 \in Nat
    OBVIOUS
  <2> QED
    BY <2>1, MaxIsIn
<1> SUFFICES ASSUME NEW y \in s, y # Max(s) PROVE y \in 1..m
  OBVIOUS
<1>2. Max(s) \in 1..(m + 1) /\ y \in 1..(m + 1) /\ Max(s) >= y
  BY <1>1
<1> QED
  BY <1>2

\* I folds the positions 1..n with the steps h.
FoldsUp(I, n, base, h) ==
  I = [s \in SUBSET (1..n) |-> IF s = {} THEN base ELSE h[<<I[s \ {Max(s)}], Max(s)>>]]

\* The recursion has a solution, if each step stays within a set.
LEMMA FoldExists ==
    ASSUME NEW n \in Nat, NEW T, NEW base \in T, NEW h \in [T \X (1..n) -> T]
    PROVE  \E I : FoldsUp(I, n, base, h)
<1> DEFINE Body(g, m) == [s \in SUBSET (1..m) |->
                            IF s = {} THEN base ELSE h[<<g[s \ {Max(s)}], Max(s)>>]]
           Good == {m \in Nat : \E g : g = Body(g, m)}
<1>1. 0 \in Good
  <2> DEFINE g == [s \in SUBSET (1..0) |-> base]
  <2>1. g = Body(g, 0)
    OBVIOUS
  <2> QED
    BY <2>1
<1>2. ASSUME NEW m \in Nat, m \in Good
      PROVE  m + 1 \in Good
  <2>1. PICK f : f = Body(f, m)
    BY <1>2
  <2> DEFINE g == [s \in SUBSET (1..(m + 1)) |->
                     IF s \in SUBSET (1..m) THEN f[s] ELSE h[<<f[s \ {Max(s)}], Max(s)>>]]
  <2>2. ASSUME NEW s \in SUBSET (1..(m + 1)), s # {}
        PROVE  s \ {Max(s)} \in SUBSET (1..m)
    BY <2>2, WithoutMax
  <2>3. ASSUME NEW s \in SUBSET (1..(m + 1))
        PROVE  g[s] = IF s = {} THEN base ELSE h[<<g[s \ {Max(s)}], Max(s)>>]
    <3>1. CASE s = {}
      BY <2>1, <3>1
    <3>2. CASE s # {}
      <4>1. g[s \ {Max(s)}] = f[s \ {Max(s)}]
        BY <2>2, <3>2
      <4>2. g[s] = h[<<f[s \ {Max(s)}], Max(s)>>]
        BY <2>1, <3>2
      <4> HIDE DEF g
      <4> QED
        BY <3>2, <4>1, <4>2
    <3> QED
      BY <3>1, <3>2
  <2>4. g = Body(g, m + 1)
    BY <2>3
  <2>5. \E q : q = Body(q, m + 1)
    <3> HIDE DEF Body, g
    <3> QED
      BY <2>4
  <2> HIDE DEF Body
  <2> QED
    BY <2>5
<1>3. n \in Good
  <2> HIDE DEF Good
  <2> QED
    BY <1>1, <1>2, NatSteps
<1> QED
  BY <1>3 DEF FoldsUp

\* What holds at first and is kept by every step holds of every part.
LEMMA FoldStays ==
    ASSUME NEW n \in Nat, NEW F, NEW T, F[{}] \in T,
           \A s \in SUBSET (1..n) : s # {} /\ F[s \ {Max(s)}] \in T => F[s] \in T
    PROVE  \A s \in SUBSET (1..n) : F[s] \in T
<1> DEFINE Good == {m \in Nat : \A s \in SUBSET (1..n) : s \subseteq 1..m => F[s] \in T}
<1>1. 0 \in Good
  <2>1. \A s \in SUBSET (1..n) : s \subseteq 1..0 => s = {}
    OBVIOUS
  <2> QED
    BY <2>1
<1>2. ASSUME NEW m \in Nat, m \in Good
      PROVE  m + 1 \in Good
  <2> SUFFICES ASSUME NEW s \in SUBSET (1..n), s \subseteq 1..(m + 1) PROVE F[s] \in T
    OBVIOUS
  <2>1. CASE s = {}
    BY <2>1
  <2>2. CASE s # {}
    <3>1. s \ {Max(s)} \in SUBSET (1..n) /\ s \ {Max(s)} \subseteq 1..m
      BY <2>2, WithoutMax
    <3> QED
      BY <1>2, <2>2, <3>1
  <2> QED
    BY <2>1, <2>2
<1>3. n \in Good
  <2> HIDE DEF Good
  <2> QED
    BY <1>1, <1>2, NatSteps
<1> QED
  BY <1>3

LEMMA SeqParts ==
    ASSUME NEW s, IsSeq(s)
    PROVE  Len(s) \in Nat /\ DOMAIN s = 1..Len(s)
  BY DEF IsSeq

LEMMA EmptySeqIs == IsSeq(<<>>)
<1>1. <<>> \in Seq({})
  OBVIOUS
<1> QED
  BY <1>1 DEF IsSeq

-----------------------------------------------------------------------------
(* plan_shards.                                                            *)

\* Before the first iteration nothing is cut and all rows remain.
LEMMA PlanInit == Init => PlanInv
<1> SUFFICES ASSUME Init PROVE PlanInv
  OBVIOUS
<1>1. TypeOK
  BY TargetsAssumption DEF Init, TypeOK
<1>2. LoopInv
  BY TargetsAssumption DEF Init, LoopInv, Sums, Chunks, Tiled, Holds
<1>3. CutToSize /\ EveryRowOnce /\ PlanNeverEmpty
  BY DEF Init, CutToSize, EveryRowOnce, PlanNeverEmpty
<1> QED
  BY <1>1, <1>2, <1>3 DEF PlanInv

\* One iteration of the while loop preserves the invariant.
LEMMA PlanChunk == PlanInv /\ Chunk => PlanInv'
<1> SUFFICES ASSUME PlanInv, Chunk PROVE PlanInv'
  OBVIOUS
<1> DEFINE count == IF size < remaining THEN size ELSE remaining
           cut == [start |-> start, count |-> count]
<1>1. /\ pc = "loop" /\ pc' = pc /\ target' = target /\ size' = size
      /\ remaining > 0
      /\ shards' = Append(shards, cut)
      /\ start' = start + count
      /\ remaining' = remaining - count
  BY DEF Chunk
<1>2. /\ target \in Int /\ size \in Nat \ {0} /\ start \in Nat
      /\ remaining \in Int /\ shards \in Seq(Shard)
  BY TargetsAssumption, SizesAssumption DEF PlanInv, TypeOK
<1>3. /\ count \in Nat \ {0} /\ count <= size /\ count <= remaining
      /\ remaining - count > 0 => count = size
  BY <1>1, <1>2
<1>4. cut \in Shard /\ cut.start = start /\ cut.count = count
  BY <1>2, <1>3 DEF Shard
<1> HIDE DEF count, cut
<1>5. /\ Len(shards') = Len(shards) + 1
      /\ Len(shards) \in Nat
      /\ DOMAIN shards = 1..Len(shards)
      /\ DOMAIN shards' = 1..(Len(shards) + 1)
      /\ \A i \in DOMAIN shards : shards'[i] = shards[i] /\ shards[i] \in Shard
      /\ shards'[Len(shards) + 1] = cut
      /\ shards' \in Seq(Shard)
  BY <1>1, <1>2, <1>4
<1>6. /\ start + remaining = target
      /\ shards = <<>> => start = 0
      /\ shards # <<>> =>
           shards[Len(shards)].start + shards[Len(shards)].count = start
      /\ \A i \in DOMAIN shards :
           /\ shards[i].count = size
           /\ shards[i].count > 0
           /\ shards[i].start + shards[i].count <= start
  BY <1>1 DEF PlanInv, LoopInv, Sums, Chunks
<1>7. TypeOK'
  BY <1>1, <1>2, <1>3, <1>5 DEF PlanInv, TypeOK
<1>8. Sums'
  BY <1>1, <1>2, <1>3, <1>6 DEF Sums
<1>9. Chunks'
  <2>1. shards' # <<>>
    BY <1>5
  <2>2. shards'[Len(shards')].start + shards'[Len(shards')].count = start'
    BY <1>1, <1>4, <1>5
  <2>3. ASSUME NEW i \in DOMAIN shards'
        PROVE  /\ shards'[i].count > 0
               /\ shards'[i].start + shards'[i].count <= start'
               /\ remaining' > 0 => shards'[i].count = size'
    <3>1. CASE i \in DOMAIN shards
      BY <3>1, <1>1, <1>2, <1>3, <1>5, <1>6 DEF Shard
    <3>2. CASE i = Len(shards) + 1
      BY <3>2, <1>1, <1>2, <1>3, <1>4, <1>5
    <3> QED
      BY <3>1, <3>2, <1>5
  <2> QED
    BY <2>1, <2>2, <2>3 DEF Chunks
<1>10. Tiled'
  <2> SUFFICES ASSUME NEW r \in 0..(start' - 1)
               PROVE  \E i \in DOMAIN shards' :
                        /\ Holds(shards'[i], r)
                        /\ \A j \in DOMAIN shards' : Holds(shards'[j], r) => j = i
    BY DEF Tiled
  <2>1. CASE r < start
    <3>1. r \in 0..(start - 1)
      BY <2>1, <1>1, <1>2, <1>3
    <3>2. PICK i \in DOMAIN shards :
            /\ Holds(shards[i], r)
            /\ \A j \in DOMAIN shards : Holds(shards[j], r) => j = i
      BY <3>1, <1>1 DEF PlanInv, LoopInv, Tiled
    <3>3. ~Holds(cut, r)
      BY <2>1, <1>2, <1>4, <3>1 DEF Holds
    <3>4. ASSUME NEW j \in DOMAIN shards', Holds(shards'[j], r) PROVE j = i
      BY <3>2, <3>3, <3>4, <1>5
    <3> QED
      BY <3>2, <3>4, <1>5
  <2>2. CASE r >= start
    <3>1. Holds(cut, r)
      BY <2>2, <1>1, <1>2, <1>3, <1>4 DEF Holds
    <3>2. ASSUME NEW j \in DOMAIN shards PROVE ~Holds(shards[j], r)
      BY <2>2, <1>2, <1>5, <1>6 DEF Holds, Shard
    <3> QED
      BY <3>1, <3>2, <1>5
  <2> QED
    BY <2>1, <2>2, <1>1, <1>2, <1>3
<1>11. CutToSize'
  <2> SUFFICES ASSUME NEW i \in DOMAIN shards'
               PROVE  /\ shards'[i].count <= size
                      /\ i < Len(shards') =>
                           /\ shards'[i].count = size
                           /\ shards'[i + 1].start = shards'[i].start + size
    BY <1>1 DEF CutToSize
  <2>1. CASE i = Len(shards) + 1
    BY <2>1, <1>3, <1>4, <1>5
  <2>2. CASE i = Len(shards)
    BY <2>2, <1>2, <1>4, <1>5, <1>6 DEF Shard
  <2>3. CASE i < Len(shards)
    <3>1. i \in DOMAIN shards /\ i + 1 \in DOMAIN shards
      BY <2>3, <1>5
    <3> QED
      BY <3>1, <2>3, <1>2, <1>5, <1>6 DEF PlanInv, CutToSize
  <2> QED
    BY <2>1, <2>2, <2>3, <1>5
<1> QED
  BY <1>1, <1>7, <1>8, <1>9, <1>10, <1>11
     DEF PlanInv, LoopInv, EveryRowOnce, PlanNeverEmpty

\* Returning the plan, or [[0, 0]] for an empty one, establishes the promises.
LEMMA PlanFinish == PlanInv /\ Finish => PlanInv'
<1> SUFFICES ASSUME PlanInv, Finish PROVE PlanInv'
  OBVIOUS
<1>1. /\ pc = "loop" /\ pc' = "done" /\ target' = target /\ size' = size
      /\ start' = start /\ remaining' = remaining /\ remaining <= 0
      /\ shards' = IF shards = <<>> THEN <<[start |-> 0, count |-> 0]>> ELSE shards
  BY DEF Finish
<1>2. /\ target \in Int /\ size \in Nat \ {0} /\ start \in Nat
      /\ remaining \in Int /\ shards \in Seq(Shard)
  BY TargetsAssumption, SizesAssumption DEF PlanInv, TypeOK
<1>3. Sums /\ Chunks /\ Tiled
  BY <1>1 DEF PlanInv, LoopInv
<1>4. LoopInv'
  BY <1>1 DEF LoopInv
<1>5. CASE shards = <<>>
  <2>1. /\ shards' = <<[start |-> 0, count |-> 0]>>
        /\ DOMAIN shards' = {1} /\ Len(shards') = 1
        /\ shards'[1].start = 0 /\ shards'[1].count = 0
        /\ shards' \in Seq(Shard)
    BY <1>1, <1>5 DEF Shard
  <2>2. target <= 0
    BY <1>1, <1>2, <1>3, <1>5 DEF Sums, Chunks
  <2>3. TypeOK'
    BY <1>1, <1>2, <2>1 DEF PlanInv, TypeOK
  <2>4. CutToSize'
    BY <1>1, <1>2, <2>1 DEF CutToSize
  <2>5. EveryRowOnce'
    BY <1>1, <1>2, <2>1, <2>2 DEF EveryRowOnce
  <2>6. PlanNeverEmpty'
    BY <1>1, <2>1, <2>2 DEF PlanNeverEmpty
  <2> QED
    BY <1>4, <2>3, <2>4, <2>5, <2>6 DEF PlanInv
<1>6. CASE shards # <<>>
  <2>1. shards' = shards
    BY <1>1, <1>6
  <2>2. remaining = 0 /\ start = target
    BY <1>1, <1>2, <1>3, <1>6 DEF Sums
  <2>3. DOMAIN shards = 1..Len(shards) /\ Len(shards) \in Nat \ {0}
        /\ \A i \in DOMAIN shards : shards[i] \in Shard
    BY <1>2, <1>6
  <2>4. target > 0
    <3>1. /\ shards[Len(shards)].count > 0
          /\ shards[Len(shards)].start + shards[Len(shards)].count = start
          /\ shards[Len(shards)] \in Shard
      BY <1>3, <1>6, <2>3 DEF Chunks
    <3> QED
      BY <3>1, <2>2 DEF Shard
  <2>5. TypeOK' /\ CutToSize'
    BY <1>1, <2>1 DEF PlanInv, TypeOK, CutToSize
  <2>6. EveryRowOnce'
    BY <1>1, <1>3, <2>1, <2>2 DEF EveryRowOnce, Tiled, Chunks
  <2>7. PlanNeverEmpty'
    BY <1>1, <1>3, <1>6, <2>1, <2>3, <2>4, <1>2 DEF PlanNeverEmpty, Chunks, Shard
  <2> QED
    BY <1>4, <2>5, <2>6, <2>7 DEF PlanInv
<1> QED
  BY <1>5, <1>6

LEMMA PlanKeeps == PlanInv /\ [Next]_vars => PlanInv'
<1> SUFFICES ASSUME PlanInv, [Next]_vars PROVE PlanInv'
  OBVIOUS
<1>1. CASE Chunk
  BY <1>1, PlanChunk
<1>2. CASE Finish
  BY <1>2, PlanFinish
<1>3. CASE UNCHANGED vars
  BY <1>3 DEF vars, PlanInv, TypeOK, LoopInv, Sums, Chunks, Tiled, CutToSize,
              EveryRowOnce, PlanNeverEmpty
<1> QED
  BY <1>1, <1>2, <1>3 DEF Next

\* For every target_rows and every shard_rows, plan_shards keeps its types and
\* its plan partitions the rows: each row index is generated exactly once, the
\* cuts are of the size asked for, and the plan is never empty.
THEOREM PlanCorrect ==
  Spec => [](TypeOK /\ EveryRowOnce /\ CutToSize /\ PlanNeverEmpty)
<1>1. PlanInv => TypeOK /\ EveryRowOnce /\ CutToSize /\ PlanNeverEmpty
  BY DEF PlanInv
<1> QED
  BY PlanInit, PlanKeeps, <1>1, PTL DEF Spec

LEMMA AnchoredInit == Init => Anchored
  BY DEF Init, Anchored

\* The plan begins at row 0 and ends at the target.
LEMMA AnchoredKeeps == PlanInv /\ Anchored /\ [Next]_vars => Anchored'
<1> SUFFICES ASSUME PlanInv, Anchored, [Next]_vars PROVE Anchored'
  OBVIOUS
<1>1. /\ target \in Int /\ size \in Nat \ {0} /\ start \in Nat
      /\ remaining \in Int /\ shards \in Seq(Shard)
  BY TargetsAssumption, SizesAssumption DEF PlanInv, TypeOK
<1>2. CASE Chunk
  <2> DEFINE cut == [start |-> start, count |-> IF size < remaining THEN size ELSE remaining]
  <2>1. pc = "loop" /\ pc' = "loop" /\ shards' = Append(shards, cut)
    BY <1>2 DEF Chunk
  <2>2. cut.start = start
    OBVIOUS
  <2>3. shards = <<>> => start = 0
    BY <2>1 DEF PlanInv, LoopInv, Chunks
  <2> HIDE DEF cut
  <2>4. shards = <<>> => shards'[1] = cut
    BY <1>1, <2>1
  <2>5. shards # <<>> => shards'[1] = shards[1]
    BY <1>1, <2>1
  <2> QED
    BY <2>1, <2>2, <2>3, <2>4, <2>5 DEF Anchored
<1>3. CASE Finish
  <2>1. /\ pc = "loop" /\ target' = target /\ remaining <= 0
        /\ shards' = IF shards = <<>> THEN <<[start |-> 0, count |-> 0]>> ELSE shards
    BY <1>3 DEF Finish
  <2>2. Sums /\ Chunks
    BY <2>1 DEF PlanInv, LoopInv
  <2>3. CASE shards = <<>>
    <3>1. shards' = <<[start |-> 0, count |-> 0]>> /\ Len(shards') = 1
          /\ shards'[1].start = 0 /\ shards'[1].count = 0
      BY <2>1, <2>3
    <3>2. target <= 0
      BY <1>1, <2>1, <2>2, <2>3 DEF Sums, Chunks
    <3> QED
      BY <1>1, <2>1, <3>1, <3>2 DEF Anchored
  <2>4. CASE shards # <<>>
    <3>1. remaining = 0 /\ start = target
      BY <1>1, <2>1, <2>2, <2>4 DEF Sums
    <3>2. shards' = shards /\ shards[Len(shards)].start + shards[Len(shards)].count = start
      BY <2>1, <2>2, <2>4 DEF Chunks
    <3>3. start >= 0
      BY <1>1
    <3> QED
      BY <1>1, <2>1, <2>4, <3>1, <3>2, <3>3 DEF Anchored
  <2> QED
    BY <2>3, <2>4
<1>4. CASE UNCHANGED vars
  BY <1>4 DEF vars, Anchored
<1> QED
  BY <1>2, <1>3, <1>4 DEF Next

\* A finished plan is not empty, and its shards follow each other from 0 to the
\* target.
LEMMA PlanParts ==
    ASSUME PlanInv, Anchored, pc = "done"
    PROVE  /\ shards \in Seq(Shard) /\ Len(shards) \in Nat \ {0} /\ DOMAIN shards = 1..Len(shards)
           /\ \A i \in DOMAIN shards : shards[i].start \in Nat /\ shards[i].count \in Nat
           /\ RowsBefore(shards, 1) = 0
           /\ \A i \in DOMAIN shards : RowsBefore(shards, i) = shards[i].start
                                       /\ RowsBefore(shards, i + 1) = shards[i].start + shards[i].count
           /\ RowsBefore(shards, Len(shards) + 1) = IF target > 0 THEN target ELSE 0
<1>1. shards \in Seq(Shard) /\ shards # <<>>
  BY DEF PlanInv, TypeOK, PlanNeverEmpty
<1>2. Len(shards) \in Nat \ {0} /\ DOMAIN shards = 1..Len(shards) /\ \A i \in DOMAIN shards : shards[i] \in Shard
  BY <1>1
<1>3. \A i \in DOMAIN shards : shards[i].start \in Nat /\ shards[i].count \in Nat
  BY <1>2 DEF Shard
<1>4. /\ shards[1].start = 0
      /\ shards[Len(shards)].start + shards[Len(shards)].count = IF target > 0 THEN target ELSE 0
  BY <1>1 DEF Anchored
<1>5. RowsBefore(shards, 1) = 0
  BY <1>2, <1>4 DEF RowsBefore
<1>6. ASSUME NEW i \in DOMAIN shards
      PROVE  /\ RowsBefore(shards, i) = shards[i].start
             /\ RowsBefore(shards, i + 1) = shards[i].start + shards[i].count
  <2>1. i \in Nat /\ i <= Len(shards)
    BY <1>2
  <2>2. CASE i = Len(shards)
    BY <1>2, <2>1, <2>2 DEF RowsBefore
  <2>3. CASE i < Len(shards)
    <3>1. shards[i].count = size /\ shards[i + 1].start = shards[i].start + size
      BY <2>3 DEF PlanInv, CutToSize
    <3>2. i + 1 <= Len(shards)
      BY <1>2, <2>1, <2>3
    <3> QED
      BY <2>1, <3>1, <3>2 DEF RowsBefore
  <2> QED
    BY <1>2, <2>1, <2>2, <2>3
<1>7. RowsBefore(shards, Len(shards) + 1) = IF target > 0 THEN target ELSE 0
  <2>1. ~(Len(shards) + 1 <= Len(shards))
    BY <1>2
  <2> QED
    BY <1>4, <2>1 DEF RowsBefore
<1> QED
  BY <1>1, <1>2, <1>3, <1>5, <1>6, <1>7

-----------------------------------------------------------------------------
(* A batch of a text shard.                                                *)

\* A row more that passes.
LEMMA KeptMore ==
    ASSUME NEW x, NEW count \in Nat, KeptRows(x, count), NEW row \in Row,
           ~(Len(x) >= count), row.key # Malformed, PassesQuality(row), ~IsDuplicate(x, row)
    PROVE  KeptRows(Append(x, row), count) /\ Len(Append(x, row)) = Len(x) + 1
<1> DEFINE y == Append(x, row)
           n == Len(x)
<1>1. x \in Seq(Row) /\ n \in Nat /\ DOMAIN x = 1..n
  BY DEF KeptRows
<1>2. y \in Seq(Row) /\ Len(y) = n + 1 /\ DOMAIN y = 1..(n + 1)
      /\ (\A j \in 1..n : y[j] = x[j]) /\ y[n + 1] = row
  BY <1>1
<1>3. row.key > 0
  BY DEF PassesQuality, Row, Blank, TooLong, Malformed
<1>4. \A j \in 1..n : x[j].key # row.key /\ x[j].key > 0
  BY <1>1 DEF IsDuplicate, KeptRows
<1>5. \A j, k \in 1..n : x[j].key = x[k].key => j = k
  BY <1>1 DEF KeptRows
<1> HIDE DEF y, n
<1>6. \A j \in 1..(n + 1) : j \in 1..n \/ j = n + 1
  BY <1>1
<1>7. \A j \in 1..(n + 1) : y[j].key > 0
  BY <1>2, <1>3, <1>4, <1>6
<1>8. ASSUME NEW j \in 1..(n + 1), NEW k \in 1..(n + 1), y[j].key = y[k].key
      PROVE  j = k
  <2>1. CASE j \in 1..n /\ k \in 1..n
    BY <1>2, <1>5, <1>8, <2>1
  <2>2. CASE j \in 1..n /\ k = n + 1
    BY <1>2, <1>4, <1>8, <2>2
  <2>3. CASE j = n + 1 /\ k \in 1..n
    BY <1>2, <1>4, <1>8, <2>3
  <2> QED
    BY <1>6, <2>1, <2>2, <2>3
<1>9. n + 1 <= count
  BY <1>1 DEF n
<1>10. KeptRows(y, count)
  BY <1>2, <1>7, <1>8, <1>9 DEF KeptRows
<1> QED
  BY <1>2, <1>10 DEF y, n

\* Keeping rows of a reply keeps what was there, and adds no row twice.
LEMMA KeepStays ==
    ASSUME NEW rows, NEW count \in Nat, KeptRows(rows, count), NEW reply \in Seq(Row),
           NEW n \in Nat, DOMAIN reply = 1..n
    PROVE  KeptRows(Keep(rows, reply, count), count) /\ Len(Keep(rows, reply, count)) >= Len(rows)
<1> DEFINE T == {x \in Seq(Row) : KeptRows(x, count) /\ Len(x) >= Len(rows)}
           step(x, i) == IF Len(x) >= count \/ reply[i].key = Malformed \/ ~PassesQuality(reply[i])
                              \/ IsDuplicate(x, reply[i])
                           THEN x ELSE Append(x, reply[i])
           h == [q \in T \X (1..n) |-> step(q[1], q[2])]
           Body(g) == [s \in SUBSET (1..n) |->
                         IF s = {} THEN rows ELSE step(g[s \ {Max(s)}], Max(s))]
<1>1. \A x \in T : \A i \in 1..n : step(x, i) \in T
  <2> SUFFICES ASSUME NEW x \in T, NEW i \in 1..n PROVE step(x, i) \in T
    OBVIOUS
  <2>1. x \in Seq(Row) /\ KeptRows(x, count) /\ Len(x) >= Len(rows) /\ Len(rows) \in Nat
    BY DEF KeptRows
  <2>2. reply[i] \in Row
    OBVIOUS
  <2>3. CASE \/ Len(x) >= count \/ reply[i].key = Malformed \/ ~PassesQuality(reply[i])
             \/ IsDuplicate(x, reply[i])
    BY <2>1, <2>3
  <2>4. CASE ~(\/ Len(x) >= count \/ reply[i].key = Malformed \/ ~PassesQuality(reply[i])
               \/ IsDuplicate(x, reply[i]))
    <3> DEFINE y == Append(x, reply[i])
    <3>1. step(x, i) = y
      BY <2>4
    <3>2. KeptRows(y, count) /\ Len(y) >= Len(rows)
      BY <2>1, <2>2, <2>4, KeptMore
    <3>3. y \in Seq(Row)
      BY <2>1, <2>2
    <3> HIDE DEF y, step
    <3> QED
      BY <3>1, <3>2, <3>3
  <2> QED
    BY <2>3, <2>4
<1>2. rows \in T
  BY DEF KeptRows
<1>3. h \in [T \X (1..n) -> T]
  <2>1. \A q \in T \X (1..n) : step(q[1], q[2]) \in T
    BY <1>1
  <2> HIDE DEF step, T
  <2> QED
    BY <2>1
<1>4. PICK I : FoldsUp(I, n, rows, h)
  <2> HIDE DEF h, T
  <2> QED
    BY <1>2, <1>3, FoldExists
<1>5. \A s \in SUBSET (1..n) : I[s] \in T
  <2>1. \A s \in SUBSET (1..n) : s # {} /\ I[s \ {Max(s)}] \in T => I[s] \in T
    <3> HIDE DEF h, T
    <3> QED
      BY <1>3, <1>4, MaxIsIn DEF FoldsUp
  <2> HIDE DEF T
  <2> QED
    BY <1>2, <1>4, <2>1, FoldStays DEF FoldsUp
<1>6. I = Body(I)
  <2>1. ASSUME NEW s \in SUBSET (1..n), s # {}
        PROVE  h[<<I[s \ {Max(s)}], Max(s)>>] = step(I[s \ {Max(s)}], Max(s))
    <3>1. I[s \ {Max(s)}] \in T /\ Max(s) \in 1..n
      BY <1>5, <2>1, MaxIsIn
    <3> HIDE DEF step, T
    <3> QED
      BY <3>1
  <2> HIDE DEF h, step, T
  <2> QED
    BY <1>4, <2>1 DEF FoldsUp
<1> DEFINE F == CHOOSE g : g = Body(g)
<1>7. F = Body(F)
  <2> HIDE DEF Body
  <2> QED
    BY <1>6
<1>8. Keep(rows, reply, count) = F[1..n]
  BY DEF Keep, FoldLeft, MapThenFoldSet
<1>9. \A s \in SUBSET (1..n) : F[s] \in T
  <2>1. \A s \in SUBSET (1..n) : s # {} /\ F[s \ {Max(s)}] \in T => F[s] \in T
    <3> HIDE DEF F, step, T
    <3> QED
      BY <1>1, <1>7, MaxIsIn
  <2>2. F[{}] \in T
    <3> HIDE DEF F, step, T
    <3> QED
      BY <1>2, <1>7
  <2> HIDE DEF T, F
  <2> QED
    BY <2>1, <2>2, FoldStays
<1>10. Keep(rows, reply, count) \in T
  <2> HIDE DEF F, T
  <2>1. 1..n \in SUBSET (1..n)
    OBVIOUS
  <2> QED
    BY <1>8, <1>9, <2>1
<1> QED
  BY <1>10

\* The field whose texts are compared is one of the spec's.
LEMMA PrimaryIsField ==
    ASSUME NEW names, names \in Seq(ToSet(names)), PrimaryField(names) # "none"
    PROVE  PrimaryField(names) \in ToSet(names)
<1> DEFINE has == ToSet(names)
           fit == {s \in DOMAIN ShapeFields : ShapeFields[s].need \subseteq has}
<1>1. DOMAIN ShapeFields = 1..4
  BY DEF ShapeFields
<1>2. \A s \in 1..4 : ShapeFields[s].key \in ShapeFields[s].need
  <2>1. /\ ShapeFields[1].key = "text" /\ ShapeFields[1].need = {"text", "label"}
        /\ ShapeFields[2].key = "question" /\ ShapeFields[2].need = {"question", "answer"}
        /\ ShapeFields[3].key = "document" /\ ShapeFields[3].need = {"document", "summary"}
        /\ ShapeFields[4].key = "instruction" /\ ShapeFields[4].need = {"instruction", "response"}
    BY DEF ShapeFields
  <2> QED
    BY <2>1
<1>3. CASE fit # {}
  <2>1. fit \subseteq 1..4
    BY <1>1
  <2>2. \E s \in fit : \A t \in fit : s <= t
    <3>1. fit \subseteq Nat
      BY <2>1
    <3> HIDE DEF fit
    <3> QED
      BY <1>3, <3>1, LeastElement
  <2>3. PrimaryField(names) = ShapeFields[CHOOSE s \in fit : \A t \in fit : s <= t].key
    BY <1>3, SMT DEF PrimaryField
  <2>4. PICK s \in fit : PrimaryField(names) = ShapeFields[s].key
    <3> HIDE DEF fit
    <3> QED
      BY <2>2, <2>3
  <2>5. s \in 1..4 /\ ShapeFields[s].need \subseteq has
    BY <2>1
  <2> QED
    BY <1>2, <2>4, <2>5
<1>4. CASE fit = {} /\ "messages" \in has
  <2>1. PrimaryField(names) = "messages"
    BY <1>4, SMT DEF PrimaryField
  <2> QED
    BY <1>4, <2>1
<1>5. CASE fit = {} /\ "messages" \notin has /\ names = <<>>
  <2>1. PrimaryField(names) = "none"
    BY <1>5, SMT DEF PrimaryField
  <2> QED
    BY <2>1
<1>6. CASE fit = {} /\ "messages" \notin has /\ names # <<>>
  <2>1. PrimaryField(names) = names[1]
    BY <1>6, SMT DEF PrimaryField
  <2>2. 1 \in DOMAIN names
    BY <1>6
  <2> QED
    BY <2>1, <2>2 DEF ToSet
<1> QED
  BY <1>3, <1>4, <1>5, <1>6

-----------------------------------------------------------------------------
(* Sequences of items.                                                     *)

LEMMA AppendIs ==
    ASSUME NEW s, NEW x, IsSeq(s)
    PROVE  /\ IsSeq(Append(s, x)) /\ Len(Append(s, x)) = Len(s) + 1
           /\ DOMAIN Append(s, x) = 1..(Len(s) + 1)
           /\ \A j \in 1..Len(s) : Append(s, x)[j] = s[j]
           /\ Append(s, x)[Len(s) + 1] = x
<1>1. PICK S : s \in Seq(S)
  BY DEF IsSeq
<1>2. s \in Seq(S \cup {x})
  BY <1>1
<1>3. Append(s, x) \in Seq(S \cup {x})
  BY <1>2
<1> QED
  BY <1>1, <1>3 DEF IsSeq

LEMMA TailIs ==
    ASSUME NEW s, IsSeq(s), s # <<>>
    PROVE  /\ IsSeq(Tail(s)) /\ Len(Tail(s)) = Len(s) - 1 /\ Len(s) \in Nat \ {0}
           /\ Head(s) = s[1]
           /\ \A j \in 1..(Len(s) - 1) : Tail(s)[j] = s[j + 1]
<1>1. PICK S : s \in Seq(S)
  BY DEF IsSeq
<1>2. Tail(s) \in Seq(S)
  BY <1>1
<1>3. Len(s) \in Nat \ {0} /\ Head(s) = s[1] /\ Len(Tail(s)) = Len(s) - 1
  BY <1>1
<1>4. \A j \in 1..(Len(s) - 1) : Tail(s)[j] = s[j + 1]
  BY <1>1, <1>3
<1> QED
  BY <1>2, <1>3, <1>4 DEF IsSeq

LEMMA ConcatIs ==
    ASSUME NEW s, NEW u, IsSeq(s), IsSeq(u)
    PROVE  /\ IsSeq(s \o u) /\ Len(s \o u) = Len(s) + Len(u)
           /\ DOMAIN (s \o u) = 1..(Len(s) + Len(u))
           /\ \A k \in 1..(Len(s) + Len(u)) :
                (s \o u)[k] = IF k <= Len(s) THEN s[k] ELSE u[k - Len(s)]
<1>1. PICK S : s \in Seq(S)
  BY DEF IsSeq
<1>2. PICK U : u \in Seq(U)
  BY DEF IsSeq
<1>3. s \in Seq(S \cup U) /\ u \in Seq(S \cup U)
  BY <1>1, <1>2
<1>4. s \o u \in Seq(S \cup U)
  BY <1>3
<1>5. Len(s \o u) = Len(s) + Len(u) /\ DOMAIN (s \o u) = 1..(Len(s) + Len(u))
  BY <1>3, <1>4
<1>6. \A k \in 1..(Len(s) + Len(u)) : (s \o u)[k] = IF k <= Len(s) THEN s[k] ELSE u[k - Len(s)]
  BY <1>3
<1> QED
  BY <1>4, <1>5, <1>6 DEF IsSeq

\* A function over the positions up to n is a sequence of length n.
LEMMA FunctionIsSeq ==
    ASSUME NEW n \in Nat, NEW f, f = [j \in 1..n |-> f[j]]
    PROVE  IsSeq(f) /\ Len(f) = n /\ DOMAIN f = 1..n
<1>1. f \in [1..n -> {f[j] : j \in 1..n}]
  OBVIOUS
<1>2. f \in Seq({f[j] : j \in 1..n})
  BY <1>1
<1>3. Len(f) = n
  BY <1>1, <1>2
<1> QED
  BY <1>1, <1>2, <1>3 DEF IsSeq

\* Nothing made yet.
LEMMA NothingMade ==
    ASSUME NEW m, NEW cut, cut.count \in Nat
    PROVE  Partly(m, cut, <<>>)
<1>1. IsSeq(<<>>) /\ Len(<<>>) = 0 /\ DOMAIN <<>> = {}
  BY EmptySeqIs
<1> QED
  BY <1>1 DEF Partly

\* Everything is left to be done.
LEMMA AllIsLeft == ASSUME NEW s, IsSeq(s) PROVE Suffix(s, s)
<1>1. Len(s) \in Nat /\ DOMAIN s = 1..Len(s)
  BY SeqParts
<1> QED
  BY <1>1 DEF Suffix

\* One item less is left.
LEMMA LessIsLeft ==
    ASSUME NEW u, NEW s, IsSeq(s), Suffix(u, s), u # <<>>
    PROVE  /\ Suffix(Tail(u), s)
           /\ Head(u) = s[Len(s) - Len(u) + 1] /\ Len(s) - Len(u) + 1 \in DOMAIN s
           /\ DoneOf(Tail(u), s) = DoneOf(u, s) \cup {Len(s) - Len(u) + 1}
           /\ DoneOf(u, s) \subseteq DOMAIN s
<1>1. /\ IsSeq(u) /\ Len(u) <= Len(s) /\ \A k \in DOMAIN u : u[k] = s[Len(s) - Len(u) + k]
  BY DEF Suffix
<1>2. /\ IsSeq(Tail(u)) /\ Len(Tail(u)) = Len(u) - 1 /\ Len(u) \in Nat \ {0} /\ Head(u) = u[1]
      /\ \A j \in 1..(Len(u) - 1) : Tail(u)[j] = u[j + 1]
  BY <1>1, TailIs
<1>3. Len(s) \in Nat /\ DOMAIN s = 1..Len(s) /\ DOMAIN u = 1..Len(u)
      /\ DOMAIN Tail(u) = 1..(Len(u) - 1)
  <2>1. DOMAIN u = 1..Len(u) /\ Len(s) \in Nat /\ DOMAIN s = 1..Len(s)
    BY <1>1, SeqParts
  <2>2. DOMAIN Tail(u) = 1..Len(Tail(u))
    BY <1>2, SeqParts
  <2> QED
    BY <1>2, <2>1, <2>2
<1>4. ASSUME NEW k \in DOMAIN Tail(u)
      PROVE  Tail(u)[k] = s[Len(s) - Len(Tail(u)) + k]
  <2>1. k \in 1..(Len(u) - 1) /\ k + 1 \in 1..Len(u)
    BY <1>2, <1>3
  <2>2. Tail(u)[k] = u[k + 1] /\ u[k + 1] = s[Len(s) - Len(u) + (k + 1)]
    BY <1>1, <1>2, <1>3, <2>1
  <2>3. Len(s) - Len(u) + (k + 1) = Len(s) - Len(Tail(u)) + k
    BY <1>2, <1>3, <2>1
  <2> QED
    BY <2>2, <2>3
<1>5. Suffix(Tail(u), s)
  BY <1>1, <1>2, <1>3, <1>4 DEF Suffix
<1>6. 1 \in DOMAIN u
  BY <1>2, <1>3
<1>7. Head(u) = s[Len(s) - Len(u) + 1]
  BY <1>1, <1>2, <1>6
<1>8. Len(s) - Len(u) + 1 \in DOMAIN s
  BY <1>1, <1>2, <1>3
<1>9. DoneOf(Tail(u), s) = DoneOf(u, s) \cup {Len(s) - Len(u) + 1}
  BY <1>1, <1>2, <1>3 DEF DoneOf
<1>10. DoneOf(u, s) \subseteq DOMAIN s
  BY <1>1, <1>2, <1>3 DEF DoneOf
<1> QED
  BY <1>5, <1>7, <1>8, <1>9, <1>10

\* Nothing is done of what is all left, and all of it when nothing is left.
LEMMA DoneEnds ==
    ASSUME NEW s, IsSeq(s)
    PROVE  DoneOf(s, s) = {} /\ DoneOf(<<>>, s) = DOMAIN s
<1>1. Len(s) \in Nat /\ DOMAIN s = 1..Len(s) /\ Len(<<>>) = 0
  BY SeqParts
<1> QED
  BY <1>1 DEF DoneOf
-----------------------------------------------------------------------------
(* The record of an attempt when one of its fields is set.                 *)

LEMMA RecParts ==
    ASSUME NEW at, NEW lost, NEW by, NEW i, NEW items, NEW todo, NEW calls, NEW polls, NEW short,
           NEW u, u = Rec(at, lost, by, i, items, todo, calls, polls, short)
    PROVE  /\ IsTry(u) /\ u.at = at /\ u.lost = lost /\ u.by = by /\ u.i = i /\ u.items = items
           /\ u.todo = todo /\ u.calls = calls /\ u.polls = polls /\ u.short = short
<1>1. /\ u.at = at /\ u.by = by /\ u.i = i /\ u.items = items
      /\ u.todo = todo /\ u.calls = calls /\ u.polls = polls /\ u.short = short
  BY DEF Rec
<1>2. u.lost = lost
  BY Zenon DEF Rec
<1>3. IsTry(u)
  BY <1>1, <1>2 DEF IsTry
<1> QED
  BY <1>1, <1>2, <1>3

AtOf(t, x) == [t EXCEPT !.at = x]

LEMMA AtSet ==
    ASSUME NEW t, NEW x, IsTry(t), NEW u, u = AtOf(t, x)
    PROVE  /\ IsTry(u) /\ u.at = x /\ u.lost = t.lost /\ u.by = t.by /\ u.i = t.i /\ u.items = t.items
           /\ u.todo = t.todo /\ u.calls = t.calls /\ u.polls = t.polls /\ u.short = t.short
<1>1. u = Rec(x, t.lost, t.by, t.i, t.items, t.todo, t.calls, t.polls, t.short)
  BY DEF IsTry, Rec, AtOf
<1> QED
  BY <1>1, RecParts

LostOf(t, x) == [t EXCEPT !.lost = x]

LEMMA LostSet ==
    ASSUME NEW t, NEW x, IsTry(t), NEW u, u = LostOf(t, x)
    PROVE  /\ IsTry(u) /\ u.at = t.at /\ u.lost = x /\ u.by = t.by /\ u.i = t.i /\ u.items = t.items
           /\ u.todo = t.todo /\ u.calls = t.calls /\ u.polls = t.polls /\ u.short = t.short
<1>1. u = Rec(t.at, x, t.by, t.i, t.items, t.todo, t.calls, t.polls, t.short)
  BY DEF IsTry, Rec, LostOf
<1> QED
  BY <1>1, RecParts

ByOf(t, x) == [t EXCEPT !.by = x]

LEMMA BySet ==
    ASSUME NEW t, NEW x, IsTry(t), NEW u, u = ByOf(t, x)
    PROVE  /\ IsTry(u) /\ u.at = t.at /\ u.lost = t.lost /\ u.by = x /\ u.i = t.i /\ u.items = t.items
           /\ u.todo = t.todo /\ u.calls = t.calls /\ u.polls = t.polls /\ u.short = t.short
<1>1. u = Rec(t.at, t.lost, x, t.i, t.items, t.todo, t.calls, t.polls, t.short)
  BY DEF IsTry, Rec, ByOf
<1> QED
  BY <1>1, RecParts

IOf(t, x) == [t EXCEPT !.i = x]

LEMMA ISet ==
    ASSUME NEW t, NEW x, IsTry(t), NEW u, u = IOf(t, x)
    PROVE  /\ IsTry(u) /\ u.at = t.at /\ u.lost = t.lost /\ u.by = t.by /\ u.i = x /\ u.items = t.items
           /\ u.todo = t.todo /\ u.calls = t.calls /\ u.polls = t.polls /\ u.short = t.short
<1>1. u = Rec(t.at, t.lost, t.by, x, t.items, t.todo, t.calls, t.polls, t.short)
  BY DEF IsTry, Rec, IOf
<1> QED
  BY <1>1, RecParts

ItemsOf(t, x) == [t EXCEPT !.items = x]

LEMMA ItemsSet ==
    ASSUME NEW t, NEW x, IsTry(t), NEW u, u = ItemsOf(t, x)
    PROVE  /\ IsTry(u) /\ u.at = t.at /\ u.lost = t.lost /\ u.by = t.by /\ u.i = t.i /\ u.items = x
           /\ u.todo = t.todo /\ u.calls = t.calls /\ u.polls = t.polls /\ u.short = t.short
<1>1. u = Rec(t.at, t.lost, t.by, t.i, x, t.todo, t.calls, t.polls, t.short)
  BY DEF IsTry, Rec, ItemsOf
<1> QED
  BY <1>1, RecParts

TodoOf(t, x) == [t EXCEPT !.todo = x]

LEMMA TodoSet ==
    ASSUME NEW t, NEW x, IsTry(t), NEW u, u = TodoOf(t, x)
    PROVE  /\ IsTry(u) /\ u.at = t.at /\ u.lost = t.lost /\ u.by = t.by /\ u.i = t.i /\ u.items = t.items
           /\ u.todo = x /\ u.calls = t.calls /\ u.polls = t.polls /\ u.short = t.short
<1>1. u = Rec(t.at, t.lost, t.by, t.i, t.items, x, t.calls, t.polls, t.short)
  BY DEF IsTry, Rec, TodoOf
<1> QED
  BY <1>1, RecParts

CallsOf(t, x) == [t EXCEPT !.calls = x]

LEMMA CallsSet ==
    ASSUME NEW t, NEW x, IsTry(t), NEW u, u = CallsOf(t, x)
    PROVE  /\ IsTry(u) /\ u.at = t.at /\ u.lost = t.lost /\ u.by = t.by /\ u.i = t.i /\ u.items = t.items
           /\ u.todo = t.todo /\ u.calls = x /\ u.polls = t.polls /\ u.short = t.short
<1>1. u = Rec(t.at, t.lost, t.by, t.i, t.items, t.todo, x, t.polls, t.short)
  BY DEF IsTry, Rec, CallsOf
<1> QED
  BY <1>1, RecParts

PollsOf(t, x) == [t EXCEPT !.polls = x]

LEMMA PollsSet ==
    ASSUME NEW t, NEW x, IsTry(t), NEW u, u = PollsOf(t, x)
    PROVE  /\ IsTry(u) /\ u.at = t.at /\ u.lost = t.lost /\ u.by = t.by /\ u.i = t.i /\ u.items = t.items
           /\ u.todo = t.todo /\ u.calls = t.calls /\ u.polls = x /\ u.short = t.short
<1>1. u = Rec(t.at, t.lost, t.by, t.i, t.items, t.todo, t.calls, x, t.short)
  BY DEF IsTry, Rec, PollsOf
<1> QED
  BY <1>1, RecParts

ShortOf(t, x) == [t EXCEPT !.short = x]

LEMMA ShortSet ==
    ASSUME NEW t, NEW x, IsTry(t), NEW u, u = ShortOf(t, x)
    PROVE  /\ IsTry(u) /\ u.at = t.at /\ u.lost = t.lost /\ u.by = t.by /\ u.i = t.i /\ u.items = t.items
           /\ u.todo = t.todo /\ u.calls = t.calls /\ u.polls = t.polls /\ u.short = x
<1>1. u = Rec(t.at, t.lost, t.by, t.i, t.items, t.todo, t.calls, t.polls, x)
  BY DEF IsTry, Rec, ShortOf
<1> QED
  BY <1>1, RecParts

-----------------------------------------------------------------------------
(* Every step of an attempt is of one of the three kinds.                  *)

LEMMA TryParts ==
    ASSUME MediaInv, NEW n \in Tries
    PROVE  /\ TryWell(modality, shards, tries[n]) /\ Written(store, tries[n])
           /\ modality = "text" => TryText(shards, fields, tries[n])
           /\ tries = [k \in Tries |-> tries[k]]
           /\ tries[n].at # "off" => pc = "done"
           /\ modality \in {"tabular", "text", "image", "audio", "video"}
<1>1. Attempts /\ TextWell /\ TypeOK
  BY DEF MediaInv, PlanInv
<1>2. /\ TryWell(modality, shards, tries[n]) /\ Written(store, tries[n])
      /\ tries = [k \in Tries |-> tries[k]] /\ modality \in Modalities
  BY <1>1 DEF Attempts
<1>3. modality = "text" => TryText(shards, fields, tries[n])
  BY <1>1 DEF TextWell
<1>4. tries[n].at # "off" => pc = "done"
  <2>1. CASE pc = "loop"
    <3>1. tries[n] = Fresh
      BY <1>1, <2>1 DEF Attempts
    <3> QED
      BY <3>1 DEF Fresh
  <2> QED
    BY <1>1, <2>1 DEF TypeOK
<1> QED
  BY <1>2, <1>3, <1>4, ModalitiesAssumption

LEMMA CutParts ==
    ASSUME MediaInv, pc = "done"
    PROVE  /\ Len(shards) \in Nat \ {0} /\ DOMAIN shards = 1..Len(shards)
           /\ \A i \in DOMAIN shards : shards[i].start \in Nat /\ shards[i].count \in Nat
  BY PlanParts DEF MediaInv

LEMMA FreshIs ==
  /\ IsTry(Fresh) /\ Fresh.items = <<>> /\ Fresh.todo = <<>>
  /\ Fresh.calls = 0 /\ Fresh.polls = 0 /\ Fresh.short = 0
<1>1. Fresh.items = <<>> /\ Fresh.todo = <<>> /\ Fresh.calls = 0 /\ Fresh.polls = 0 /\ Fresh.short = 0
  BY SMT DEF Fresh
<1> DEFINE lost == Fresh.lost
<1>2. Fresh = Rec("off", lost, "none", 1, <<>>, <<>>, 0, 0, 0)
  BY Zenon DEF Fresh, Rec
<1> HIDE DEF lost
<1> QED
  BY <1>1, <1>2, RecParts

\* The record of an attempt that begins its next shard.
Begun(at, lost, by, i) == [Fresh EXCEPT !.at = at, !.lost = lost, !.by = by, !.i = i]

LEMMA FreshSet ==
    ASSUME NEW at, NEW lost, NEW by, NEW i,
           NEW u, u = Begun(at, lost, by, i)
    PROVE  /\ IsTry(u) /\ u.at = at /\ u.lost = lost /\ u.by = by /\ u.i = i /\ u.items = <<>>
           /\ u.todo = <<>> /\ u.calls = 0 /\ u.polls = 0 /\ u.short = 0
<1> DEFINE a == [Fresh EXCEPT !.at = at]
           b == [a EXCEPT !.lost = lost]
           c == [b EXCEPT !.by = by]
<1>1. u = IOf(c, i)
  BY DEF IOf, Begun
<1>0. a = AtOf(Fresh, at)
  BY DEF AtOf
<1>3. b = LostOf(a, lost)
  BY DEF LostOf
<1>4. c = ByOf(b, by)
  BY DEF ByOf
<1> HIDE DEF a, b, c
<1>2. /\ IsTry(a) /\ a.at = at /\ a.items = <<>>
      /\ a.todo = <<>> /\ a.calls = 0 /\ a.polls = 0 /\ a.short = 0
  BY <1>0, FreshIs, AtSet
<1>5. /\ IsTry(b) /\ b.at = at /\ b.lost = lost /\ b.items = <<>>
      /\ b.todo = <<>> /\ b.calls = 0 /\ b.polls = 0 /\ b.short = 0
  BY <1>2, <1>3, LostSet
<1>6. /\ IsTry(c) /\ c.at = at /\ c.lost = lost /\ c.by = by /\ c.items = <<>>
      /\ c.todo = <<>> /\ c.calls = 0 /\ c.polls = 0 /\ c.short = 0
  BY <1>4, <1>5, BySet
<1> QED
  BY <1>1, <1>6, ISet

LEMMA WithIs ==
    ASSUME NEW ts, ts = [k \in Tries |-> ts[k]], NEW n \in Tries, NEW u
    PROVE  [ts EXCEPT ![n] = u] = With(ts, n, u)
  BY DEF With

LEMMA StartTryKind ==
    ASSUME MediaInv, NEW n \in Tries, StartTry(n)
    PROVE  Kinds(n)
<1> DEFINE t == tries[n]
           u == [t EXCEPT !.at = "shard", !.by = config]
<1>1. /\ TryWell(modality, shards, t) /\ tries = [k \in Tries |-> tries[k]]
  BY TryParts
<1>2. /\ pc = "done" /\ t.at = "off"
      /\ n > 1 => tries[n - 1].at = "raised" \/ tries[n - 1].lost
      /\ tries' = [tries EXCEPT ![n].at = "shard", ![n].by = config]
      /\ Frame /\ store' = store
  BY DEF StartTry, Runs
<1>3. t = Fresh
  BY <1>1, <1>2 DEF TryWell
<1>4. tries' = With(tries, n, u)
  <2>1. tries' = [tries EXCEPT ![n] = u]
    BY <1>1, <1>2
  <2> QED
    BY <1>1, <2>1, WithIs
<1>5. /\ IsTry(u) /\ u.at = "shard" /\ u.lost = t.lost /\ u.by = config /\ u.i = 1 /\ u.items = <<>>
      /\ u.todo = <<>> /\ u.calls = 0 /\ u.polls = 0 /\ u.short = 0
      /\ t.lost \in BOOLEAN /\ t.i = 1
  <2>1. t.i = 1 /\ t.items = <<>> /\ t.todo = <<>> /\ t.calls = 0 /\ t.polls = 0 /\ t.short = 0
    BY <1>3, SMT DEF Fresh
  <2>2. IsTry(t) /\ t.lost \in BOOLEAN
    BY <1>1 DEF TryWell
  <2> HIDE DEF t
  <2> DEFINE v == [t EXCEPT !.at = "shard"]
  <2>6. v = AtOf(t, "shard")
    BY DEF AtOf
  <2>4. u = ByOf(v, config)
    BY DEF ByOf
  <2> HIDE DEF u, v
  <2>3. /\ IsTry(v) /\ v.at = "shard" /\ v.lost = t.lost /\ v.by = t.by /\ v.i = t.i /\ v.items = t.items
        /\ v.todo = t.todo /\ v.calls = t.calls /\ v.polls = t.polls /\ v.short = t.short
    BY <2>2, <2>6, AtSet
  <2>5. /\ IsTry(u) /\ u.at = v.at /\ u.lost = v.lost /\ u.by = config /\ u.i = v.i /\ u.items = v.items
        /\ u.todo = v.todo /\ u.calls = v.calls /\ u.polls = v.polls /\ u.short = v.short
    BY <2>3, <2>4, BySet
  <2> QED
    BY <2>1, <2>2, <2>3, <2>5
<1>6. /\ Len(shards) \in Nat \ {0} /\ DOMAIN shards = 1..Len(shards)
      /\ \A i \in DOMAIN shards : shards[i].start \in Nat /\ shards[i].count \in Nat
  BY <1>2, CutParts
<1> HIDE DEF u
<1>7. 1 \in DOMAIN shards /\ 1 \in 1..(Len(shards) + 1)
  BY <1>6
<1>8. Partly(modality, shards[1], <<>>)
  BY <1>6, <1>7, NothingMade
<1>9. DOMAIN <<>> = {}
  OBVIOUS
<1>10. TryWell(modality, shards, u)
  BY <1>5, <1>7, <1>8, <1>9 DEF TryWell, InPhase, Running
<1>11. TryText(shards, fields, u)
  BY <1>5 DEF TryText
<1>12. \A k \in Tries : k < n => tries[k].at # "off" /\ (tries[k].at = "raised" \/ tries[k].lost)
  <2> SUFFICES ASSUME NEW k \in Tries, k < n
               PROVE  tries[k].at # "off" /\ (tries[k].at = "raised" \/ tries[k].lost)
    OBVIOUS
  <2>1. n > 1 /\ n - 1 \in Tries
    BY TriesAssumption DEF Tries
  <2>2. tries[n - 1].at = "raised" \/ tries[n - 1].lost
    BY <1>2, <2>1
  <2>3. tries[n - 1].at # "off"
    <3>1. TryWell(modality, shards, tries[n - 1])
      BY <2>1, TryParts
    <3> QED
      BY <2>2, <3>1 DEF TryWell, Fresh
  <2>4. CASE k = n - 1
    BY <2>2, <2>3, <2>4
  <2>5. CASE k < n - 1
    <3>1. Ordered(tries)
      BY DEF MediaInv, Attempts
    <3> QED
      BY <2>1, <2>3, <2>5, <3>1 DEF Ordered
  <2>6. k = n - 1 \/ k < n - 1
    BY TriesAssumption DEF Tries
  <2> QED
    BY <2>4, <2>5, <2>6
<1>13. Steps(n, u)
  BY <1>2, <1>4, <1>5, <1>10, <1>11, <1>12 DEF Steps
<1>14. GoesOn(n, u)
  BY <1>2, <1>5, <1>13 DEF GoesOn
<1> QED
  BY <1>14 DEF Kinds

\* The server gives up on an attempt.
LEMMA GiveUpKind ==
    ASSUME MediaInv, NEW n \in Tries, GiveUp(n)
    PROVE  Kinds(n)
<1> DEFINE t == tries[n]
           u == [t EXCEPT !.lost = TRUE]
<1>1. /\ TryWell(modality, shards, t) /\ tries = [k \in Tries |-> tries[k]]
      /\ modality = "text" => TryText(shards, fields, t)
  BY TryParts
<1>2. /\ t.at \notin {"off", "raised", "done"}
      /\ tries' = [tries EXCEPT ![n].lost = TRUE]
      /\ Frame /\ store' = store
  BY DEF GiveUp
<1>3. pc = "done"
  BY <1>2, TryParts
<1>4. tries' = With(tries, n, u)
  <2>1. tries' = [tries EXCEPT ![n] = u]
    BY <1>1, <1>2
  <2>2. tries = [k \in Tries |-> tries[k]]
    BY <1>1
  <2> HIDE DEF u
  <2> QED
    BY <2>1, <2>2, WithIs
<1>5. IsTry(t)
  BY <1>1 DEF TryWell
<1>6. /\ IsTry(u) /\ u.at = t.at /\ u.lost = TRUE /\ u.by = t.by /\ u.i = t.i /\ u.items = t.items
      /\ u.todo = t.todo /\ u.calls = t.calls /\ u.polls = t.polls /\ u.short = t.short
  <2> DEFINE yes == TRUE
  <2>1. u = LostOf(t, yes)
    BY DEF LostOf
  <2> HIDE DEF u, t, yes
  <2>2. /\ IsTry(u) /\ u.at = t.at /\ u.lost = yes /\ u.by = t.by /\ u.i = t.i /\ u.items = t.items
        /\ u.todo = t.todo /\ u.calls = t.calls /\ u.polls = t.polls /\ u.short = t.short
    BY <1>5, <2>1, LostSet
  <2> QED
    BY <2>2, Zenon DEF yes
<1> HIDE DEF u, t
<1>7. TryWell(modality, shards, u)
  BY <1>1, <1>2, <1>6 DEF TryWell
<1>8. modality = "text" => TryText(shards, fields, u)
  BY <1>1, <1>6 DEF TryText
<1>9. Steps(n, u)
  BY <1>2, <1>3, <1>4, <1>6, <1>7, <1>8 DEF Steps, t
<1>10. GoesOn(n, u)
  BY <1>2, <1>6, <1>9 DEF GoesOn, t
<1> QED
  BY <1>10 DEF Kinds

LEMMA RaiseKind ==
    ASSUME MediaInv, NEW n \in Tries, Raise(n)
    PROVE  Kinds(n)
<1> DEFINE t == tries[n]
           u == [t EXCEPT !.at = "raised"]
<1>1. /\ TryWell(modality, shards, t) /\ tries = [k \in Tries |-> tries[k]]
  BY TryParts
<1>2. /\ t.at \notin {"off", "raised", "done"}
      /\ tries' = [tries EXCEPT ![n].at = "raised"]
      /\ Frame /\ store' = store
  BY DEF Raise
<1>3. pc = "done"
  BY <1>2, TryParts
<1>4. tries' = With(tries, n, u)
  <2>1. tries' = [tries EXCEPT ![n] = u]
    BY <1>1, <1>2
  <2> QED
    BY <1>1, <2>1, WithIs
<1>5. IsTry(t)
  BY <1>1 DEF TryWell
<1>6. /\ IsTry(u) /\ u.at = "raised" /\ u.lost = t.lost /\ u.by = t.by /\ u.i = t.i /\ u.items = t.items
      /\ u.todo = t.todo /\ u.calls = t.calls /\ u.polls = t.polls /\ u.short = t.short
  <2>1. u = AtOf(t, "raised")
    BY DEF AtOf
  <2> HIDE DEF u, t
  <2> QED
    BY <1>5, <2>1, AtSet
<1> HIDE DEF u, t
<1>7. TryWell(modality, shards, u)
  BY <1>1, <1>6 DEF TryWell, InPhase, Running
<1>8. TryText(shards, fields, u)
  BY <1>6 DEF TryText
<1>9. Steps(n, u)
  BY <1>2, <1>3, <1>4, <1>6, <1>7, <1>8 DEF Steps, t
<1>10. GoesOn(n, u)
  BY <1>2, <1>6, <1>9 DEF GoesOn, t
<1> QED
  BY <1>10 DEF Kinds

\* The object of a shard is written, and the next shard begins.
LEMMA PutShardKind ==
    ASSUME MediaInv, NEW n \in Tries, NEW value, PutShard(n, value), tries[n].at \in Running,
           modality \in {"tabular", "image"} => Filled(modality, shards[tries[n].i], value),
           modality \in {"audio", "video"} =>
             tries[n].at = "clips" /\ tries[n].todo = <<>> /\ value = tries[n].items
    PROVE  Kinds(n)
<1> DEFINE t == tries[n]
           u == [Fresh EXCEPT !.at = IF t.i = Len(shards) THEN "done" ELSE "shard",
                              !.lost = t.lost, !.by = t.by, !.i = t.i + 1]
<1>1. /\ TryWell(modality, shards, t) /\ tries = [k \in Tries |-> tries[k]]
  BY TryParts
<1>2. /\ store' = Put(store, ShardKey(t.i), value)
      /\ tries' = [tries EXCEPT ![n] = u]
      /\ Frame
  BY DEF PutShard, PutObject, Put
<1>3. t.at \notin {"off", "raised", "done"}
  BY DEF Running
<1>4. pc = "done"
  BY <1>3, TryParts
<1>5. tries' = With(tries, n, u)
  BY <1>1, <1>2, WithIs
<1>6. /\ Len(shards) \in Nat \ {0} /\ DOMAIN shards = 1..Len(shards)
      /\ \A i \in DOMAIN shards : shards[i].start \in Nat /\ shards[i].count \in Nat
  BY <1>4, CutParts
<1>7. t.i \in DOMAIN shards /\ t.lost \in BOOLEAN
  BY <1>1 DEF TryWell
<1>8. /\ IsTry(u) /\ u.at = (IF t.i = Len(shards) THEN "done" ELSE "shard")
      /\ u.lost = t.lost /\ u.by = t.by /\ u.i = t.i + 1 /\ u.items = <<>> /\ u.todo = <<>>
      /\ u.calls = 0 /\ u.polls = 0 /\ u.short = 0
  <2> DEFINE at == IF t.i = Len(shards) THEN "done" ELSE "shard"
  <2> HIDE DEF at, t
  <2>1. u = Begun(at, t.lost, t.by, t.i + 1)
    BY DEF at, Begun
  <2> HIDE DEF u
  <2> QED
    BY <2>1, FreshSet DEF at
<1> HIDE DEF u, t
<1>9. /\ u.at = "done" => u.i = Len(shards) + 1
      /\ u.at = "shard" => u.i \in DOMAIN shards
      /\ u.i \in 1..(Len(shards) + 1)
      /\ u.at \in {"done", "shard"}
  BY <1>6, <1>7, <1>8
<1>10. u.at = "shard" => Partly(modality, shards[u.i], <<>>)
  BY <1>6, <1>9, NothingMade
<1>11. DOMAIN <<>> = {}
  OBVIOUS
<1>12. TryWell(modality, shards, u)
  BY <1>7, <1>8, <1>9, <1>10, <1>11 DEF TryWell, InPhase, Running
<1>13. TryText(shards, fields, u)
  BY <1>8, <1>9 DEF TryText
<1>14. Steps(n, u)
  BY <1>2, <1>3, <1>4, <1>5, <1>8, <1>9, <1>12, <1>13 DEF Steps, t
<1>15. StoresShard(n, u, value)
  BY <1>2, <1>8, <1>9, <1>14 DEF StoresShard, t
<1> QED
  BY <1>15 DEF Kinds

LEMMA TabularKind ==
    ASSUME MediaInv, NEW n \in Tries, GenerateTabular(n)
    PROVE  Kinds(n)
<1> DEFINE t == tries[n]
<1>1. modality = "tabular" /\ t.at = "shard"
  BY DEF GenerateTabular, Runs
<1>2. PICK salt \in Salts : PutShard(n, TabularShard(t.i, salt))
  BY DEF GenerateTabular
<1> DEFINE value == TabularShard(t.i, salt)
<1>3. t.i \in DOMAIN shards
  <2>1. TryWell(modality, shards, t)
    BY TryParts
  <2> QED
    BY <1>1, <2>1 DEF TryWell, Running
<1>4. shards[t.i].count \in Nat /\ shards[t.i].start \in Nat
  <2>1. pc = "done"
    BY <1>1, TryParts
  <2> QED
    BY <1>3, <2>1, CutParts
<1> HIDE DEF t
<1>5. value = [j \in 1..shards[t.i].count |-> TabularRow(t.i, Indices(shards[t.i])[j], salt)]
  BY DEF TabularShard
<1>6. ASSUME NEW j \in 1..shards[t.i].count
      PROVE  value[j].index = shards[t.i].start + j - 1
  <2>1. value[j].index = Indices(shards[t.i])[j]
    BY <1>5 DEF TabularRow, Item
  <2> QED
    BY <2>1 DEF Indices
<1> HIDE DEF value
<1>7. IsSeq(value) /\ Len(value) = shards[t.i].count /\ DOMAIN value = 1..shards[t.i].count
  <2>1. value = [j \in 1..shards[t.i].count |-> value[j]]
    BY <1>5
  <2> QED
    BY <1>4, <2>1, FunctionIsSeq
<1>8. Filled(modality, shards[t.i], value)
  BY <1>1, <1>4, <1>6, <1>7 DEF Filled, Partly, Made
<1> QED
  BY <1>1, <1>2, <1>8, PutShardKind DEF value, t, Running

LEMMA ImagesKind ==
    ASSUME MediaInv, NEW n \in Tries, GenerateImages(n)
    PROVE  Kinds(n)
<1> DEFINE t == tries[n]
           value == ImageShard(t.i, t.by)
<1>1. modality = "image" /\ t.at = "shard" /\ PutShard(n, value)
  BY DEF GenerateImages, Runs
<1>3. t.i \in DOMAIN shards
  <2>1. TryWell(modality, shards, t)
    BY TryParts
  <2> QED
    BY <1>1, <2>1 DEF TryWell, Running
<1>4. shards[t.i].count \in Nat /\ shards[t.i].start \in Nat
  <2>1. pc = "done"
    BY <1>1, TryParts
  <2> QED
    BY <1>3, <2>1, CutParts
<1> HIDE DEF t
<1>5. value = [j \in 1..shards[t.i].count |->
                 Item(Indices(shards[t.i])[j], ImageLabel(Indices(shards[t.i])[j]),
                      t.i + Indices(shards[t.i])[j], t.by, "png")]
  BY DEF ImageShard
<1>6. ASSUME NEW j \in 1..shards[t.i].count
      PROVE  value[j].index = shards[t.i].start + j - 1
  <2>1. value[j].index = Indices(shards[t.i])[j]
    BY <1>5 DEF Item
  <2> QED
    BY <2>1 DEF Indices
<1> HIDE DEF value
<1>7. IsSeq(value) /\ Len(value) = shards[t.i].count /\ DOMAIN value = 1..shards[t.i].count
  <2>1. value = [j \in 1..shards[t.i].count |-> value[j]]
    BY <1>5
  <2> QED
    BY <1>4, <2>1, FunctionIsSeq
<1>8. Filled(modality, shards[t.i], value)
  BY <1>1, <1>4, <1>6, <1>7 DEF Filled, Partly, Made
<1> QED
  BY <1>1, <1>8, PutShardKind DEF t, Running
-----------------------------------------------------------------------------
(* The text, audio and video shards.                                       *)

\* A step that stays at its shard and stores nothing.
LEMMA GoesOnKind ==
    ASSUME MediaInv, NEW n \in Tries, NEW u, tries' = [tries EXCEPT ![n] = u], Frame, store' = store,
           tries[n].at \in Running,
           TryWell(modality, shards, u), modality = "text" => TryText(shards, fields, u),
           u.at # "off", u.lost = tries[n].lost, u.by = tries[n].by, u.i = tries[n].i,
           u.at = "clips" => u.todo = u.items
    PROVE  Kinds(n)
<1>1. tries' = With(tries, n, u)
  BY TryParts, WithIs
<1>2. tries[n].at \notin {"off", "raised", "done"}
  BY DEF Running
<1>3. pc = "done"
  BY <1>2, TryParts
<1>4. Steps(n, u)
  BY <1>1, <1>2, <1>3 DEF Steps
<1>5. GoesOn(n, u)
  BY <1>4 DEF GoesOn
<1> QED
  BY <1>5 DEF Kinds

LEMMA NoRowsYet ==
    ASSUME NEW count \in Nat
    PROVE  KeptRows(<<>>, count) /\ 0 \in 0..MaxAttempts /\ MadeUp(Len(<<>>), 0, count, 0)
<1>1. <<>> \in Seq(Row) /\ Len(<<>>) = 0 /\ DOMAIN <<>> = {}
  OBVIOUS
<1>2. KeptRows(<<>>, count)
  BY <1>1 DEF KeptRows
<1>3. 0 \in 0..MaxAttempts
  BY DirectivesAssumption
<1>4. BatchSize \in Int /\ BatchSize * 0 = 0
  BY DirectivesAssumption
<1> QED
  BY <1>1, <1>2, <1>3, <1>4 DEF MadeUp

LEMMA StartTextKind ==
    ASSUME MediaInv, NEW n \in Tries, StartText(n)
    PROVE  Kinds(n)
<1> DEFINE t == tries[n]
<1>1. modality = "text" /\ t.at = "shard"
  BY DEF StartText, Runs
<1>2. TryWell(modality, shards, t) /\ TryText(shards, fields, t) /\ pc = "done"
  BY <1>1, TryParts
<1>3. t.i \in DOMAIN shards /\ shards[t.i].count \in Nat
  <2>1. t.i \in DOMAIN shards
    BY <1>1, <1>2 DEF TryWell, Running
  <2> QED
    BY <1>2, <2>1, CutParts
<1>4. CASE shards[t.i].count <= 0
  <2>1. PutShard(n, <<>>)
    BY <1>4 DEF StartText, Cut
  <2> QED
    BY <1>1, <2>1, PutShardKind DEF Running
<1>5. CASE ~(shards[t.i].count <= 0)
  <2> DEFINE at == IF PrimaryField(fields) = "none" THEN "raised" ELSE "text"
             u == AtOf(t, at)
  <2>1. tries' = [tries EXCEPT ![n].at = at] /\ Frame /\ store' = store
    BY <1>5 DEF StartText, Cut
  <2>2. tries' = [tries EXCEPT ![n] = u]
    <3>1. tries = [k \in Tries |-> tries[k]]
      BY TryParts
    <3> HIDE DEF at
    <3> QED
      BY <2>1, <3>1 DEF AtOf
  <2>3. IsTry(t)
    BY <1>2 DEF TryWell
  <2> HIDE DEF t, u
  <2>4. /\ IsTry(u) /\ u.at = at /\ u.lost = t.lost /\ u.by = t.by /\ u.i = t.i /\ u.items = t.items
        /\ u.todo = t.todo /\ u.calls = t.calls /\ u.polls = t.polls /\ u.short = t.short
    <3> HIDE DEF at
    <3> QED
      BY <2>3, AtSet DEF u
  <2>5. at \in {"raised", "text"} /\ (at = "text" => PrimaryField(fields) # "none")
    OBVIOUS
  <2> HIDE DEF at
  <2>6. TryWell(modality, shards, u)
    BY <1>1, <1>2, <1>3, <2>4, <2>5 DEF TryWell, InPhase, Running
  <2>7. t.items = <<>> /\ t.calls = 0 /\ t.short = 0
    BY <1>1, <1>2 DEF TryText
  <2>8. KeptRows(<<>>, shards[t.i].count) /\ 0 \in 0..MaxAttempts
        /\ MadeUp(Len(<<>>), 0, shards[t.i].count, 0)
    BY <1>3, NoRowsYet
  <2>9. TryText(shards, fields, u)
    BY <2>4, <2>5, <2>7, <2>8 DEF TryText
  <2> QED
    BY <1>1, <2>1, <2>2, <2>4, <2>5, <2>6, <2>9, GoesOnKind DEF t, Running
<1> QED
  BY <1>4, <1>5

\* What a batch makes up for.
LEMMA BatchMakesUp ==
    ASSUME NEW len \in Nat, NEW kept \in Nat, len <= kept, NEW count \in Nat, len < count,
           NEW calls \in Nat, NEW short, MadeUp(len, short, count, calls),
           NEW batch, batch = IF count - len < BatchSize THEN count - len ELSE BatchSize,
           NEW more, more = IF kept - len < batch THEN batch - (kept - len) ELSE 0
    PROVE  MadeUp(kept, short + more, count, calls + 1)
<1>1. BatchSize \in Int /\ short \in Int /\ batch \in Int /\ more \in Int
  BY DirectivesAssumption DEF MadeUp
<1>2. BatchSize * (calls + 1) = BatchSize * calls + BatchSize
  BY <1>1
<1>3. BatchSize * calls \in Int
  BY <1>1
<1> DEFINE all == BatchSize * calls
           next == BatchSize * (calls + 1)
<1>4. all \in Int /\ next = all + BatchSize
  BY <1>2, <1>3
<1>5. CASE BatchSize >= 0
  <2>1. short >= 0 /\ (len + short >= count \/ len + short >= all)
    BY <1>5 DEF MadeUp
  <2> HIDE DEF all, next
  <2>2. batch >= 0 /\ more >= 0 /\ kept + more >= len + batch
    BY <1>1, <1>5
  <2>3. short + more \in Int /\ short + more >= 0
    BY <1>1, <2>1, <2>2
  <2>4. kept + (short + more) >= count \/ kept + (short + more) >= next
    BY <1>1, <1>4, <1>5, <2>1, <2>2
  <2> QED
    BY <1>1, <1>5, <2>3, <2>4 DEF MadeUp, next
<1>6. CASE BatchSize < 0
  <2>1. len + short >= all
    BY <1>6 DEF MadeUp
  <2> HIDE DEF all, next
  <2>2. more = 0
    BY <1>1, <1>6
  <2>3. short + more \in Int /\ kept + (short + more) >= next
    BY <1>1, <1>4, <1>6, <2>1, <2>2
  <2> QED
    BY <1>1, <1>6, <2>3 DEF MadeUp, next
<1> QED
  BY <1>1, <1>5, <1>6

LEMMA TextBatchKind ==
    ASSUME MediaInv, NEW n \in Tries, TextBatch(n)
    PROVE  Kinds(n)
<1> DEFINE t == tries[n]
           count == shards[t.i].count
<1>1. t.at = "text" /\ t.calls < MaxAttempts /\ Len(t.items) < count
  BY DEF TextBatch, Looping, Runs, Cut
<1>2. modality = "text"
  <2>1. TryWell(modality, shards, t)
    BY TryParts
  <2> QED
    BY <1>1, <2>1 DEF TryWell, InPhase
<1>3. TryWell(modality, shards, t) /\ TryText(shards, fields, t) /\ pc = "done"
  BY <1>1, <1>2, TryParts
<1>4. t.i \in DOMAIN shards /\ count \in Nat /\ IsTry(t)
  <2>1. t.i \in DOMAIN shards /\ IsTry(t)
    BY <1>1, <1>3 DEF TryWell, Running
  <2> QED
    BY <1>3, <2>1, CutParts
<1>5. /\ KeptRows(t.items, count) /\ t.calls \in 0..MaxAttempts
      /\ MadeUp(Len(t.items), t.short, count, t.calls) /\ PrimaryField(fields) # "none"
  BY <1>1, <1>3 DEF TryText
<1>6. PICK reply \in Replies :
        LET kept == Keep(t.items, reply, count)
            got  == Len(kept) - Len(t.items)
        IN  tries' = [tries EXCEPT ![n].items = kept, ![n].calls = @ + 1,
                ![n].short = @ + (IF got < ThisBatch(n) THEN ThisBatch(n) - got ELSE 0)]
  BY DEF TextBatch, Cut
<1>7. Frame /\ store' = store
  BY DEF TextBatch
<1> DEFINE kept == Keep(t.items, reply, count)
           batch == ThisBatch(n)
           more == IF Len(kept) - Len(t.items) < batch THEN batch - (Len(kept) - Len(t.items)) ELSE 0
           a == ItemsOf(t, kept)
           b == CallsOf(a, t.calls + 1)
           u == ShortOf(b, t.short + more)
<1>8. tries' = [tries EXCEPT ![n] = u]
  <2>1. tries = [k \in Tries |-> tries[k]]
    BY TryParts
  <2>2. tries' = [tries EXCEPT ![n].items = kept, ![n].calls = @ + 1, ![n].short = @ + more]
    BY <1>6
  <2> HIDE DEF kept, batch, more
  <2>3. t = tries[n] /\ IsTry(t)
    BY <1>4
  <2>4. tries' = [tries EXCEPT ![n] = [t EXCEPT !.items = kept, !.calls = @ + 1, !.short = @ + more]]
    BY <2>1, <2>2
  <2> HIDE DEF t
  <2>5. a.calls = t.calls /\ a.short = t.short /\ IsTry(a)
    <3> HIDE DEF a
    <3> QED
      BY <2>3, ItemsSet DEF a
  <2>6. b.short = t.short
    <3>1. b = CallsOf(a, t.calls + 1)
      OBVIOUS
    <3> HIDE DEF a, b
    <3> QED
      BY <2>5, <3>1, CallsSet
  <2>7. [t EXCEPT !.items = kept, !.calls = @ + 1, !.short = @ + more]
          = [[a EXCEPT !.calls = a.calls + 1] EXCEPT !.short = [a EXCEPT !.calls = a.calls + 1].short + more]
    BY DEF ItemsOf
  <2>8. [a EXCEPT !.calls = a.calls + 1] = b
    <3> HIDE DEF a
    <3> QED
      BY <2>5 DEF CallsOf
  <2>9. u = [b EXCEPT !.short = b.short + more]
    <3> HIDE DEF b, more
    <3> QED
      BY <2>6 DEF ShortOf
  <2> HIDE DEF a, b, u
  <2> QED
    BY <2>4, <2>7, <2>8, <2>9
<1>9. Len(t.items) \in Nat /\ t.calls \in Nat /\ t.calls + 1 \in 0..MaxAttempts
  <2>1. t.items \in Seq(Row)
    BY <1>5 DEF KeptRows
  <2>2. t.calls \in 0..MaxAttempts /\ MaxAttempts \in Nat
    BY <1>5, DirectivesAssumption
  <2> HIDE DEF t
  <2> QED
    BY <1>1, <2>1, <2>2
<1>10. KeptRows(kept, count) /\ Len(kept) >= Len(t.items) /\ Len(kept) \in Nat
  <2>1. reply \in Seq(Row)
    BY RepliesAssumption
  <2>2. Len(reply) \in Nat /\ DOMAIN reply = 1..Len(reply)
    BY <2>1
  <2>3. KeptRows(kept, count) /\ Len(kept) >= Len(t.items)
    <3> HIDE DEF t, count
    <3> QED
      BY <1>4, <1>5, <2>1, <2>2, KeepStays
  <2>4. Len(kept) \in Nat
    <3> HIDE DEF kept
    <3> QED
      BY <2>3 DEF KeptRows
  <2> QED
    BY <2>3, <2>4
<1>11. batch = IF count - Len(t.items) < BatchSize THEN count - Len(t.items) ELSE BatchSize
  BY DEF ThisBatch, Cut
<1>12. more = IF Len(kept) - Len(t.items) < batch THEN batch - (Len(kept) - Len(t.items)) ELSE 0
  OBVIOUS
<1> HIDE DEF kept, batch, more, count
<1>13. MadeUp(Len(kept), t.short + more, count, t.calls + 1)
  <2> HIDE DEF t
  <2>1. Len(t.items) <= Len(kept) /\ Len(t.items) < count
    BY <1>1, <1>9, <1>10
  <2> QED
    BY <1>4, <1>5, <1>9, <1>10, <1>11, <1>12, <2>1, BatchMakesUp
<1> HIDE DEF t
<1>14. /\ IsTry(u) /\ u.at = t.at /\ u.lost = t.lost /\ u.by = t.by /\ u.i = t.i /\ u.items = kept
       /\ u.calls = t.calls + 1 /\ u.short = t.short + more
  <2>1. /\ IsTry(a) /\ a.at = t.at /\ a.lost = t.lost /\ a.by = t.by /\ a.i = t.i /\ a.items = kept
    <3> HIDE DEF a
    <3> QED
      BY <1>4, ItemsSet DEF a
  <2> HIDE DEF a
  <2>2. /\ IsTry(b) /\ b.at = t.at /\ b.lost = t.lost /\ b.by = t.by /\ b.i = t.i /\ b.items = kept
        /\ b.calls = t.calls + 1
    <3> HIDE DEF b
    <3> QED
      BY <2>1, CallsSet DEF b
  <2> HIDE DEF b, u
  <2> QED
    BY <2>2, ShortSet DEF u
<1> HIDE DEF u, a, b
<1>15. TryWell(modality, shards, u)
  BY <1>1, <1>2, <1>3, <1>4, <1>14 DEF TryWell, InPhase, Running
<1>16. TryText(shards, fields, u)
  BY <1>1, <1>5, <1>9, <1>10, <1>13, <1>14 DEF TryText, count
<1> QED
  BY <1>1, <1>2, <1>7, <1>8, <1>14, <1>15, <1>16, GoesOnKind DEF t, Running
LEMMA TextUnparseableKind ==
    ASSUME MediaInv, NEW n \in Tries, TextUnparseable(n)
    PROVE  Kinds(n)
<1> DEFINE t == tries[n]
           count == shards[t.i].count
           batch == ThisBatch(n)
           b == CallsOf(t, t.calls + 1)
           u == ShortOf(b, t.short + batch)
<1>1. t.at = "text" /\ t.calls < MaxAttempts /\ Len(t.items) < count
      /\ tries' = [tries EXCEPT ![n].calls = @ + 1, ![n].short = @ + batch] /\ Frame /\ store' = store
  BY DEF TextUnparseable, Looping, Runs, Cut
<1>2. modality = "text"
  <2>1. TryWell(modality, shards, t)
    BY TryParts
  <2> QED
    BY <1>1, <2>1 DEF TryWell, InPhase
<1>3. TryWell(modality, shards, t) /\ TryText(shards, fields, t) /\ pc = "done"
  BY <1>1, <1>2, TryParts
<1>4. t.i \in DOMAIN shards /\ count \in Nat /\ IsTry(t)
  <2>1. t.i \in DOMAIN shards /\ IsTry(t)
    BY <1>1, <1>3 DEF TryWell, Running
  <2> QED
    BY <1>3, <2>1, CutParts
<1>5. /\ KeptRows(t.items, count) /\ t.calls \in 0..MaxAttempts
      /\ MadeUp(Len(t.items), t.short, count, t.calls) /\ PrimaryField(fields) # "none"
  BY <1>1, <1>3 DEF TryText
<1>6. tries' = [tries EXCEPT ![n] = u]
  <2>1. tries = [k \in Tries |-> tries[k]]
    BY TryParts
  <2> HIDE DEF batch
  <2>2. t = tries[n]
    OBVIOUS
  <2>3. tries' = [tries EXCEPT ![n] = [t EXCEPT !.calls = @ + 1, !.short = @ + batch]]
    BY <1>1, <2>1
  <2> HIDE DEF t
  <2>4. [t EXCEPT !.calls = @ + 1, !.short = @ + batch] = [b EXCEPT !.short = b.short + batch]
    BY DEF CallsOf
  <2>5. b.short = t.short
    <3> HIDE DEF b
    <3> QED
      BY <1>4, CallsSet DEF b
  <2>6. u = [b EXCEPT !.short = b.short + batch]
    <3> HIDE DEF b
    <3> QED
      BY <2>5 DEF ShortOf
  <2> HIDE DEF b, u
  <2> QED
    BY <2>3, <2>4, <2>6
<1>7. Len(t.items) \in Nat /\ t.calls \in Nat /\ t.calls + 1 \in 0..MaxAttempts
  <2>1. t.items \in Seq(Row)
    BY <1>5 DEF KeptRows
  <2>2. t.calls \in 0..MaxAttempts /\ MaxAttempts \in Nat
    BY <1>5, DirectivesAssumption
  <2> HIDE DEF t
  <2> QED
    BY <1>1, <2>1, <2>2
<1>8. batch = IF count - Len(t.items) < BatchSize THEN count - Len(t.items) ELSE BatchSize
  BY DEF ThisBatch, Cut
<1> HIDE DEF batch, count, t
<1>9. MadeUp(Len(t.items), t.short + batch, count, t.calls + 1)
  <2> DEFINE len == Len(t.items)
             all == BatchSize * t.calls
             next == BatchSize * (t.calls + 1)
  <2>1. BatchSize \in Int /\ t.short \in Int /\ len \in Nat /\ len < count /\ batch \in Int
    BY <1>1, <1>4, <1>5, <1>7, <1>8, DirectivesAssumption DEF MadeUp, t, count
  <2>2. all \in Int /\ next = all + BatchSize
    BY <1>7, <2>1
  <2>3. BatchSize >= 0 => t.short >= 0 /\ (len + t.short >= count \/ len + t.short >= all)
    BY <1>5 DEF MadeUp
  <2>4. BatchSize < 0 => len + t.short >= all
    BY <1>5 DEF MadeUp
  <2>5. batch = IF count - len < BatchSize THEN count - len ELSE BatchSize
    BY <1>8
  <2> HIDE DEF len, all, next
  <2>6. t.short + batch \in Int
    BY <2>1
  <2>7. BatchSize >= 0 => /\ t.short + batch >= 0
                          /\ len + (t.short + batch) >= count \/ len + (t.short + batch) >= next
    BY <1>4, <2>1, <2>2, <2>3, <2>5
  <2>8. BatchSize < 0 => len + (t.short + batch) >= next
    BY <1>4, <2>1, <2>2, <2>4, <2>5
  <2> QED
    BY <2>6, <2>7, <2>8 DEF MadeUp, len, next
<1>10. /\ IsTry(u) /\ u.at = t.at /\ u.lost = t.lost /\ u.by = t.by /\ u.i = t.i /\ u.items = t.items
       /\ u.calls = t.calls + 1 /\ u.short = t.short + batch
  <2>1. /\ IsTry(b) /\ b.at = t.at /\ b.lost = t.lost /\ b.by = t.by /\ b.i = t.i /\ b.items = t.items
        /\ b.calls = t.calls + 1
    <3> HIDE DEF b
    <3> QED
      BY <1>4, CallsSet DEF b
  <2> HIDE DEF b, u
  <2> QED
    BY <2>1, ShortSet DEF u
<1> HIDE DEF u, b
<1>11. TryWell(modality, shards, u)
  BY <1>1, <1>2, <1>3, <1>4, <1>10 DEF TryWell, InPhase, Running
<1>12. TryText(shards, fields, u)
  BY <1>1, <1>5, <1>7, <1>9, <1>10 DEF TryText, count
<1> QED
  BY <1>1, <1>2, <1>6, <1>10, <1>11, <1>12, GoesOnKind DEF t, Running

LEMMA EndTextKind ==
    ASSUME MediaInv, NEW n \in Tries, EndText(n)
    PROVE  Kinds(n)
<1>1. tries[n].at = "text" /\ PutShard(n, tries[n].items)
  BY DEF EndText, Runs
<1>2. modality = "text"
  <2>1. TryWell(modality, shards, tries[n])
    BY TryParts
  <2> QED
    BY <1>1, <2>1 DEF TryWell, InPhase
<1> QED
  BY <1>1, <1>2, PutShardKind DEF Running

LEMMA SynthesizeKind ==
    ASSUME MediaInv, NEW n \in Tries, Synthesize(n)
    PROVE  Kinds(n)
<1> DEFINE t == tries[n]
           cut == shards[t.i]
<1>1. modality = "audio" /\ t.at = "shard" /\ Frame /\ store' = store
  BY DEF Synthesize, Runs
<1>2. PICK items \in AudioShards(t.i) :
        tries' = [tries EXCEPT ![n].at = "clips", ![n].items = items, ![n].todo = items]
  BY DEF Synthesize
<1>3. TryWell(modality, shards, t) /\ IsTry(t) /\ t.i \in DOMAIN shards
  <2>1. TryWell(modality, shards, t)
    BY TryParts
  <2> QED
    BY <1>1, <2>1 DEF TryWell, Running
<1>4. cut.count \in Nat /\ cut.start \in Nat
  <2>1. pc = "done"
    BY <1>1, TryParts
  <2> QED
    BY <1>3, <2>1, CutParts
<1> DEFINE a == AtOf(t, "clips")
           b == ItemsOf(a, items)
           u == TodoOf(b, items)
<1>5. tries' = [tries EXCEPT ![n] = u]
  <2>1. tries = [k \in Tries |-> tries[k]]
    BY TryParts
  <2> QED
    BY <1>2, <2>1 DEF AtOf, ItemsOf, TodoOf
<1> HIDE DEF t, cut
<1>6. PICK fmt : items = [j \in 1..cut.count |->
                            Item(Indices(cut)[j], Indices(cut)[j], Indices(cut)[j], "none", fmt[j])]
  BY <1>2 DEF AudioShards, cut
<1>7. ASSUME NEW j \in 1..cut.count
      PROVE  items[j].index = cut.start + j - 1 /\ items[j].seed = cut.start + j - 1 /\ items[j].by = "none"
  <2>1. items[j] = Item(Indices(cut)[j], Indices(cut)[j], Indices(cut)[j], "none", fmt[j])
    BY <1>6
  <2>2. Indices(cut)[j] = cut.start + j - 1
    BY DEF Indices
  <2> QED
    BY <2>1, <2>2 DEF Item
<1>8. IsSeq(items) /\ Len(items) = cut.count /\ DOMAIN items = 1..cut.count
  <2>1. items = [j \in 1..cut.count |-> items[j]]
    BY <1>6
  <2> QED
    BY <1>4, <2>1, FunctionIsSeq
<1>9. Filled(modality, cut, items) /\ Suffix(items, items)
  BY <1>1, <1>4, <1>7, <1>8, AllIsLeft DEF Filled, Partly, Made
<1>10. /\ IsTry(u) /\ u.at = "clips" /\ u.lost = t.lost /\ u.by = t.by /\ u.i = t.i /\ u.items = items
       /\ u.todo = items
  <2>1. /\ IsTry(a) /\ a.at = "clips" /\ a.lost = t.lost /\ a.by = t.by /\ a.i = t.i
    <3> HIDE DEF a
    <3> QED
      BY <1>3, AtSet DEF a
  <2> HIDE DEF a
  <2>2. /\ IsTry(b) /\ b.at = "clips" /\ b.lost = t.lost /\ b.by = t.by /\ b.i = t.i /\ b.items = items
    <3> HIDE DEF b
    <3> QED
      BY <2>1, ItemsSet DEF b
  <2> HIDE DEF b, u
  <2> QED
    BY <2>2, TodoSet DEF u
<1> HIDE DEF u, a, b
<1>11. TryWell(modality, shards, u)
  BY <1>1, <1>3, <1>9, <1>10 DEF TryWell, InPhase, Running, cut
<1> QED
  BY <1>1, <1>5, <1>10, <1>11, GoesOnKind DEF t, Running

LEMMA StartPredictionKind ==
    ASSUME MediaInv, NEW n \in Tries, StartPrediction(n)
    PROVE  Kinds(n)
<1> DEFINE t == tries[n]
           a == AtOf(t, "poll")
           u == PollsOf(a, 0)
<1>1. modality = "video" /\ t.at = "shard" /\ Len(t.items) < shards[t.i].count
      /\ tries' = [tries EXCEPT ![n].at = "poll", ![n].polls = 0] /\ Frame /\ store' = store
  BY DEF StartPrediction, Runs, Cut
<1>2. TryWell(modality, shards, t) /\ IsTry(t)
  <2>1. TryWell(modality, shards, t)
    BY TryParts
  <2> QED
    BY <2>1 DEF TryWell
<1>3. tries' = [tries EXCEPT ![n] = u]
  <2>1. tries = [k \in Tries |-> tries[k]]
    BY TryParts
  <2> QED
    BY <1>1, <2>1 DEF AtOf, PollsOf
<1> HIDE DEF t
<1>4. /\ IsTry(u) /\ u.at = "poll" /\ u.lost = t.lost /\ u.by = t.by /\ u.i = t.i /\ u.items = t.items
  <2>1. /\ IsTry(a) /\ a.at = "poll" /\ a.lost = t.lost /\ a.by = t.by /\ a.i = t.i /\ a.items = t.items
    <3> HIDE DEF a
    <3> QED
      BY <1>2, AtSet DEF a
  <2> HIDE DEF a, u
  <2> QED
    BY <2>1, PollsSet DEF u
<1> HIDE DEF u, a
<1>5. TryWell(modality, shards, u)
  BY <1>1, <1>2, <1>4 DEF TryWell, InPhase, Running
<1> QED
  BY <1>1, <1>3, <1>4, <1>5, GoesOnKind DEF t, Running

LEMMA PollKind ==
    ASSUME MediaInv, NEW n \in Tries, Poll(n)
    PROVE  Kinds(n)
<1> DEFINE t == tries[n]
<1>1. t.at = "poll" /\ Frame /\ store' = store
  BY DEF Poll, Runs
<1>2. PICK status \in {"starting", "processing", "succeeded", "failed", "canceled"} :
        tries' = [tries EXCEPT ![n].polls = @ + 1,
                      ![n].at = CASE status \in {"starting", "processing"} -> "poll"
                                  [] status = "succeeded" -> "download"
                                  [] OTHER -> "raised"]
  BY DEF Poll
<1>3. TryWell(modality, shards, t) /\ IsTry(t) /\ modality = "video"
  <2>1. TryWell(modality, shards, t)
    BY TryParts
  <2> QED
    BY <1>1, <2>1 DEF TryWell, InPhase
<1> DEFINE at == CASE status \in {"starting", "processing"} -> "poll"
                   [] status = "succeeded" -> "download"
                   [] OTHER -> "raised"
           a == PollsOf(t, t.polls + 1)
           u == AtOf(a, at)
<1>4. at \in {"poll", "download", "raised"}
  BY SMT
<1>5. tries' = [tries EXCEPT ![n] = u]
  <2>1. tries = [k \in Tries |-> tries[k]]
    BY TryParts
  <2>2. tries' = [tries EXCEPT ![n].polls = @ + 1, ![n].at = at]
    BY <1>2
  <2> HIDE DEF at
  <2> QED
    BY <2>1, <2>2 DEF AtOf, PollsOf
<1> HIDE DEF t, at
<1>6. /\ IsTry(u) /\ u.at = at /\ u.lost = t.lost /\ u.by = t.by /\ u.i = t.i /\ u.items = t.items
  <2>1. /\ IsTry(a) /\ a.lost = t.lost /\ a.by = t.by /\ a.i = t.i /\ a.items = t.items
    <3> HIDE DEF a
    <3> QED
      BY <1>3, PollsSet DEF a
  <2> HIDE DEF a, u
  <2> QED
    BY <2>1, AtSet DEF u
<1> HIDE DEF u, a
<1>7. TryWell(modality, shards, u)
  BY <1>1, <1>3, <1>4, <1>6 DEF TryWell, InPhase, Running
<1> QED
  BY <1>1, <1>3, <1>4, <1>5, <1>6, <1>7, GoesOnKind DEF t, Running

LEMMA DownloadKind ==
    ASSUME MediaInv, NEW n \in Tries, Download(n)
    PROVE  Kinds(n)
<1> DEFINE t == tries[n]
           cut == shards[t.i]
           item == VideoItem(cut.start + Len(t.items), t.by)
           items == Append(t.items, item)
           a == AtOf(t, "shard")
           u == ItemsOf(a, items)
<1>1. t.at = "download" /\ Frame /\ store' = store
      /\ tries' = [tries EXCEPT ![n].at = "shard",
                     ![n].items = Append(@, VideoItem(Cut(n).start + Len(@), tries[n].by))]
  BY DEF Download, Runs
<1>2. TryWell(modality, shards, t) /\ IsTry(t) /\ modality = "video" /\ t.i \in DOMAIN shards
  <2>1. TryWell(modality, shards, t)
    BY TryParts
  <2> QED
    BY <1>1, <2>1 DEF TryWell, InPhase, Running
<1>3. tries' = [tries EXCEPT ![n] = u]
  <2>1. tries = [k \in Tries |-> tries[k]]
    BY TryParts
  <2>2. tries' = [tries EXCEPT ![n] = [t EXCEPT !.at = "shard",
                     !.items = Append(@, VideoItem(cut.start + Len(@), t.by))]]
    BY <1>1, <2>1 DEF Cut
  <2>3. a.items = t.items
    <3> HIDE DEF t, a
    <3> QED
      BY <1>2, AtSet DEF a
  <2>4. [t EXCEPT !.at = "shard", !.items = Append(@, VideoItem(cut.start + Len(@), t.by))]
          = [a EXCEPT !.items = Append(a.items, VideoItem(cut.start + Len(a.items), t.by))]
    BY DEF AtOf
  <2>5. u = [a EXCEPT !.items = Append(a.items, VideoItem(cut.start + Len(a.items), t.by))]
    <3> HIDE DEF a, t
    <3> QED
      BY <2>3 DEF ItemsOf
  <2> HIDE DEF t, u, a
  <2> QED
    BY <2>2, <2>4, <2>5 DEF t
<1>4. cut.count \in Nat /\ cut.start \in Nat
  <2>1. pc = "done"
    BY <1>1, TryParts
  <2> QED
    BY <1>2, <2>1, CutParts
<1>5. Partly(modality, cut, t.items) /\ Len(t.items) < cut.count
      /\ \A j \in DOMAIN t.items : t.items[j].by = t.by
  BY <1>1, <1>2 DEF TryWell
<1>6. IsSeq(t.items) /\ Len(t.items) \in Nat /\ DOMAIN t.items = 1..Len(t.items)
      /\ \A j \in DOMAIN t.items : Made(modality, t.items[j], cut.start + j - 1)
  <2>1. IsSeq(t.items) /\ \A j \in DOMAIN t.items : Made(modality, t.items[j], cut.start + j - 1)
    BY <1>5 DEF Partly
  <2> QED
    BY <2>1, SeqParts
<1> HIDE DEF t, cut
<1>7. item.index = cut.start + Len(t.items) /\ item.seed = cut.start + Len(t.items)
      /\ item.by = t.by /\ item.fmt = "mp4"
  BY DEF VideoItem, Item
<1> HIDE DEF item
<1>8. /\ IsSeq(items) /\ Len(items) = Len(t.items) + 1
      /\ DOMAIN items = 1..(Len(t.items) + 1)
      /\ \A j \in 1..Len(t.items) : items[j] = t.items[j]
      /\ items[Len(t.items) + 1] = item
  BY <1>6, AppendIs
<1> HIDE DEF items
<1>9. ASSUME NEW j \in DOMAIN items
      PROVE  Made(modality, items[j], cut.start + j - 1) /\ items[j].by = t.by
  <2>1. CASE j \in 1..Len(t.items)
    BY <1>5, <1>6, <1>8, <2>1
  <2>2. CASE j = Len(t.items) + 1
    <3>1. cut.start + j - 1 = cut.start + Len(t.items)
      BY <1>4, <1>6, <2>2
    <3> QED
      BY <1>2, <1>7, <1>8, <2>2, <3>1 DEF Made
  <2> QED
    BY <1>6, <1>8, <2>1, <2>2
<1>10. Partly(modality, cut, items)
  <2>1. Len(items) <= cut.count
    BY <1>4, <1>5, <1>6, <1>8
  <2> QED
    BY <1>8, <1>9, <2>1 DEF Partly
<1>11. /\ IsTry(u) /\ u.at = "shard" /\ u.lost = t.lost /\ u.by = t.by /\ u.i = t.i /\ u.items = items
  <2>1. /\ IsTry(a) /\ a.at = "shard" /\ a.lost = t.lost /\ a.by = t.by /\ a.i = t.i
    <3> HIDE DEF a
    <3> QED
      BY <1>2, AtSet DEF a
  <2> HIDE DEF a, u
  <2> QED
    BY <2>1, ItemsSet DEF u
<1> HIDE DEF u, a
<1>12. TryWell(modality, shards, u)
  BY <1>1, <1>2, <1>9, <1>10, <1>11 DEF TryWell, InPhase, Running, cut
<1> QED
  BY <1>1, <1>2, <1>3, <1>11, <1>12, GoesOnKind DEF t, Running

LEMMA VideosReadyKind ==
    ASSUME MediaInv, NEW n \in Tries, VideosReady(n)
    PROVE  Kinds(n)
<1> DEFINE t == tries[n]
           a == AtOf(t, "clips")
           u == TodoOf(a, t.items)
<1>1. modality = "video" /\ t.at = "shard" /\ Len(t.items) = shards[t.i].count
      /\ tries' = [tries EXCEPT ![n].at = "clips", ![n].todo = tries[n].items] /\ Frame /\ store' = store
  BY DEF VideosReady, Runs, Cut
<1>2. TryWell(modality, shards, t) /\ IsTry(t)
  <2>1. TryWell(modality, shards, t)
    BY TryParts
  <2> QED
    BY <2>1 DEF TryWell
<1>3. tries' = [tries EXCEPT ![n] = u]
  <2>1. tries = [k \in Tries |-> tries[k]]
    BY TryParts
  <2> QED
    BY <1>1, <2>1 DEF AtOf, TodoOf
<1> HIDE DEF t
<1>4. /\ IsTry(u) /\ u.at = "clips" /\ u.lost = t.lost /\ u.by = t.by /\ u.i = t.i /\ u.items = t.items
      /\ u.todo = t.items
  <2>1. /\ IsTry(a) /\ a.at = "clips" /\ a.lost = t.lost /\ a.by = t.by /\ a.i = t.i /\ a.items = t.items
    <3> HIDE DEF a
    <3> QED
      BY <1>2, AtSet DEF a
  <2> HIDE DEF a, u
  <2> QED
    BY <2>1, TodoSet DEF u
<1> HIDE DEF u, a
<1>5. Filled(modality, shards[t.i], t.items) /\ IsSeq(t.items)
  BY <1>1, <1>2 DEF TryWell, Filled, Partly
<1>6. Suffix(t.items, t.items)
  BY <1>5, AllIsLeft
<1>7. TryWell(modality, shards, u)
  BY <1>1, <1>2, <1>4, <1>5, <1>6 DEF TryWell, InPhase, Running
<1> QED
  BY <1>1, <1>3, <1>4, <1>7, GoesOnKind DEF t, Running

LEMMA PutClipKind ==
    ASSUME MediaInv, NEW n \in Tries, PutClip(n)
    PROVE  Kinds(n)
<1> DEFINE t == tries[n]
           u == TodoOf(t, Tail(t.todo))
<1>1. t.at = "clips" /\ t.todo # <<>> /\ Frame
      /\ store' = Put(store, KeyOf(Head(t.todo)), <<Head(t.todo)>>)
      /\ tries' = [tries EXCEPT ![n].todo = Tail(@)]
  BY DEF PutClip, Runs, PutObject, Put, ClipKey, KeyOf
<1>2. TryWell(modality, shards, t) /\ IsTry(t) /\ modality \in {"audio", "video"} /\ pc = "done"
  <2>1. TryWell(modality, shards, t) /\ pc = "done"
    BY <1>1, TryParts
  <2> QED
    BY <1>1, <2>1 DEF TryWell, InPhase
<1>3. tries = [k \in Tries |-> tries[k]]
  BY TryParts
<1>4. tries' = With(tries, n, u)
  <2>1. tries' = [tries EXCEPT ![n] = u]
    BY <1>1, <1>3 DEF TodoOf
  <2> QED
    BY <1>3, <2>1, WithIs
<1> HIDE DEF t
<1>5. /\ IsTry(u) /\ u.at = "clips" /\ u.lost = t.lost /\ u.by = t.by /\ u.i = t.i /\ u.items = t.items
      /\ u.todo = Tail(t.todo)
  <2> HIDE DEF u
  <2> QED
    BY <1>1, <1>2, TodoSet DEF u
<1> HIDE DEF u
<1>6. Filled(modality, shards[t.i], t.items) /\ Suffix(t.todo, t.items) /\ IsSeq(t.items)
  BY <1>1, <1>2 DEF TryWell, Filled, Partly
<1>7. Suffix(Tail(t.todo), t.items)
  BY <1>1, <1>6, LessIsLeft
<1>8. TryWell(modality, shards, u)
  BY <1>1, <1>2, <1>5, <1>6, <1>7 DEF TryWell, InPhase, Running
<1>9. Steps(n, u)
  BY <1>1, <1>2, <1>4, <1>5, <1>8 DEF Steps, t
<1>10. StoresClip(n, u)
  BY <1>1, <1>5, <1>9 DEF StoresClip, t
<1> QED
  BY <1>10 DEF Kinds

LEMMA PutFragmentKind ==
    ASSUME MediaInv, NEW n \in Tries, PutFragment(n)
    PROVE  Kinds(n)
<1>1. tries[n].at = "clips" /\ tries[n].todo = <<>> /\ PutShard(n, tries[n].items)
  BY DEF PutFragment, Runs
<1>2. modality \in {"audio", "video"}
  <2>1. TryWell(modality, shards, tries[n])
    BY TryParts
  <2> QED
    BY <1>1, <2>1 DEF TryWell, InPhase
<1> QED
  BY <1>1, <1>2, PutShardKind DEF Running

LEMMA AttemptKinds ==
    ASSUME MediaInv, NEW n \in Tries, StartTry(n) \/ GiveUp(n) \/ Raise(n) \/ TryStep(n)
    PROVE  Kinds(n)
<1>1. CASE StartTry(n)
  BY <1>1, StartTryKind
<1>2. CASE GiveUp(n)
  BY <1>2, GiveUpKind
<1>3. CASE Raise(n)
  BY <1>3, RaiseKind
<1>4. CASE GenerateTabular(n)
  BY <1>4, TabularKind
<1>5. CASE GenerateImages(n)
  BY <1>5, ImagesKind
<1>6. CASE StartText(n)
  BY <1>6, StartTextKind
<1>7. CASE TextBatch(n)
  BY <1>7, TextBatchKind
<1>8. CASE TextUnparseable(n)
  BY <1>8, TextUnparseableKind
<1>9. CASE EndText(n)
  BY <1>9, EndTextKind
<1>10. CASE NoText(n)
  <2>1. Raise(n)
    BY <1>10 DEF NoText
  <2> QED
    BY <2>1, RaiseKind
<1>11. CASE Synthesize(n)
  BY <1>11, SynthesizeKind
<1>12. CASE StartPrediction(n)
  BY <1>12, StartPredictionKind
<1>13. CASE Poll(n)
  BY <1>13, PollKind
<1>14. CASE PollsSpent(n)
  <2>1. Raise(n)
    BY <1>14 DEF PollsSpent
  <2> QED
    BY <2>1, RaiseKind
<1>15. CASE Download(n)
  BY <1>15, DownloadKind
<1>16. CASE VideosReady(n)
  BY <1>16, VideosReadyKind
<1>17. CASE PutClip(n)
  BY <1>17, PutClipKind
<1>18. CASE PutFragment(n)
  BY <1>18, PutFragmentKind
<1> QED
  BY <1>1, <1>2, <1>3, <1>4, <1>5, <1>6, <1>7, <1>8, <1>9, <1>10, <1>11, <1>12, <1>13, <1>14, <1>15,
     <1>16, <1>17, <1>18 DEF TryStep
-----------------------------------------------------------------------------
(* What a step of an attempt keeps.                                        *)

LEMMA KeyParts ==
  /\ \A i : ShardKey(i)[1] = "shard" /\ ShardKey(i)[2] = i
  /\ \A item : KeyOf(item)[1] = "clip" /\ KeyOf(item)[2] = item.index
               /\ KeyOf(item) = <<"clip", item.index, item.fmt>>
  /\ ArtifactKey[1] = "artifact" /\ ManifestKey[1] = "manifest"
<1>1. \A i : ShardKey(i)[1] = "shard" /\ ShardKey(i)[2] = i
  BY DEF ShardKey
<1>2. \A item : KeyOf(item)[1] = "clip" /\ KeyOf(item)[2] = item.index
                /\ KeyOf(item) = <<"clip", item.index, item.fmt>>
  BY DEF KeyOf
<1>3. ArtifactKey[1] = "artifact" /\ ManifestKey[1] = "manifest"
  BY DEF ArtifactKey, ManifestKey
<1> QED
  BY <1>1, <1>2, <1>3

LEMMA WithParts ==
    ASSUME NEW ts, NEW n \in Tries, NEW u, NEW ts2, ts2 = With(ts, n, u)
    PROVE  /\ ts2[n] = u /\ (\A k \in Tries : k # n => ts2[k] = ts[k])
           /\ ts2 = [k \in Tries |-> ts2[k]]
  BY DEF With

LEMMA WrittenGrows ==
    ASSUME NEW st, NEW st2, NEW t, Written(st, t), DOMAIN st \subseteq DOMAIN st2
    PROVE  Written(st2, t)
  BY DEF Written

\* The plan stays as it is.
LEMMA PlanStays ==
    ASSUME MediaInv, UNCHANGED vars
    PROVE  PlanInv' /\ Anchored'
<1>1. PlanInv /\ Anchored
  BY DEF MediaInv
<1> QED
  BY <1>1, PlanKeeps, AnchoredKeeps

\* The attempts after a step of one of them.
LEMMA AttemptsKept ==
    ASSUME MediaInv, NEW n \in Tries, NEW u, Steps(n, u), DOMAIN store \subseteq DOMAIN store',
           Written(store', u)
    PROVE  PlanInv' /\ Anchored' /\ Attempts' /\ TextWell'
<1>1. /\ UNCHANGED <<vars, modality, fields, config, changed, asm>> /\ pc = "done"
      /\ tries' = With(tries, n, u)
      /\ TryWell(modality, shards, u)
      /\ modality = "text" => TryText(shards, fields, u)
      /\ tries[n].at \notin {"raised", "done"} /\ u.at # "off"
      /\ tries[n].lost => u.lost
      /\ tries[n].at = "off" =>
           /\ u.by = config
           /\ \A k \in Tries : k < n => tries[k].at # "off" /\ (tries[k].at = "raised" \/ tries[k].lost)
      /\ tries[n].at # "off" => u.by = tries[n].by
  BY DEF Steps, Frame
<1>2. /\ shards' = shards /\ pc' = pc /\ modality' = modality /\ fields' = fields
      /\ config' = config /\ changed' = changed
  BY <1>1 DEF vars
<1>3. /\ tries'[n] = u /\ (\A k \in Tries : k # n => tries'[k] = tries[k])
      /\ tries' = [k \in Tries |-> tries'[k]]
  BY <1>1, WithParts
<1>4. PlanInv' /\ Anchored'
  BY <1>1, PlanStays
<1>5. Attempts /\ TextWell
  BY DEF MediaInv
<1>6. ASSUME NEW k \in Tries
      PROVE  TryWell(modality, shards, tries'[k]) /\ Written(store', tries'[k])
             /\ (modality = "text" => TryText(shards, fields, tries'[k]))
  <2>1. CASE k = n
    BY <1>1, <1>3, <2>1
  <2>2. CASE k # n
    <3>1. TryWell(modality, shards, tries[k]) /\ Written(store, tries[k])
          /\ (modality = "text" => TryText(shards, fields, tries[k]))
      BY TryParts
    <3>2. Written(store', tries[k])
      BY <3>1, WrittenGrows
    <3> QED
      BY <1>3, <2>2, <3>1, <3>2
  <2> QED
    BY <2>1, <2>2
<1>7. Ordered(tries')
  <2> SUFFICES ASSUME NEW l \in Tries, tries'[l].at # "off", NEW k \in Tries, k < l
               PROVE  tries'[k].at # "off" /\ (tries'[k].at = "raised" \/ tries'[k].lost)
    BY DEF Ordered
  <2>1. Ordered(tries)
    BY <1>5 DEF Attempts
  <2>2. CASE l = n
    <3>1. k # n
      BY <2>2 DEF Tries
    <3>2. tries[k].at # "off" /\ (tries[k].at = "raised" \/ tries[k].lost)
      <4>1. CASE tries[n].at = "off"
        BY <1>1, <2>2, <4>1
      <4>2. CASE tries[n].at # "off"
        BY <2>1, <2>2, <4>2 DEF Ordered
      <4> QED
        BY <4>1, <4>2
    <3> QED
      BY <1>3, <3>1, <3>2
  <2>3. CASE l # n
    <3>1. tries[k].at # "off" /\ (tries[k].at = "raised" \/ tries[k].lost)
      BY <1>3, <2>1, <2>3 DEF Ordered
    <3>2. CASE k = n
      BY <1>1, <1>3, <3>1, <3>2
    <3>3. CASE k # n
      BY <1>3, <3>1, <3>3
    <3> QED
      BY <3>2, <3>3
  <2> QED
    BY <2>2, <2>3
<1>8. OneConfig(tries', changed, config)
  <2> SUFFICES ASSUME ~changed, NEW k \in Tries, tries'[k].at # "off" PROVE tries'[k].by = config
    BY DEF OneConfig
  <2>1. \A j \in Tries : tries[j].at # "off" => tries[j].by = config
    BY <1>5 DEF Attempts, OneConfig
  <2>2. CASE k = n
    BY <1>1, <1>3, <2>1, <2>2
  <2>3. CASE k # n
    BY <1>3, <2>1, <2>3
  <2> QED
    BY <2>2, <2>3
<1>9. modality \in Modalities /\ changed \in BOOLEAN
  BY <1>5 DEF Attempts
<1>10. Attempts'
  BY <1>1, <1>2, <1>3, <1>6, <1>7, <1>8, <1>9 DEF Attempts
<1>11. TextWell'
  BY <1>2, <1>5, <1>6 DEF TextWell
<1> QED
  BY <1>4, <1>10, <1>11

\* The latest attempt is the one that steps, or it has the configuration of the
\* one that steps, unless the configuration was changed.
LEMMA OneWriter ==
    ASSUME MediaInv, NEW n \in Tries, NEW u, Steps(n, u), NEW l \in Tries,
           ~Mixed(tries', changed'), Latest(tries', l)
    PROVE  ~Mixed(tries, changed)
           /\ (l = n \/ (tries'[l] = tries[l] /\ Latest(tries, l)
                         /\ (tries[n].at # "off" => tries[l].by = tries[n].by)))
<1>1. /\ changed' = changed /\ tries' = With(tries, n, u)
      /\ tries[n].at \notin {"raised", "done"} /\ u.at # "off"
      /\ tries[n].lost => u.lost
  BY DEF Steps, Frame
<1>2. /\ tries'[n] = u /\ (\A k \in Tries : k # n => tries'[k] = tries[k])
  BY <1>1, WithParts
<1>3. ~Mixed(tries, changed)
  <2> SUFFICES ASSUME changed, NEW k \in Tries, tries[k].lost PROVE FALSE
    BY DEF Mixed
  <2>1. tries'[k].lost
    <3>1. CASE k = n
      BY <1>1, <1>2, <3>1
    <3>2. CASE k # n
      BY <1>2, <3>2
    <3> QED
      BY <3>1, <3>2
  <2> QED
    BY <1>1, <2>1 DEF Mixed
<1>4. ASSUME l # n
      PROVE  tries'[l] = tries[l] /\ Latest(tries, l)
             /\ (tries[n].at # "off" => tries[l].by = tries[n].by)
  <2>1. tries'[l] = tries[l] /\ tries[l].at # "off"
    BY <1>2, <1>4 DEF Latest
  <2>2. n < l
    <3>1. ~(n > l)
      BY <1>1, <1>2 DEF Latest
    <3> QED
      BY <1>4, <3>1, TriesAssumption DEF Tries
  <2>3. Latest(tries, l)
    <3>1. \A k \in Tries : k > l => k # n
      BY <2>2, TriesAssumption DEF Tries
    <3> QED
      BY <1>2, <2>1, <3>1 DEF Latest
  <2>4. ASSUME tries[n].at # "off" PROVE tries[l].by = tries[n].by
    <3>1. Ordered(tries) /\ OneConfig(tries, changed, config)
      BY DEF MediaInv, Attempts
    <3>2. tries[n].lost
      BY <1>1, <2>1, <2>2, <3>1 DEF Ordered
    <3>3. ~changed
      BY <1>3, <3>2 DEF Mixed
    <3> QED
      BY <2>1, <2>4, <3>1, <3>3 DEF OneConfig
  <2> QED
    BY <2>1, <2>3, <2>4
<1> QED
  BY <1>3, <1>4

\* Nothing is stored.
LEMMA GoesOnKeeps ==
    ASSUME MediaInv, NEW n \in Tries, NEW u, GoesOn(n, u)
    PROVE  Objects' /\ Written(store', u)
<1>1. /\ Steps(n, u) /\ store' = store
      /\ u.i = tries[n].i
      /\ u.at = "clips" => \/ u.todo = u.items
                           \/ tries[n].at = "clips" /\ u.items = tries[n].items /\ u.todo = tries[n].todo
  BY DEF GoesOn
<1>2. shards' = shards /\ modality' = modality /\ tries' = With(tries, n, u)
  BY <1>1 DEF Steps, Frame, vars
<1>3. StoreWell(modality, shards, store)
  BY DEF MediaInv, Objects
<1>4. ASSUME u.at = "clips", u.todo = u.items PROVE DoneOf(u.todo, u.items) = {}
  <2>1. IsSeq(u.items)
    BY <1>1, <1>4 DEF Steps, TryWell, Filled, Partly
  <2> QED
    BY <1>4, <2>1, DoneEnds
<1>5. Written(store', u)
  <2>1. Written(store, tries[n])
    BY TryParts
  <2> QED
    BY <1>1, <1>4, <2>1 DEF Written
<1>6. ASSUME modality = "video" PROVE Coherent(shards, tries', changed', store)
  <2> SUFFICES ASSUME ~Mixed(tries', changed'), NEW l \in Tries, Latest(tries', l)
               PROVE  /\ \A i \in 1..(tries'[l].i - 1) : OneBy(shards, store, i, tries'[l].by)
                      /\ tries'[l].at = "clips" =>
                           \A k \in DoneOf(tries'[l].todo, tries'[l].items) :
                             store[KeyOf(tries'[l].items[k])][1].by = tries'[l].by
    BY DEF Coherent
  <2>1. ~Mixed(tries, changed)
        /\ (l = n \/ (tries'[l] = tries[l] /\ Latest(tries, l)
                      /\ (tries[n].at # "off" => tries[l].by = tries[n].by)))
    BY <1>1, OneWriter
  <2>2. Coherent(shards, tries, changed, store)
    BY <1>6 DEF MediaInv, Objects
  <2>3. CASE l # n
    BY <2>1, <2>2, <2>3 DEF Coherent
  <2>4. CASE l = n
    <3>1. tries'[n] = u /\ \A k \in Tries : k # n => tries'[k] = tries[k]
      BY <1>2, WithParts
    <3>2. CASE tries[n].at = "off"
      <4>1. tries[n] = Fresh
        <5>1. TryWell(modality, shards, tries[n])
          BY TryParts
        <5> QED
          BY <3>2, <5>1 DEF TryWell
      <4>2. Fresh.i = 1
        BY SMT DEF Fresh
      <4>3. u.i = 1
        BY <1>1, <4>1, <4>2
      <4>4. u.at = "clips" => DoneOf(u.todo, u.items) = {}
        BY <1>1, <1>4, <3>2
      <4> QED
        BY <2>4, <3>1, <4>3, <4>4
    <3>3. CASE tries[n].at # "off"
      <4>1. u.by = tries[n].by /\ u.at # "off"
        BY <1>1, <3>3 DEF Steps
      <4>2. Latest(tries, n)
        <5>1. \A k \in Tries : k > n => k # n
          BY TriesAssumption DEF Tries
        <5> QED
          BY <2>4, <3>1, <3>3, <5>1 DEF Latest
      <4>3. /\ \A i \in 1..(tries[n].i - 1) : OneBy(shards, store, i, tries[n].by)
            /\ tries[n].at = "clips" =>
                 \A k \in DoneOf(tries[n].todo, tries[n].items) :
                   store[KeyOf(tries[n].items[k])][1].by = tries[n].by
        BY <2>1, <2>2, <4>2 DEF Coherent
      <4> QED
        BY <1>1, <1>4, <2>4, <3>1, <4>1, <4>3
    <3> QED
      BY <3>2, <3>3
  <2> QED
    BY <2>3, <2>4
<1> QED
  BY <1>1, <1>2, <1>3, <1>5, <1>6 DEF Objects
\* Each row of a video shard is an item of its fragment.
LEMMA ClipInShard ==
    ASSUME NEW cut, cut.start \in Nat, cut.count \in Nat, NEW s, Filled("video", cut, s),
           NEW x \in cut.start..(cut.start + cut.count - 1)
    PROVE  \E j \in DOMAIN s : KeyOf(s[j]) = <<"clip", x, "mp4">>
<1> DEFINE j == x - cut.start + 1
<1>1. IsSeq(s) /\ Len(s) = cut.count /\ \A i \in DOMAIN s : Made("video", s[i], cut.start + i - 1)
  BY DEF Filled, Partly
<1>2. DOMAIN s = 1..cut.count
  BY <1>1, SeqParts
<1>3. j \in DOMAIN s /\ cut.start + j - 1 = x
  BY <1>2
<1> HIDE DEF j
<1>4. Made("video", s[j], x)
  BY <1>1, <1>3
<1>5. s[j].index = x /\ s[j].fmt = "mp4"
  BY <1>4 DEF Made
<1> QED
  BY <1>3, <1>5 DEF KeyOf

\* The clips of a stored fragment are stored.
LEMMA ClipStored ==
    ASSUME MediaInv, pc = "done", modality = "video", NEW i, ShardKey(i) \in DOMAIN store
    PROVE  \A x \in shards[i].start..(shards[i].start + shards[i].count - 1) :
             <<"clip", x, "mp4">> \in DOMAIN store
<1> SUFFICES ASSUME NEW x \in shards[i].start..(shards[i].start + shards[i].count - 1)
             PROVE  <<"clip", x, "mp4">> \in DOMAIN store
  OBVIOUS
<1>1. /\ i \in DOMAIN shards /\ Filled("video", shards[i], store[ShardKey(i)])
      /\ \A j \in DOMAIN store[ShardKey(i)] : KeyOf(store[ShardKey(i)][j]) \in DOMAIN store
  <2>1. StoreWell("video", shards, store)
    BY DEF MediaInv, Objects
  <2>2. ShardKey(i)[1] = "shard" /\ ShardKey(i)[2] = i
    BY KeyParts
  <2> QED
    BY <2>1, <2>2 DEF StoreWell
<1>2. shards[i].start \in Nat /\ shards[i].count \in Nat
  BY <1>1, CutParts
<1>3. \E j \in DOMAIN store[ShardKey(i)] : KeyOf(store[ShardKey(i)][j]) = <<"clip", x, "mp4">>
  BY <1>1, <1>2, ClipInShard
<1> QED
  BY <1>1, <1>3

\* The clip of an item that is not stored yet.
LEMMA ClipKeeps ==
    ASSUME MediaInv, NEW n \in Tries, NEW u, StoresClip(n, u)
    PROVE  Objects' /\ Written(store', u)
<1> DEFINE t == tries[n]
           item == Head(t.todo)
           key == KeyOf(item)
           last == Len(t.items) - Len(t.todo) + 1
<1>1. /\ Steps(n, u) /\ store' = Put(store, key, <<item>>)
      /\ t.at = "clips" /\ t.todo # <<>>
      /\ u.at = "clips" /\ u.i = t.i /\ u.items = t.items /\ u.todo = Tail(t.todo)
  BY DEF StoresClip
<1>2. shards' = shards /\ modality' = modality /\ tries' = With(tries, n, u) /\ u.by = t.by
  BY <1>1 DEF Steps, Frame, vars
<1>3. /\ TryWell(modality, shards, t) /\ Written(store, t)
      /\ modality \in {"audio", "video"} /\ Filled(modality, shards[t.i], t.items)
      /\ Suffix(t.todo, t.items) /\ IsSeq(t.items)
      /\ \A j \in DOMAIN t.items : Made(modality, t.items[j], shards[t.i].start + j - 1)
  <2>1. TryWell(modality, shards, t) /\ Written(store, t)
    BY TryParts
  <2> QED
    BY <1>1, <2>1 DEF TryWell, InPhase, Filled, Partly
<1>4. /\ item = t.items[last] /\ last \in DOMAIN t.items
      /\ DoneOf(u.todo, u.items) = DoneOf(t.todo, t.items) \cup {last}
      /\ DoneOf(t.todo, t.items) \subseteq DOMAIN t.items
  <2> HIDE DEF t
  <2> QED
    BY <1>1, <1>3, LessIsLeft
<1>5. /\ DOMAIN store' = DOMAIN store \cup {key} /\ store'[key] = <<item>>
      /\ \A k \in DOMAIN store : k # key => store'[k] = store[k]
  <2> HIDE DEF key, item
  <2> QED
    BY <1>1 DEF Put
<1> HIDE DEF t, item, key, last
<1>6. Written(store', u)
  <2>1. \A i \in 1..(u.i - 1) : ShardKey(i) \in DOMAIN store'
    BY <1>1, <1>3, <1>5 DEF Written
  <2>2. \A k \in DoneOf(u.todo, u.items) : KeyOf(u.items[k]) \in DOMAIN store'
    BY <1>1, <1>3, <1>4, <1>5 DEF Written, key
  <2> QED
    BY <2>1, <2>2 DEF Written
<1>7. /\ key[1] = "clip" /\ key[2] = item.index
      /\ Made(modality, item, item.index) /\ (modality = "video" => item.by = t.by)
  <2>1. key[1] = "clip" /\ key[2] = item.index
    BY KeyParts DEF key
  <2>2. Made(modality, item, shards[t.i].start + last - 1)
    BY <1>3, <1>4
  <2>3. item.index = shards[t.i].start + last - 1
    BY <2>2 DEF Made
  <2>4. modality = "video" => item.by = t.by
    BY <1>3, <1>4 DEF TryWell
  <2> QED
    BY <2>1, <2>2, <2>3, <2>4
<1>8. \A i : ShardKey(i) # key /\ ShardKey(i)[1] = "shard"
  BY <1>7, KeyParts
<1>9. StoreWell(modality, shards, store')
  <2>1. StoreWell(modality, shards, store)
    BY DEF MediaInv, Objects
  <2> SUFFICES ASSUME NEW k \in DOMAIN store'
               PROVE  /\ k[1] = "shard" /\ modality # "text" =>
                           k[2] \in DOMAIN shards /\ Filled(modality, shards[k[2]], store'[k])
                      /\ k[1] = "shard" /\ modality \in {"audio", "video"} =>
                           \A j \in DOMAIN store'[k] : KeyOf(store'[k][j]) \in DOMAIN store'
                      /\ k[1] = "clip" /\ modality \in {"audio", "video"} =>
                           Made(modality, store'[k][1], k[2])
    BY DEF StoreWell
  <2>2. CASE k = key
    <3>1. store'[k][1] = item
      BY <1>5, <2>2
    <3> QED
      BY <1>7, <2>2, <3>1
  <2>3. CASE k # key
    <3>1. k \in DOMAIN store /\ store'[k] = store[k]
      BY <1>5, <2>3
    <3>2. /\ k[1] = "shard" /\ modality # "text" =>
               k[2] \in DOMAIN shards /\ Filled(modality, shards[k[2]], store[k])
          /\ k[1] = "shard" /\ modality \in {"audio", "video"} =>
               \A j \in DOMAIN store[k] : KeyOf(store[k][j]) \in DOMAIN store
          /\ k[1] = "clip" /\ modality \in {"audio", "video"} => Made(modality, store[k][1], k[2])
      BY <2>1, <3>1 DEF StoreWell
    <3> QED
      BY <1>5, <3>1, <3>2
  <2> QED
    BY <2>2, <2>3
<1>10. ASSUME modality = "video" PROVE Coherent(shards, tries', changed', store')
  <2> SUFFICES ASSUME ~Mixed(tries', changed'), NEW l \in Tries, Latest(tries', l)
               PROVE  /\ \A i \in 1..(tries'[l].i - 1) : OneBy(shards, store', i, tries'[l].by)
                      /\ tries'[l].at = "clips" =>
                           \A k \in DoneOf(tries'[l].todo, tries'[l].items) :
                             store'[KeyOf(tries'[l].items[k])][1].by = tries'[l].by
    BY DEF Coherent
  <2>1. ~Mixed(tries, changed)
        /\ (l = n \/ (tries'[l] = tries[l] /\ Latest(tries, l)
                      /\ (tries[n].at # "off" => tries[l].by = tries[n].by)))
    BY <1>1, OneWriter
  <2>2. Coherent(shards, tries, changed, store)
    BY <1>10 DEF MediaInv, Objects
  <2>3. tries'[n] = u /\ \A k \in Tries : k # n => tries'[k] = tries[k]
    BY <1>2, WithParts
  <2>4. tries[n].at # "off" /\ tries[n].by = t.by
    BY <1>1 DEF t
  <2>5. Latest(tries, l) /\ tries'[l].by = t.by /\ tries[l].by = t.by /\ tries'[l].i = tries[l].i
    <3>1. CASE l = n
      <4>1. \A k \in Tries : k > n => k # n
        BY TriesAssumption DEF Tries
      <4>2. Latest(tries, l)
        BY <2>3, <2>4, <3>1, <4>1 DEF Latest
      <4> QED
        BY <1>1, <1>2, <2>3, <3>1, <4>2 DEF t
    <3>2. CASE l # n
      BY <2>1, <2>4, <3>2
    <3> QED
      BY <3>1, <3>2
  <2>6. /\ \A i \in 1..(tries[l].i - 1) : OneBy(shards, store, i, t.by)
        /\ tries[l].at = "clips" =>
             \A k \in DoneOf(tries[l].todo, tries[l].items) : store[KeyOf(tries[l].items[k])][1].by = t.by
    BY <2>1, <2>2, <2>5 DEF Coherent
  <2>7. \A k : store[k][1].by = t.by /\ k \in DOMAIN store => store'[k][1].by = t.by
    <3> SUFFICES ASSUME NEW k \in DOMAIN store, store[k][1].by = t.by PROVE store'[k][1].by = t.by
      OBVIOUS
    <3>1. CASE k = key
      <4>1. store'[k][1] = item
        BY <1>5, <3>1
      <4> QED
        BY <1>7, <1>10, <4>1
    <3>2. CASE k # key
      BY <1>5, <3>2
    <3> QED
      BY <3>1, <3>2
  <2>8. ASSUME NEW i \in 1..(tries[l].i - 1)
        PROVE  OneBy(shards, store', i, t.by)
    <3>1. OneBy(shards, store, i, t.by) /\ ShardKey(i) \in DOMAIN store
      <4>1. Written(store, tries[l])
        BY TryParts
      <4> QED
        BY <2>6, <4>1 DEF Written
    <3>2. store'[ShardKey(i)] = store[ShardKey(i)]
      BY <1>5, <1>8, <3>1
    <3>3. \A x \in shards[i].start..(shards[i].start + shards[i].count - 1) :
            <<"clip", x, "mp4">> \in DOMAIN store
      BY <1>1, <1>10, <3>1, ClipStored DEF Steps
    <3> QED
      BY <2>7, <3>1, <3>2, <3>3 DEF OneBy
  <2>9. ASSUME tries'[l].at = "clips", NEW k \in DoneOf(tries'[l].todo, tries'[l].items)
        PROVE  store'[KeyOf(tries'[l].items[k])][1].by = t.by
    <3>1. CASE l # n
      <4>1. tries'[l] = tries[l]
        BY <2>3, <3>1
      <4>2. KeyOf(tries[l].items[k]) \in DOMAIN store
        <5>1. Written(store, tries[l])
          BY TryParts
        <5> QED
          BY <2>9, <4>1, <5>1 DEF Written
      <4> QED
        BY <2>6, <2>7, <2>9, <4>1, <4>2
    <3>2. CASE l = n
      <4>1. tries'[l] = u /\ tries[l] = t
        BY <2>3, <3>2 DEF t
      <4>2. CASE k = last
        <5>1. KeyOf(tries'[l].items[k]) = key
          BY <1>1, <1>4, <4>1, <4>2 DEF key
        <5>2. store'[key][1] = item
          BY <1>5
        <5> QED
          BY <1>7, <1>10, <5>1, <5>2
      <4>3. CASE k # last
        <5>1. k \in DoneOf(t.todo, t.items)
          BY <1>4, <2>9, <4>1, <4>3
        <5>2. KeyOf(t.items[k]) \in DOMAIN store
          BY <1>1, <1>3, <5>1 DEF Written
        <5> QED
          BY <1>1, <2>6, <2>7, <4>1, <5>1, <5>2
      <4> QED
        BY <4>2, <4>3
    <3> QED
      BY <3>1, <3>2
  <2> QED
    BY <2>5, <2>8, <2>9
<1> QED
  BY <1>2, <1>6, <1>9, <1>10 DEF Objects

\* The object of a shard.
LEMMA ShardKeeps ==
    ASSUME MediaInv, NEW n \in Tries, NEW u, NEW value, StoresShard(n, u, value)
    PROVE  Objects' /\ Written(store', u)
<1> DEFINE t == tries[n]
           key == ShardKey(t.i)
<1>1. /\ Steps(n, u) /\ store' = Put(store, key, value)
      /\ t.at \in Running
      /\ u.i = t.i + 1 /\ u.at \in {"shard", "done"}
      /\ modality \in {"tabular", "image"} => Filled(modality, shards[t.i], value)
      /\ modality \in {"audio", "video"} => t.at = "clips" /\ t.todo = <<>> /\ value = t.items
  BY DEF StoresShard
<1>2. shards' = shards /\ modality' = modality /\ tries' = With(tries, n, u) /\ u.by = t.by
  BY <1>1 DEF Steps, Frame, vars, Running
<1>3. TryWell(modality, shards, t) /\ Written(store, t) /\ pc = "done"
      /\ modality \in {"tabular", "text", "image", "audio", "video"}
  BY <1>1, TryParts DEF Running
<1>4. /\ DOMAIN store' = DOMAIN store \cup {key} /\ store'[key] = value
      /\ \A k \in DOMAIN store : k # key => store'[k] = store[k]
  <2> HIDE DEF key
  <2> QED
    BY <1>1 DEF Put
<1>5. t.i \in DOMAIN shards /\ shards[t.i].start \in Nat /\ shards[t.i].count \in Nat /\ t.i \in Nat
  <2>1. t.i \in DOMAIN shards
    BY <1>1, <1>3 DEF TryWell
  <2> QED
    BY <1>3, <2>1, CutParts
<1>6. key[1] = "shard" /\ key[2] = t.i /\ \A i : ShardKey(i) = key <=> i = t.i
  <2>1. \A i : ShardKey(i)[2] = i
    BY KeyParts
  <2> QED
    BY <2>1, KeyParts
<1>7. ASSUME modality # "text" PROVE Filled(modality, shards[t.i], value)
  BY <1>1, <1>3, <1>7 DEF TryWell
<1>8. ASSUME modality \in {"audio", "video"}
      PROVE  \A j \in DOMAIN value : KeyOf(value[j]) \in DOMAIN store
  <2>1. IsSeq(value)
    BY <1>7, <1>8 DEF Filled, Partly
  <2>2. DoneOf(t.todo, t.items) = DOMAIN value
    <3> HIDE DEF t
    <3> QED
      BY <1>1, <1>8, <2>1, DoneEnds
  <2> QED
    BY <1>1, <1>3, <1>8, <2>2 DEF Written
<1> HIDE DEF t, key
<1>9. Written(store', u)
  <2>1. ASSUME NEW i \in 1..(u.i - 1) PROVE ShardKey(i) \in DOMAIN store'
    <3>1. CASE i = t.i
      BY <1>4, <1>6, <3>1
    <3>2. CASE i # t.i
      <4>1. i \in 1..(t.i - 1)
        BY <1>1, <1>5, <3>2
      <4> QED
        BY <1>3, <1>4, <4>1 DEF Written
    <3> QED
      BY <3>1, <3>2
  <2> QED
    BY <1>1, <2>1 DEF Written
<1>10. StoreWell(modality, shards, store')
  <2>1. StoreWell(modality, shards, store)
    BY DEF MediaInv, Objects
  <2> SUFFICES ASSUME NEW k \in DOMAIN store'
               PROVE  /\ k[1] = "shard" /\ modality # "text" =>
                           k[2] \in DOMAIN shards /\ Filled(modality, shards[k[2]], store'[k])
                      /\ k[1] = "shard" /\ modality \in {"audio", "video"} =>
                           \A j \in DOMAIN store'[k] : KeyOf(store'[k][j]) \in DOMAIN store'
                      /\ k[1] = "clip" /\ modality \in {"audio", "video"} =>
                           Made(modality, store'[k][1], k[2])
    BY DEF StoreWell
  <2>2. CASE k = key
    BY <1>4, <1>5, <1>6, <1>7, <1>8, <2>2
  <2>3. CASE k # key
    <3>1. k \in DOMAIN store /\ store'[k] = store[k]
      BY <1>4, <2>3
    <3>2. /\ k[1] = "shard" /\ modality # "text" =>
               k[2] \in DOMAIN shards /\ Filled(modality, shards[k[2]], store[k])
          /\ k[1] = "shard" /\ modality \in {"audio", "video"} =>
               \A j \in DOMAIN store[k] : KeyOf(store[k][j]) \in DOMAIN store
          /\ k[1] = "clip" /\ modality \in {"audio", "video"} => Made(modality, store[k][1], k[2])
      BY <2>1, <3>1 DEF StoreWell
    <3> QED
      BY <1>4, <3>1, <3>2
  <2> QED
    BY <2>2, <2>3
<1>11. ASSUME modality = "video" PROVE Coherent(shards, tries', changed', store')
  <2> SUFFICES ASSUME ~Mixed(tries', changed'), NEW l \in Tries, Latest(tries', l)
               PROVE  /\ \A i \in 1..(tries'[l].i - 1) : OneBy(shards, store', i, tries'[l].by)
                      /\ tries'[l].at = "clips" =>
                           \A k \in DoneOf(tries'[l].todo, tries'[l].items) :
                             store'[KeyOf(tries'[l].items[k])][1].by = tries'[l].by
    BY DEF Coherent
  <2>1. ~Mixed(tries, changed)
        /\ (l = n \/ (tries'[l] = tries[l] /\ Latest(tries, l)
                      /\ (tries[n].at # "off" => tries[l].by = tries[n].by)))
    BY <1>1, OneWriter
  <2>2. Coherent(shards, tries, changed, store)
    BY <1>11 DEF MediaInv, Objects
  <2>3. tries'[n] = u /\ \A k \in Tries : k # n => tries'[k] = tries[k]
    BY <1>2, WithParts
  <2>4. tries[n].at # "off" /\ tries[n].by = t.by /\ t = tries[n]
    BY <1>1 DEF t, Running
  <2>5. Latest(tries, l) /\ tries'[l].by = t.by /\ tries[l].by = t.by
    <3>1. CASE l = n
      <4>1. \A k \in Tries : k > n => k # n
        BY TriesAssumption DEF Tries
      <4>2. Latest(tries, l)
        BY <2>3, <2>4, <3>1, <4>1 DEF Latest
      <4> QED
        BY <1>2, <2>3, <2>4, <3>1, <4>2
    <3>2. CASE l # n
      BY <2>1, <2>4, <3>2
    <3> QED
      BY <3>1, <3>2
  <2>6. /\ \A i \in 1..(tries[l].i - 1) : OneBy(shards, store, i, t.by)
        /\ tries[l].at = "clips" =>
             \A k \in DoneOf(tries[l].todo, tries[l].items) : store[KeyOf(tries[l].items[k])][1].by = t.by
    BY <2>1, <2>2, <2>5 DEF Coherent
  <2>7. \A k \in DOMAIN store : k[1] # "shard" => store'[k] = store[k]
    BY <1>4, <1>6
  <2>8. t.at = "clips" /\ t.todo = <<>> /\ value = t.items /\ \A j \in DOMAIN value : value[j].by = t.by
    BY <1>1, <1>3, <1>11 DEF TryWell
  <2>9. ASSUME NEW i \in DOMAIN shards, Filled("video", shards[i], store'[ShardKey(i)]),
               \A j \in DOMAIN store'[ShardKey(i)] : KeyOf(store'[ShardKey(i)][j]) \in DOMAIN store,
               NEW x \in shards[i].start..(shards[i].start + shards[i].count - 1)
        PROVE  /\ <<"clip", x, "mp4">> \in DOMAIN store
               /\ \E j \in DOMAIN store'[ShardKey(i)] : KeyOf(store'[ShardKey(i)][j]) = <<"clip", x, "mp4">>
               /\ store'[<<"clip", x, "mp4">>] = store[<<"clip", x, "mp4">>]
    <3>0. shards[i].start \in Nat /\ shards[i].count \in Nat
      BY <1>3, <2>9, CutParts
    <3>1. /\ \E j \in DOMAIN store'[ShardKey(i)] : KeyOf(store'[ShardKey(i)][j]) = <<"clip", x, "mp4">>
      BY <2>9, <3>0, ClipInShard
    <3>2. <<"clip", x, "mp4">> \in DOMAIN store
      BY <2>9, <3>1
    <3>3. <<"clip", x, "mp4">>[1] # "shard"
      OBVIOUS
    <3> QED
      BY <2>7, <3>1, <3>2, <3>3
  <2>10. ASSUME NEW i \in DOMAIN shards, i # t.i, OneBy(shards, store, i, t.by), ShardKey(i) \in DOMAIN store
         PROVE  OneBy(shards, store', i, t.by)
    <3>1. store'[ShardKey(i)] = store[ShardKey(i)]
      BY <1>4, <1>6, <2>10
    <3>2. /\ Filled("video", shards[i], store[ShardKey(i)])
          /\ \A j \in DOMAIN store[ShardKey(i)] : KeyOf(store[ShardKey(i)][j]) \in DOMAIN store
      <4>1. StoreWell("video", shards, store)
        BY <1>11 DEF MediaInv, Objects
      <4>2. ShardKey(i)[1] = "shard" /\ ShardKey(i)[2] = i
        BY KeyParts
      <4> QED
        BY <2>10, <4>1, <4>2 DEF StoreWell
    <3> QED
      BY <2>9, <2>10, <3>1, <3>2 DEF OneBy
  <2>11. ASSUME \A x \in shards[t.i].start..(shards[t.i].start + shards[t.i].count - 1) :
                  store[<<"clip", x, "mp4">>][1].by = t.by
         PROVE  OneBy(shards, store', t.i, t.by)
    <3>1. store'[ShardKey(t.i)] = value
      BY <1>4, <1>6
    <3>2. Filled("video", shards[t.i], value) /\ \A j \in DOMAIN value : KeyOf(value[j]) \in DOMAIN store
      BY <1>7, <1>8, <1>11
    <3>3. \A x \in shards[t.i].start..(shards[t.i].start + shards[t.i].count - 1) :
            store'[<<"clip", x, "mp4">>] = store[<<"clip", x, "mp4">>]
      BY <1>5, <2>9, <3>1, <3>2
    <3> QED
      BY <2>8, <2>11, <3>1, <3>3 DEF OneBy
  <2>12. ASSUME l = n, NEW x \in shards[t.i].start..(shards[t.i].start + shards[t.i].count - 1)
         PROVE  store[<<"clip", x, "mp4">>][1].by = t.by
    <3>1. Filled("video", shards[t.i], value)
      BY <1>7, <1>11
    <3>2. PICK j \in DOMAIN value : KeyOf(value[j]) = <<"clip", x, "mp4">>
      BY <1>5, <2>12, <3>1, ClipInShard
    <3>3. DoneOf(t.todo, t.items) = DOMAIN value
      <4>1. IsSeq(value)
        BY <3>1 DEF Filled, Partly
      <4> QED
        BY <2>8, <4>1, DoneEnds
    <3>4. store[KeyOf(value[j])][1].by = t.by
      BY <2>4, <2>6, <2>8, <2>12, <3>3
    <3> QED
      BY <3>2, <3>4
  <2>13. ASSUME NEW i \in 1..(tries'[l].i - 1)
         PROVE  OneBy(shards, store', i, t.by)
    <3>1. CASE l = n
      <4>1. tries'[l].i = t.i + 1
        BY <1>1, <2>3, <3>1
      <4>2. CASE i = t.i
        BY <2>11, <2>12, <3>1, <4>2
      <4>3. CASE i # t.i
        <5>1. i \in 1..(t.i - 1) /\ i \in DOMAIN shards
          <6>1. i \in 1..(t.i - 1)
            BY <1>5, <4>1, <4>3
          <6>2. DOMAIN shards = 1..Len(shards) /\ Len(shards) \in Nat
            BY <1>3, CutParts
          <6> QED
            BY <1>5, <6>1, <6>2
        <5>2. OneBy(shards, store, i, t.by) /\ ShardKey(i) \in DOMAIN store
          BY <1>3, <2>4, <2>6, <3>1, <5>1 DEF Written
        <5> QED
          BY <2>10, <4>3, <5>1, <5>2
      <4> QED
        BY <4>2, <4>3
    <3>2. CASE l # n
      <4>1. i \in 1..(tries[l].i - 1)
        BY <2>3, <3>2
      <4>2. OneBy(shards, store, i, t.by) /\ ShardKey(i) \in DOMAIN store /\ i \in DOMAIN shards
        <5>1. Written(store, tries[l]) /\ TryWell(modality, shards, tries[l])
          BY TryParts
        <5>2. tries[l].i \in 1..(Len(shards) + 1)
          BY <5>1 DEF TryWell
        <5>3. DOMAIN shards = 1..Len(shards) /\ Len(shards) \in Nat
          BY <1>3, CutParts
        <5>4. i \in DOMAIN shards
          BY <4>1, <5>2, <5>3
        <5> QED
          BY <2>6, <4>1, <5>1, <5>4 DEF Written
      <4>3. CASE i = t.i
        BY <2>11, <4>2, <4>3 DEF OneBy
      <4>4. CASE i # t.i
        BY <2>10, <4>2, <4>4
      <4> QED
        BY <4>3, <4>4
    <3> QED
      BY <3>1, <3>2
  <2>14. ASSUME tries'[l].at = "clips", NEW k \in DoneOf(tries'[l].todo, tries'[l].items)
         PROVE  store'[KeyOf(tries'[l].items[k])][1].by = t.by
    <3>1. l # n
      BY <1>1, <2>3, <2>14
    <3>2. tries'[l] = tries[l]
      BY <2>3, <3>1
    <3>3. KeyOf(tries[l].items[k]) \in DOMAIN store
      <4>1. Written(store, tries[l])
        BY TryParts
      <4> QED
        BY <2>14, <3>2, <4>1 DEF Written
    <3>4. KeyOf(tries[l].items[k])[1] # "shard"
      BY KeyParts
    <3> QED
      BY <2>6, <2>7, <2>14, <3>2, <3>3, <3>4
  <2> QED
    BY <2>5, <2>13, <2>14
<1> QED
  BY <1>2, <1>9, <1>10, <1>11 DEF Objects
-----------------------------------------------------------------------------
(* The assembly under a step of an attempt.                                *)

LEMMA StillNotMixed ==
    ASSUME MediaInv, NEW n \in Tries, NEW u, Steps(n, u), ~Mixed(tries', changed')
    PROVE  ~Mixed(tries, changed)
<1>1. /\ changed' = changed /\ tries' = With(tries, n, u)
      /\ tries[n].lost => u.lost
  BY DEF Steps, Frame
<1>2. /\ tries'[n] = u /\ (\A k \in Tries : k # n => tries'[k] = tries[k])
  BY <1>1, WithParts
<1> SUFFICES ASSUME changed, NEW k \in Tries, tries[k].lost PROVE FALSE
  BY DEF Mixed
<1>3. tries'[k].lost
  <2>1. CASE k = n
    BY <1>1, <1>2, <2>1
  <2>2. CASE k # n
    BY <1>2, <2>2
  <2> QED
    BY <2>1, <2>2
<1> QED
  BY <1>1, <1>3 DEF Mixed

\* An attempt that returned is the latest one; one that returned too late was
\* given up.
LEMMA DoneIsLatest ==
    ASSUME MediaInv, NEW r \in Tries, tries[r].at = "done", ~tries[r].lost
    PROVE  /\ Latest(tries, r)
           /\ \A j \in Tries : j # r /\ tries[j].at # "off" => j < r
           /\ \A j \in Tries : j < r => tries[j].at # "off" /\ (tries[j].at = "raised" \/ tries[j].lost)
<1>1. Ordered(tries)
  BY DEF MediaInv, Attempts
<1>2. \A j \in Tries : j > r => tries[j].at = "off"
  BY <1>1 DEF Ordered
<1>3. \A j \in Tries : j # r => j < r \/ j > r
  BY TriesAssumption DEF Tries
<1>4. \A j \in Tries : j # r /\ tries[j].at # "off" => j < r
  BY <1>2, <1>3
<1>5. \A j \in Tries : j < r => tries[j].at # "off" /\ (tries[j].at = "raised" \/ tries[j].lost)
  BY <1>1 DEF Ordered
<1>6. Latest(tries, r)
  BY <1>2 DEF Latest
<1> QED
  BY <1>4, <1>5, <1>6

\* Unless the configuration was changed, attempts that are given up have the
\* same as the one that returned.
LEMMA GivenUpAlike ==
    ASSUME MediaInv, NEW r \in Tries, tries[r].at = "done", ~tries[r].lost, ~Mixed(tries, changed),
           NEW j \in Tries, tries[j].at \notin {"off", "raised"}
    PROVE  tries[j].by = tries[r].by
<1>1. CASE j = r
  BY <1>1
<1>2. CASE j # r
  <2>1. tries[j].lost
    BY <1>2, DoneIsLatest
  <2>2. ~changed
    BY <2>1 DEF Mixed
  <2>3. OneConfig(tries, changed, config)
    BY DEF MediaInv, Attempts
  <2> QED
    BY <2>2, <2>3 DEF OneConfig
<1> QED
  BY <1>1, <1>2

LEMMA AssembledKept ==
    ASSUME MediaInv, NEW n \in Tries, NEW u, Steps(n, u), DOMAIN store \subseteq DOMAIN store',
           \A k \in DOMAIN store : k[1] \notin {"shard", "clip"} => store'[k] = store[k],
           modality = "image" => \A k \in DOMAIN store : k[1] # "shard" => store'[k] = store[k]
    PROVE  Assembled'
<1>1. /\ asm' = asm /\ shards' = shards /\ modality' = modality /\ changed' = changed
      /\ tries' = With(tries, n, u)
      /\ tries[n].at \notin {"raised", "done"} /\ u.at # "off"
      /\ tries[n].lost => u.lost
      /\ tries[n].at = "off" =>
           /\ u.by = config
           /\ \A k \in Tries : k < n => tries[k].at # "off" /\ (tries[k].at = "raised" \/ tries[k].lost)
      /\ tries[n].at # "off" => u.by = tries[n].by
  BY DEF Steps, Frame, vars
<1>2. /\ tries'[n] = u /\ (\A k \in Tries : k # n => tries'[k] = tries[k])
  BY <1>1, WithParts
<1>3. Assembled
  BY DEF MediaInv
<1>4. ASSUME asm.at # "off" PROVE Returned'
  <2>1. PICK r \in Tries : tries[r].at = "done" /\ ~tries[r].lost
    BY <1>3, <1>4 DEF Assembled, Returned
  <2>2. tries'[r] = tries[r]
    BY <1>1, <1>2, <2>1
  <2> QED
    BY <2>1, <2>2 DEF Returned
<1>5. ASSUME modality = "image", NEW k, Unpacked(k) PROVE Unpacked(k)'
  <2>1. KeyOf(asm.items[k]) \in DOMAIN store /\ store[KeyOf(asm.items[k])] = <<asm.items[k]>>
    BY <1>5 DEF Unpacked
  <2>2. KeyOf(asm.items[k])[1] # "shard"
    BY KeyParts
  <2>3. store'[KeyOf(asm.items[k])] = store[KeyOf(asm.items[k])]
    BY <1>5, <2>1, <2>2
  <2> QED
    BY <1>1, <2>1, <2>3 DEF Unpacked
<1>6. ASSUME asm.at = "done", modality # "text" PROVE OutKey \in DOMAIN store' /\ store'[OutKey] = asm.items
  <2>1. OutKey \in DOMAIN store /\ store[OutKey] = asm.items
    BY <1>3, <1>6 DEF Assembled
  <2>2. OutKey[1] \notin {"shard", "clip"}
    BY KeyParts DEF OutKey
  <2> QED
    BY <2>1, <2>2
<1>7. ASSUME modality = "video", asm.at # "off", ~Mixed(tries', changed'), NEW j \in Tries,
             tries'[j].at = "done", NEW k \in DOMAIN asm.items
      PROVE  asm.items[k].by = tries'[j].by
  <2>1. ~Mixed(tries, changed)
    BY <1>7, StillNotMixed
  <2>2. PICK r \in Tries : tries[r].at = "done" /\ ~tries[r].lost
    BY <1>3, <1>7 DEF Assembled, Returned
  <2>3. \A l \in Tries : tries[l].at = "done" => asm.items[k].by = tries[l].by
    BY <1>3, <1>7, <2>1 DEF Assembled, Gathered
  <2>4. CASE j # n
    BY <1>2, <1>7, <2>3, <2>4
  <2>5. CASE j = n
    <3>1. tries[n].at # "off"
      <4> SUFFICES ASSUME tries[n].at = "off" PROVE FALSE
        OBVIOUS
      <4>1. r # n /\ ~(n < r)
        BY <2>2, DoneIsLatest
      <4>2. ~(r < n)
        BY <1>1, <2>2
      <4> QED
        BY <4>1, <4>2, TriesAssumption DEF Tries
    <3>2. tries[n].by = tries[r].by
      BY <1>1, <2>1, <2>2, <3>1, GivenUpAlike
    <3> QED
      BY <1>1, <1>2, <2>2, <2>3, <2>5, <3>1, <3>2
  <2> QED
    BY <2>4, <2>5
<1>8. ASSUME modality # "text", asm.at # "off" PROVE Gathered'
  <2>1. Gathered
    BY <1>3, <1>8 DEF Assembled
  <2> QED
    BY <1>1, <1>7, <1>8, <2>1 DEF Gathered
<1>9. OutKey' = OutKey
  BY <1>1 DEF OutKey
<1>10. ASSUME asm.at # "off" PROVE \A i \in DOMAIN shards : ShardKey(i) \in DOMAIN store'
  BY <1>3, <1>10 DEF Assembled
<1>11. ASSUME asm.at = "unpack"
       PROVE  modality = "image" /\ Suffix(asm.todo, asm.items)
              /\ \A k \in DoneOf(asm.todo, asm.items) : Unpacked(k)'
  BY <1>3, <1>5, <1>11 DEF Assembled
<1>12. ASSUME asm.at = "done", modality = "image"
       PROVE  \A k \in DOMAIN asm.items : Unpacked(k)'
  BY <1>3, <1>5, <1>12 DEF Assembled
<1> HIDE DEF Returned, OutKey, Unpacked, Gathered
<1> QED
  BY <1>1, <1>3, <1>4, <1>6, <1>8, <1>9, <1>10, <1>11, <1>12 DEF Assembled

LEMMA AttemptKeeps ==
    ASSUME MediaInv, NEW n \in Tries, StartTry(n) \/ GiveUp(n) \/ Raise(n) \/ TryStep(n)
    PROVE  MediaInv'
<1>1. CASE \E u : GoesOn(n, u)
  <2>1. PICK u : GoesOn(n, u)
    BY <1>1
  <2>2. Steps(n, u) /\ store' = store
    BY <2>1 DEF GoesOn
  <2>3. Objects' /\ Written(store', u)
    BY <2>1, GoesOnKeeps
  <2>4. DOMAIN store \subseteq DOMAIN store'
    BY <2>2
  <2>5. PlanInv' /\ Anchored' /\ Attempts' /\ TextWell'
    BY <2>2, <2>3, <2>4, AttemptsKept
  <2>6. Assembled'
    BY <2>2, <2>4, AssembledKept
  <2> QED
    BY <2>3, <2>5, <2>6 DEF MediaInv
<1>2. CASE \E u, value : StoresShard(n, u, value)
  <2>1. PICK u, value : StoresShard(n, u, value)
    BY <1>2
  <2>2. Steps(n, u) /\ store' = Put(store, ShardKey(tries[n].i), value)
    BY <2>1 DEF StoresShard
  <2>3. Objects' /\ Written(store', u)
    BY <2>1, ShardKeeps
  <2>4. /\ DOMAIN store \subseteq DOMAIN store'
        /\ \A k \in DOMAIN store : k # ShardKey(tries[n].i) => store'[k] = store[k]
    BY <2>2 DEF Put
  <2>5. ShardKey(tries[n].i)[1] = "shard"
    BY KeyParts
  <2>6. PlanInv' /\ Anchored' /\ Attempts' /\ TextWell'
    BY <2>2, <2>3, <2>4, AttemptsKept
  <2>7. \A k \in DOMAIN store : k[1] # "shard" => store'[k] = store[k]
    BY <2>4, <2>5
  <2>8. Assembled'
    BY <2>2, <2>4, <2>7, AssembledKept
  <2> QED
    BY <2>3, <2>6, <2>8 DEF MediaInv
<1>3. CASE \E u : StoresClip(n, u)
  <2>1. PICK u : StoresClip(n, u)
    BY <1>3
  <2> DEFINE key == KeyOf(Head(tries[n].todo))
  <2>2. Steps(n, u) /\ store' = Put(store, key, <<Head(tries[n].todo)>>) /\ tries[n].at = "clips"
    BY <2>1 DEF StoresClip
  <2>3. Objects' /\ Written(store', u)
    BY <2>1, ClipKeeps
  <2>4. key[1] = "clip"
    BY KeyParts
  <2> HIDE DEF key
  <2>5. /\ DOMAIN store \subseteq DOMAIN store'
        /\ \A k \in DOMAIN store : k # key => store'[k] = store[k]
    BY <2>2 DEF Put
  <2>6. PlanInv' /\ Anchored' /\ Attempts' /\ TextWell'
    BY <2>2, <2>3, <2>5, AttemptsKept
  <2>7. modality # "image"
    <3>1. TryWell(modality, shards, tries[n])
      BY TryParts
    <3> QED
      BY <2>2, <3>1 DEF TryWell, InPhase
  <2>8. \A k \in DOMAIN store : k[1] \notin {"shard", "clip"} => store'[k] = store[k]
    BY <2>4, <2>5
  <2>9. Assembled'
    BY <2>2, <2>5, <2>7, <2>8, AssembledKept
  <2> QED
    BY <2>3, <2>6, <2>9 DEF MediaInv
<1>4. Kinds(n)
  BY AttemptKinds
<1> QED
  BY <1>1, <1>2, <1>3, <1>4 DEF Kinds
-----------------------------------------------------------------------------
(* The steps of the assembly.                                              *)

\* Entries that are in index order already.
LEMMA SortedIs ==
    ASSUME NEW items, IsSeq(items), \A k \in DOMAIN items : items[k].index = k - 1
    PROVE  Sorted(items) = items
<1>1. Len(items) \in Nat /\ DOMAIN items = 1..Len(items)
  BY SeqParts
<1>2. ASSUME NEW i \in 1..Len(items)
      PROVE  Cardinality(Before(items, i)) = i - 1
  <2>1. ASSUME NEW j \in 1..Len(items)
        PROVE  (items[j].index < items[i].index \/ (items[j].index = items[i].index /\ j < i)) <=> j < i
    <3>1. items[j].index = j - 1 /\ items[i].index = i - 1
      BY <1>1
    <3> QED
      BY <3>1
  <2>2. Before(items, i) = {j \in 1..Len(items) : j < i}
    BY <1>1, <2>1 DEF Before
  <2>3. {j \in 1..Len(items) : j < i} = 1..(i - 1)
    BY <1>1
  <2>4. Cardinality(1..(i - 1)) = i - 1
    <3>1. i - 1 \in Int /\ 1 \in Int
      OBVIOUS
    <3>2. Cardinality(1..(i - 1)) = IF 1 > i - 1 THEN 0 ELSE (i - 1) - 1 + 1
      BY <3>1, FS_Interval
    <3> QED
      BY <3>1, <3>2
  <2> QED
    BY <2>2, <2>3, <2>4
<1> DEFINE pos(k) == CHOOSE i \in DOMAIN items : Cardinality(Before(items, i)) = k - 1
<1>3. ASSUME NEW k \in DOMAIN items
      PROVE  pos(k) = k
  <2>1. Cardinality(Before(items, k)) = k - 1
    BY <1>1, <1>2
  <2>2. \A i \in DOMAIN items : Cardinality(Before(items, i)) = k - 1 => i = k
    <3> SUFFICES ASSUME NEW i \in DOMAIN items, Cardinality(Before(items, i)) = k - 1 PROVE i = k
      OBVIOUS
    <3>1. Cardinality(Before(items, i)) = i - 1 /\ i \in Nat /\ k \in Nat
      BY <1>1, <1>2
    <3> QED
      BY <3>1
  <2> QED
    BY <2>1, <2>2
<1>4. Sorted(items) = [k \in 1..Len(items) |-> items[k]]
  <2>1. Sorted(items) = [k \in DOMAIN items |-> items[pos(k)]]
    BY DEF Sorted
  <2> HIDE DEF pos
  <2> QED
    BY <1>1, <1>3, <2>1
<1>5. items = [k \in 1..Len(items) |-> items[k]]
  <2>1. PICK S : items \in Seq(S)
    BY DEF IsSeq
  <2> QED
    BY <1>1, <2>1
<1> QED
  BY <1>4, <1>5

\* A step of the assembly leaves the attempts alone.
LEMMA AssemblyLeaves ==
    ASSUME MediaInv, AsmFrame, DOMAIN store \subseteq DOMAIN store', pc = "done"
    PROVE  PlanInv' /\ Anchored' /\ Attempts' /\ TextWell'
<1>1. /\ UNCHANGED vars /\ pc' = pc /\ shards' = shards /\ modality' = modality /\ fields' = fields
      /\ config' = config /\ changed' = changed /\ tries' = tries
  BY DEF AsmFrame, vars
<1>2. PlanInv' /\ Anchored'
  BY <1>1, PlanStays
<1>3. Attempts /\ TextWell
  BY DEF MediaInv
<1>4. \A k \in Tries : Written(store', tries[k])
  BY TryParts, WrittenGrows
<1>5. Attempts'
  BY <1>1, <1>3, <1>4 DEF Attempts
<1>6. TextWell'
  BY <1>1, <1>3 DEF TextWell
<1> QED
  BY <1>2, <1>5, <1>6

\* An object of the assembly disturbs no shard, and no clip of an audio or a
\* video shard.
LEMMA ObjectsUnder ==
    ASSUME MediaInv, AsmFrame, pc = "done", NEW key, NEW value, store' = Put(store, key, value),
           key[1] # "shard", modality \in {"audio", "video"} => key[1] # "clip"
    PROVE  Objects'
<1>1. shards' = shards /\ modality' = modality /\ changed' = changed /\ tries' = tries
  BY DEF AsmFrame, vars
<1>2. /\ DOMAIN store' = DOMAIN store \cup {key}
      /\ \A k \in DOMAIN store : k # key => store'[k] = store[k]
  BY DEF Put
<1>3. /\ StoreWell(modality, shards, store)
      /\ modality = "video" => Coherent(shards, tries, changed, store)
  BY DEF MediaInv, Objects
<1>4. StoreWell(modality, shards, store')
  <2> SUFFICES ASSUME NEW k \in DOMAIN store'
               PROVE  /\ k[1] = "shard" /\ modality # "text" =>
                           k[2] \in DOMAIN shards /\ Filled(modality, shards[k[2]], store'[k])
                      /\ k[1] = "shard" /\ modality \in {"audio", "video"} =>
                           \A j \in DOMAIN store'[k] : KeyOf(store'[k][j]) \in DOMAIN store'
                      /\ k[1] = "clip" /\ modality \in {"audio", "video"} =>
                           Made(modality, store'[k][1], k[2])
    BY DEF StoreWell
  <2>1. CASE k = key
    BY <2>1
  <2>2. CASE k # key
    <3>1. k \in DOMAIN store /\ store'[k] = store[k]
      BY <1>2, <2>2
    <3>2. /\ k[1] = "shard" /\ modality # "text" =>
               k[2] \in DOMAIN shards /\ Filled(modality, shards[k[2]], store[k])
          /\ k[1] = "shard" /\ modality \in {"audio", "video"} =>
               \A j \in DOMAIN store[k] : KeyOf(store[k][j]) \in DOMAIN store
          /\ k[1] = "clip" /\ modality \in {"audio", "video"} => Made(modality, store[k][1], k[2])
      BY <1>3, <3>1 DEF StoreWell
    <3> QED
      BY <1>2, <3>1, <3>2
  <2> QED
    BY <2>1, <2>2
<1>5. ASSUME modality = "video" PROVE Coherent(shards, tries, changed, store')
  <2> SUFFICES ASSUME ~Mixed(tries, changed), NEW l \in Tries, Latest(tries, l)
               PROVE  /\ \A i \in 1..(tries[l].i - 1) : OneBy(shards, store', i, tries[l].by)
                      /\ tries[l].at = "clips" =>
                           \A k \in DoneOf(tries[l].todo, tries[l].items) :
                             store'[KeyOf(tries[l].items[k])][1].by = tries[l].by
    BY DEF Coherent
  <2>1. /\ \A i \in 1..(tries[l].i - 1) : OneBy(shards, store, i, tries[l].by)
        /\ tries[l].at = "clips" =>
             \A k \in DoneOf(tries[l].todo, tries[l].items) :
               store[KeyOf(tries[l].items[k])][1].by = tries[l].by
    BY <1>3, <1>5 DEF Coherent
  <2>2. Written(store, tries[l])
    BY TryParts
  <2>3. \A k \in DOMAIN store : k[1] \in {"shard", "clip"} => store'[k] = store[k]
    BY <1>2, <1>5
  <2>4. ASSUME NEW i \in 1..(tries[l].i - 1)
        PROVE  OneBy(shards, store', i, tries[l].by)
    <3>1. ShardKey(i) \in DOMAIN store /\ ShardKey(i)[1] = "shard"
      BY <2>2, KeyParts DEF Written
    <3>2. store'[ShardKey(i)] = store[ShardKey(i)]
      BY <2>3, <3>1
    <3>3. \A x \in shards[i].start..(shards[i].start + shards[i].count - 1) :
            store'[<<"clip", x, "mp4">>] = store[<<"clip", x, "mp4">>]
      <4>1. \A x \in shards[i].start..(shards[i].start + shards[i].count - 1) :
              <<"clip", x, "mp4">> \in DOMAIN store
        BY <1>5, <3>1, ClipStored
      <4>2. \A x : <<"clip", x, "mp4">>[1] = "clip"
        OBVIOUS
      <4> QED
        BY <2>3, <4>1, <4>2
    <3> QED
      BY <2>1, <3>2, <3>3 DEF OneBy
  <2>5. ASSUME tries[l].at = "clips", NEW k \in DoneOf(tries[l].todo, tries[l].items)
        PROVE  store'[KeyOf(tries[l].items[k])][1].by = tries[l].by
    <3>1. KeyOf(tries[l].items[k]) \in DOMAIN store /\ KeyOf(tries[l].items[k])[1] = "clip"
      BY <2>2, <2>5, KeyParts DEF Written
    <3> QED
      BY <2>1, <2>3, <2>5, <3>1
  <2> QED
    BY <2>4, <2>5
<1> QED
  BY <1>1, <1>4, <1>5 DEF Objects

LEMMA AssemblyParts ==
    ASSUME MediaInv
    PROVE  /\ Assembled
           /\ asm.at # "off" \/ Returned => pc = "done"
           /\ modality \in {"tabular", "text", "image", "audio", "video"}
<1>1. Assembled /\ Attempts /\ TypeOK
  BY DEF MediaInv, PlanInv
<1>2. ASSUME Returned PROVE pc = "done"
  BY <1>2, TryParts DEF Returned
<1>3. ASSUME asm.at # "off" PROVE pc = "done"
  BY <1>1, <1>3 DEF Attempts, TypeOK
<1>4. modality \in Modalities
  BY <1>1 DEF Attempts
<1> QED
  BY <1>1, <1>2, <1>3, <1>4, ModalitiesAssumption

LEMMA StartAssemblyKeeps ==
    ASSUME MediaInv, StartAssembly
    PROVE  MediaInv'
<1>1. asm.at = "off" /\ Returned /\ asm' = [asm EXCEPT !.at = "read"] /\ AsmFrame /\ store' = store
  BY DEF StartAssembly
<1>2. Assembled /\ pc = "done" /\ modality \in {"tabular", "text", "image", "audio", "video"}
  BY <1>1, AssemblyParts
<1>3. shards' = shards /\ modality' = modality /\ changed' = changed /\ tries' = tries
  BY <1>1 DEF AsmFrame, vars
<1>4. PlanInv' /\ Anchored' /\ Attempts' /\ TextWell'
  BY <1>1, <1>2, AssemblyLeaves
<1>5. Objects'
  BY <1>1, <1>3 DEF MediaInv, Objects
<1>6. IsAsm(asm') /\ asm'.at = "read" /\ asm'.j = 1 /\ asm'.items = <<>>
  BY <1>1, <1>2 DEF Assembled, IsAsm
<1>7. \A i \in DOMAIN shards : ShardKey(i) \in DOMAIN store
  <2>1. PICK r \in Tries : tries[r].at = "done"
    BY <1>1 DEF Returned
  <2>2. TryWell(modality, shards, tries[r]) /\ Written(store, tries[r])
    BY TryParts
  <2>3. tries[r].i = Len(shards) + 1
    BY <2>1, <2>2 DEF TryWell
  <2>4. Len(shards) \in Nat /\ DOMAIN shards = 1..Len(shards)
    BY <1>2, CutParts
  <2> QED
    BY <2>2, <2>3, <2>4 DEF Written
<1>8. Len(shards) \in Nat /\ RowsBefore(shards, 1) = 0
  BY <1>2, PlanParts DEF MediaInv
<1>9. Gathered'
  <2>1. IsSeq(<<>>) /\ Len(<<>>) = 0 /\ DOMAIN <<>> = {}
    BY EmptySeqIs
  <2> QED
    BY <1>3, <1>6, <1>8, <2>1 DEF Gathered
<1>10. Returned'
  BY <1>1, <1>3 DEF Returned
<1>11. Assembled'
  BY <1>1, <1>3, <1>6, <1>7, <1>8, <1>9, <1>10 DEF Assembled
<1> QED
  BY <1>4, <1>5, <1>11 DEF MediaInv

LEMMA ReadShardKeeps ==
    ASSUME MediaInv, ReadShard
    PROVE  MediaInv'
<1> DEFINE j == asm.j
           sh == store[ShardKey(j)]
<1>1. asm.at = "read" /\ j <= Len(shards) /\ AsmFrame /\ store' = store
      /\ asm' = [asm EXCEPT !.j = j + 1, !.items = asm.items \o sh]
  BY DEF ReadShard
<1>2. Assembled /\ pc = "done" /\ modality \in {"tabular", "text", "image", "audio", "video"}
  BY <1>1, AssemblyParts
<1>3. shards' = shards /\ modality' = modality /\ changed' = changed /\ tries' = tries
  BY <1>1 DEF AsmFrame, vars
<1>4. PlanInv' /\ Anchored' /\ Attempts' /\ TextWell'
  BY <1>1, <1>2, AssemblyLeaves
<1>5. Objects'
  BY <1>1, <1>3 DEF MediaInv, Objects
<1>6. IsAsm(asm') /\ asm'.at = "read" /\ asm'.j = j + 1 /\ asm'.items = asm.items \o sh
  <2>1. IsAsm(asm)
    BY <1>2 DEF Assembled
  <2> HIDE DEF j, sh
  <2> QED
    BY <1>1, <2>1 DEF IsAsm
<1>7. /\ Len(shards) \in Nat \ {0} /\ DOMAIN shards = 1..Len(shards)
      /\ \A i \in DOMAIN shards : shards[i].start \in Nat /\ shards[i].count \in Nat
      /\ \A i \in DOMAIN shards : RowsBefore(shards, i) = shards[i].start
                                  /\ RowsBefore(shards, i + 1) = shards[i].start + shards[i].count
  BY <1>2, PlanParts DEF MediaInv
<1>8. j \in DOMAIN shards /\ j + 1 \in 1..(Len(shards) + 1) /\ j \in Nat
  <2>1. j \in 1..(Len(shards) + 1)
    BY <1>2 DEF Assembled
  <2> HIDE DEF j
  <2> QED
    BY <1>1, <1>7, <2>1
<1>9. ShardKey(j) \in DOMAIN store /\ Returned
  BY <1>1, <1>2, <1>8 DEF Assembled
<1>10. ASSUME modality # "text" PROVE Gathered'
  <2>1. Gathered
    BY <1>1, <1>2, <1>10 DEF Assembled
  <2>2. /\ Filled(modality, shards[j], sh)
        /\ modality \in {"audio", "video"} => \A k \in DOMAIN sh : KeyOf(sh[k]) \in DOMAIN store
    <3>1. StoreWell(modality, shards, store)
      BY DEF MediaInv, Objects
    <3>2. ShardKey(j)[1] = "shard" /\ ShardKey(j)[2] = j
      BY KeyParts
    <3> QED
      BY <1>9, <1>10, <3>1, <3>2 DEF StoreWell
  <2>3. /\ IsSeq(sh) /\ Len(sh) = shards[j].count
        /\ \A k \in DOMAIN sh : Made(modality, sh[k], shards[j].start + k - 1)
    BY <2>2 DEF Filled, Partly
  <2>4. /\ IsSeq(asm.items) /\ Len(asm.items) = shards[j].start
        /\ \A k \in DOMAIN asm.items : Made(modality, asm.items[k], k - 1)
        /\ modality \in {"audio", "video"} => \A k \in DOMAIN asm.items : KeyOf(asm.items[k]) \in DOMAIN store
    BY <1>7, <1>8, <2>1 DEF Gathered
  <2>5. /\ shards[j].start \in Nat /\ shards[j].count \in Nat
        /\ DOMAIN sh = 1..shards[j].count /\ DOMAIN asm.items = 1..shards[j].start
    BY <1>7, <1>8, <2>3, <2>4, SeqParts
  <2>6. ASSUME modality = "video", ~Mixed(tries, changed), NEW n \in Tries, tries[n].at = "done"
        PROVE  (\A k \in DOMAIN asm.items : asm.items[k].by = tries[n].by)
               /\ \A k \in DOMAIN sh : sh[k].by = tries[n].by
    <3>1. \A k \in DOMAIN asm.items : asm.items[k].by = tries[n].by
      BY <2>1, <2>6 DEF Gathered
    <3>2. PICK r \in Tries : tries[r].at = "done" /\ ~tries[r].lost
      BY <1>9 DEF Returned
    <3>3. Latest(tries, r)
      BY <3>2, DoneIsLatest
    <3>4. tries[n].by = tries[r].by
      BY <2>6, <3>2, GivenUpAlike
    <3>5. Coherent(shards, tries, changed, store)
      BY <2>6 DEF MediaInv, Objects
    <3>6. j \in 1..(tries[r].i - 1)
      <4>1. TryWell(modality, shards, tries[r])
        BY TryParts
      <4>2. tries[r].i = Len(shards) + 1
        BY <3>2, <4>1 DEF TryWell
      <4> QED
        BY <1>7, <1>8, <4>2
    <3>7. OneBy(shards, store, j, tries[r].by)
      BY <2>6, <3>3, <3>5, <3>6 DEF Coherent
    <3> QED
      BY <3>1, <3>4, <3>7 DEF OneBy
  <2> DEFINE a == shards[j].start
             c == shards[j].count
             all == asm.items \o sh
  <2> HIDE DEF j, sh
  <2>7. /\ IsSeq(all) /\ Len(all) = a + c /\ DOMAIN all = 1..(a + c)
        /\ \A k \in 1..(a + c) : all[k] = IF k <= a THEN asm.items[k] ELSE sh[k - a]
    <3>1. /\ IsSeq(all) /\ Len(all) = Len(asm.items) + Len(sh)
          /\ DOMAIN all = 1..(Len(asm.items) + Len(sh))
          /\ \A k \in 1..(Len(asm.items) + Len(sh)) :
               all[k] = IF k <= Len(asm.items) THEN asm.items[k] ELSE sh[k - Len(asm.items)]
      <4>1. IsSeq(asm.items) /\ IsSeq(sh)
        BY <2>3, <2>4
      <4> QED
        BY <4>1, ConcatIs, Zenon
    <3>2. Len(asm.items) = a /\ Len(sh) = c
      BY <2>3, <2>4
    <3> HIDE DEF all, a, c
    <3> QED
      BY <3>1, <3>2
  <2>8. RowsBefore(shards, j + 1) = a + c
    BY <1>7, <1>8
  <2>9. ASSUME NEW k \in 1..(a + c)
        PROVE  \/ k \in DOMAIN asm.items /\ all[k] = asm.items[k]
               \/ k - a \in DOMAIN sh /\ all[k] = sh[k - a] /\ a + (k - a) - 1 = k - 1
    <3>1. k \in Nat /\ a \in Nat /\ c \in Nat /\ 1 <= k /\ k <= a + c
      BY <2>5
    <3>2. CASE k <= a
      BY <2>5, <2>7, <3>1, <3>2
    <3>3. CASE ~(k <= a)
      <4>1. all[k] = sh[k - a]
        BY <2>7, <3>3
      <4>2. DOMAIN sh = 1..c
        BY <2>5
      <4> HIDE DEF all, a, c
      <4>3. k - a \in 1..c /\ a + (k - a) - 1 = k - 1
        BY <3>1, <3>3
      <4> QED
        BY <4>1, <4>2, <4>3
    <3> QED
      BY <3>2, <3>3
  <2> HIDE DEF all, a, c
  <2>10. \A k \in 1..(a + c) : Made(modality, all[k], k - 1)
    <3> SUFFICES ASSUME NEW k \in 1..(a + c) PROVE Made(modality, all[k], k - 1)
      OBVIOUS
    <3>1. CASE k \in DOMAIN asm.items /\ all[k] = asm.items[k]
      BY <2>4, <3>1
    <3>2. CASE k - a \in DOMAIN sh /\ all[k] = sh[k - a] /\ a + (k - a) - 1 = k - 1
      <4>1. Made(modality, sh[k - a], a + (k - a) - 1)
        BY <2>3, <3>2 DEF a
      <4> QED
        BY <3>2, <4>1
    <3> QED
      BY <2>9, <3>1, <3>2
  <2>11. modality \in {"audio", "video"} => \A k \in 1..(a + c) : KeyOf(all[k]) \in DOMAIN store
    BY <2>2, <2>4, <2>9
  <2>12. modality = "video" /\ ~Mixed(tries, changed) =>
           \A n \in Tries : tries[n].at = "done" => \A k \in 1..(a + c) : all[k].by = tries[n].by
    BY <2>6, <2>9
  <2>13. asm'.items = all /\ asm'.j = j + 1
    BY <1>6 DEF all
  <2> QED
    BY <1>1, <1>3, <2>7, <2>8, <2>10, <2>11, <2>12, <2>13 DEF Gathered
<1>11. Returned'
  BY <1>3, <1>9 DEF Returned
<1>12. \A i \in DOMAIN shards : ShardKey(i) \in DOMAIN store
  BY <1>1, <1>2 DEF Assembled
<1> HIDE DEF j, sh
<1>13. Assembled'
  BY <1>1, <1>3, <1>6, <1>8, <1>10, <1>11, <1>12 DEF Assembled
<1> QED
  BY <1>4, <1>5, <1>13 DEF MediaInv

\* What a later step of the assembly finds and leaves.
LEMMA AssemblyGoesOn ==
    ASSUME MediaInv, AsmFrame, asm.at # "off", DOMAIN store \subseteq DOMAIN store',
           asm'.j = asm.j, asm'.items = asm.items
    PROVE  /\ Returned' /\ (\A i \in DOMAIN shards : ShardKey(i) \in DOMAIN store')
           /\ shards' = shards /\ modality' = modality
           /\ modality # "text" => Gathered /\ Gathered'
<1>1. /\ Assembled /\ pc = "done"
  BY AssemblyParts
<1>2. shards' = shards /\ modality' = modality /\ changed' = changed /\ tries' = tries
  BY DEF AsmFrame, vars
<1>3. Returned /\ (\A i \in DOMAIN shards : ShardKey(i) \in DOMAIN store) /\ (modality # "text" => Gathered)
  BY <1>1 DEF Assembled
<1>4. Returned'
  BY <1>2, <1>3 DEF Returned
<1>5. modality # "text" => Gathered'
  BY <1>2, <1>3 DEF Gathered
<1> QED
  BY <1>2, <1>3, <1>4, <1>5

LEMMA UnpackImagesKeeps ==
    ASSUME MediaInv, UnpackImages
    PROVE  MediaInv'
<1>1. /\ asm.at = "read" /\ asm.j > Len(shards) /\ modality = "image" /\ AsmFrame /\ store' = store
      /\ asm' = [asm EXCEPT !.at = "unpack", !.todo = asm.items]
  BY DEF UnpackImages
<1>2. Assembled /\ pc = "done"
  BY <1>1, AssemblyParts
<1>3. IsAsm(asm') /\ asm'.at = "unpack" /\ asm'.j = asm.j /\ asm'.items = asm.items /\ asm'.todo = asm.items
  BY <1>1, <1>2 DEF Assembled, IsAsm
<1>4. PlanInv' /\ Anchored' /\ Attempts' /\ TextWell'
  BY <1>1, <1>2, AssemblyLeaves
<1>5. /\ Returned' /\ (\A i \in DOMAIN shards : ShardKey(i) \in DOMAIN store')
      /\ shards' = shards /\ modality' = modality /\ Gathered /\ Gathered'
  BY <1>1, <1>3, AssemblyGoesOn
<1>6. Objects'
  BY <1>1 DEF AsmFrame, vars, MediaInv, Objects
<1>7. asm.j \in 1..(Len(shards) + 1) /\ Len(shards) \in Nat
  BY <1>2, CutParts DEF Assembled
<1>8. Suffix(asm.items, asm.items) /\ DoneOf(asm.items, asm.items) = {}
  BY <1>5, AllIsLeft, DoneEnds DEF Gathered
<1>9. asm.j = Len(shards) + 1
  BY <1>1, <1>7
<1>10. Assembled'
  BY <1>1, <1>3, <1>5, <1>7, <1>8, <1>9 DEF Assembled
<1> QED
  BY <1>4, <1>6, <1>10 DEF MediaInv

LEMMA PutImageKeeps ==
    ASSUME MediaInv, PutImage
    PROVE  MediaInv'
<1> DEFINE item == Head(asm.todo)
           key == KeyOf(item)
           d == Len(asm.items) - Len(asm.todo) + 1
<1>1. /\ asm.at = "unpack" /\ asm.todo # <<>> /\ AsmFrame
      /\ store' = Put(store, key, <<item>>)
      /\ asm' = [asm EXCEPT !.todo = Tail(asm.todo)]
  BY DEF PutImage, PutObject, Put, ClipKey, KeyOf
<1>2. Assembled /\ pc = "done"
  BY <1>1, AssemblyParts
<1>3. IsAsm(asm') /\ asm'.at = "unpack" /\ asm'.j = asm.j /\ asm'.items = asm.items /\ asm'.todo = Tail(asm.todo)
  BY <1>1, <1>2 DEF Assembled, IsAsm
<1>4. /\ DOMAIN store' = DOMAIN store \cup {key} /\ store'[key] = <<item>>
      /\ \A k \in DOMAIN store : k # key => store'[k] = store[k]
  <2> HIDE DEF key, item
  <2> QED
    BY <1>1 DEF Put
<1>5. key[1] = "clip"
  BY KeyParts
<1>6. /\ modality = "image" /\ Suffix(asm.todo, asm.items) /\ asm.j = Len(shards) + 1
      /\ \A k \in DoneOf(asm.todo, asm.items) : Unpacked(k)
  BY <1>1, <1>2 DEF Assembled
<1>7. PlanInv' /\ Anchored' /\ Attempts' /\ TextWell'
  BY <1>1, <1>2, <1>4, AssemblyLeaves
<1>8. Objects'
  <2> HIDE DEF key, item
  <2> QED
    BY <1>1, <1>2, <1>5, <1>6, ObjectsUnder
<1>9. /\ Returned' /\ (\A i \in DOMAIN shards : ShardKey(i) \in DOMAIN store')
      /\ shards' = shards /\ modality' = modality /\ Gathered /\ Gathered'
  BY <1>1, <1>3, <1>4, <1>6, AssemblyGoesOn
<1>10. IsSeq(asm.items) /\ \A k \in DOMAIN asm.items : asm.items[k].index = k - 1
  BY <1>9 DEF Gathered, Made
<1>11. /\ Suffix(Tail(asm.todo), asm.items) /\ item = asm.items[d] /\ d \in DOMAIN asm.items
       /\ DoneOf(Tail(asm.todo), asm.items) = DoneOf(asm.todo, asm.items) \cup {d}
       /\ DoneOf(asm.todo, asm.items) \subseteq DOMAIN asm.items
       /\ d \notin DoneOf(asm.todo, asm.items)
  <2>1. /\ Suffix(Tail(asm.todo), asm.items) /\ item = asm.items[d] /\ d \in DOMAIN asm.items
        /\ DoneOf(Tail(asm.todo), asm.items) = DoneOf(asm.todo, asm.items) \cup {d}
        /\ DoneOf(asm.todo, asm.items) \subseteq DOMAIN asm.items
    BY <1>1, <1>6, <1>10, LessIsLeft, Zenon
  <2>2. Len(asm.items) \in Nat /\ Len(asm.todo) \in Nat
    BY <1>6, <1>10, SeqParts DEF Suffix
  <2>3. d \notin DoneOf(asm.todo, asm.items)
    BY <2>2 DEF DoneOf
  <2> QED
    BY <2>1, <2>3
<1>12. DOMAIN asm.items \subseteq Nat
  BY <1>10, SeqParts
<1> HIDE DEF d
<1>13. ASSUME NEW k \in DoneOf(asm.todo, asm.items)
       PROVE  KeyOf(asm.items[k]) # key
  <2>1. k \in DOMAIN asm.items /\ k # d
    BY <1>11
  <2>2. asm.items[k].index # item.index
    BY <1>10, <1>11, <1>12, <2>1
  <2> HIDE DEF item
  <2> QED
    BY <2>2 DEF KeyOf
<1>14. ASSUME NEW k \in DoneOf(Tail(asm.todo), asm.items)
       PROVE  Unpacked(k)'
  <2> HIDE DEF item
  <2>1. CASE k = d
    BY <1>3, <1>4, <1>11, <2>1 DEF Unpacked
  <2>2. CASE k # d
    <3>1. k \in DoneOf(asm.todo, asm.items)
      BY <1>11, <2>2
    <3>2. KeyOf(asm.items[k]) \in DOMAIN store /\ store[KeyOf(asm.items[k])] = <<asm.items[k]>>
      BY <1>6, <3>1 DEF Unpacked
    <3>3. KeyOf(asm.items[k]) # key
      BY <1>13, <3>1
    <3> HIDE DEF key
    <3> QED
      BY <1>3, <1>4, <3>2, <3>3 DEF Unpacked
  <2> QED
    BY <2>1, <2>2
<1> HIDE DEF key, item
<1>15. asm'.j \in 1..(Len(shards) + 1)
  BY <1>2, <1>3 DEF Assembled
<1>16. \A k \in DoneOf(asm'.todo, asm'.items) : Unpacked(k)'
  BY <1>3, <1>14
<1> HIDE DEF Returned, Unpacked, Gathered, OutKey
<1>17. Assembled'
  BY <1>3, <1>6, <1>9, <1>11, <1>15, <1>16 DEF Assembled
<1> QED
  BY <1>7, <1>8, <1>17 DEF MediaInv

LEMMA PutManifestKeeps ==
    ASSUME MediaInv, PutManifest
    PROVE  MediaInv'
<1>1. /\ \/ asm.at = "read" /\ asm.j > Len(shards) /\ modality \in {"audio", "video"}
         \/ asm.at = "unpack" /\ asm.todo = <<>>
      /\ AsmFrame
      /\ store' = Put(store, ManifestKey, Sorted(asm.items))
      /\ asm' = [asm EXCEPT !.at = "done"]
  BY DEF PutManifest, PutObject, Put
<1>2. Assembled /\ pc = "done"
  BY <1>1, AssemblyParts
<1>3. IsAsm(asm') /\ asm'.at = "done" /\ asm'.j = asm.j /\ asm'.items = asm.items
  BY <1>1, <1>2 DEF Assembled, IsAsm
<1>4. modality \in {"image", "audio", "video"} /\ (modality = "image" => asm.at = "unpack" /\ asm.todo = <<>>)
  BY <1>1, <1>2 DEF Assembled
<1>5. asm.j = Len(shards) + 1
  <2>1. asm.j \in 1..(Len(shards) + 1) /\ Len(shards) \in Nat
    BY <1>2, CutParts DEF Assembled
  <2>2. CASE asm.at = "read" /\ asm.j > Len(shards)
    BY <2>1, <2>2
  <2>3. CASE asm.at = "unpack"
    BY <1>2, <2>3 DEF Assembled
  <2> QED
    BY <1>1, <2>2, <2>3
<1>6. /\ DOMAIN store' = DOMAIN store \cup {ManifestKey} /\ store'[ManifestKey] = Sorted(asm.items)
      /\ \A k \in DOMAIN store : k # ManifestKey => store'[k] = store[k]
  BY <1>1 DEF Put
<1>7. ManifestKey[1] = "manifest"
  BY KeyParts
<1>8. PlanInv' /\ Anchored' /\ Attempts' /\ TextWell'
  BY <1>1, <1>2, <1>6, AssemblyLeaves
<1>9. Objects'
  BY <1>1, <1>2, <1>7, ObjectsUnder
<1>10. /\ Returned' /\ (\A i \in DOMAIN shards : ShardKey(i) \in DOMAIN store')
       /\ shards' = shards /\ modality' = modality /\ Gathered /\ Gathered'
  BY <1>1, <1>3, <1>4, <1>6, AssemblyGoesOn
<1>11. IsSeq(asm.items) /\ \A k \in DOMAIN asm.items : asm.items[k].index = k - 1
  BY <1>10 DEF Gathered, Made
<1>12. Sorted(asm.items) = asm.items
  BY <1>11, SortedIs
<1>13. ASSUME modality = "image", NEW k \in DOMAIN asm.items
       PROVE  Unpacked(k)'
  <2>1. DoneOf(asm.todo, asm.items) = DOMAIN asm.items
    BY <1>4, <1>11, <1>13, DoneEnds
  <2>2. KeyOf(asm.items[k]) \in DOMAIN store /\ store[KeyOf(asm.items[k])] = <<asm.items[k]>>
    BY <1>2, <1>4, <1>13, <2>1 DEF Assembled, Unpacked
  <2>3. KeyOf(asm.items[k])[1] = "clip"
    BY KeyParts
  <2>4. KeyOf(asm.items[k]) # ManifestKey
    BY <1>7, <2>3
  <2> QED
    BY <1>3, <1>6, <2>2, <2>4 DEF Unpacked
<1>14. OutKey' = ManifestKey
  BY <1>4, <1>10 DEF OutKey
<1>15. asm'.j \in 1..(Len(shards) + 1)
  BY <1>2, <1>3 DEF Assembled
<1>16. OutKey' \in DOMAIN store' /\ store'[OutKey'] = asm'.items
  BY <1>3, <1>6, <1>12, <1>14
<1>17. modality = "image" => \A k \in DOMAIN asm'.items : Unpacked(k)'
  BY <1>3, <1>13
<1> HIDE DEF Returned, Unpacked, Gathered, OutKey
<1>18. Assembled'
  BY <1>3, <1>5, <1>10, <1>15, <1>16, <1>17 DEF Assembled
<1> QED
  BY <1>8, <1>9, <1>18 DEF MediaInv

LEMMA PutTableKeeps ==
    ASSUME MediaInv, PutTable
    PROVE  MediaInv'
<1>1. /\ asm.at = "read" /\ asm.j > Len(shards) /\ modality \in {"tabular", "text"} /\ AsmFrame
      /\ store' = Put(store, ArtifactKey, asm.items)
      /\ asm' = [asm EXCEPT !.at = IF modality = "text" THEN "written" ELSE "done"]
  BY DEF PutTable, PutObject, Put
<1>2. Assembled /\ pc = "done"
  BY <1>1, AssemblyParts
<1>3. /\ IsAsm(asm') /\ asm'.at = (IF modality = "text" THEN "written" ELSE "done")
      /\ asm'.j = asm.j /\ asm'.items = asm.items
  BY <1>1, <1>2 DEF Assembled, IsAsm
<1>4. asm.j = Len(shards) + 1
  <2>1. asm.j \in 1..(Len(shards) + 1) /\ Len(shards) \in Nat
    BY <1>2, CutParts DEF Assembled
  <2> QED
    BY <1>1, <2>1
<1>5. DOMAIN store' = DOMAIN store \cup {ArtifactKey} /\ store'[ArtifactKey] = asm.items
  BY <1>1 DEF Put
<1>6. ArtifactKey[1] = "artifact"
  BY KeyParts
<1>7. PlanInv' /\ Anchored' /\ Attempts' /\ TextWell'
  BY <1>1, <1>2, <1>5, AssemblyLeaves
<1>8. Objects'
  BY <1>1, <1>2, <1>6, ObjectsUnder
<1>9. /\ Returned' /\ (\A i \in DOMAIN shards : ShardKey(i) \in DOMAIN store')
      /\ shards' = shards /\ modality' = modality /\ (modality # "text" => Gathered')
  BY <1>1, <1>3, <1>5, AssemblyGoesOn
<1>10. asm'.j \in 1..(Len(shards) + 1)
  BY <1>2, <1>3 DEF Assembled
<1>11. modality = "tabular" => OutKey' \in DOMAIN store' /\ store'[OutKey'] = asm'.items
  BY <1>3, <1>5, <1>9 DEF OutKey
<1> HIDE DEF Returned, Unpacked, Gathered, OutKey
<1>12. CASE modality = "text"
  <2>1. Assembled'
    BY <1>3, <1>4, <1>9, <1>10, <1>12 DEF Assembled
  <2> QED
    BY <1>7, <1>8, <2>1 DEF MediaInv
<1>13. CASE modality = "tabular"
  <2>1. Assembled'
    BY <1>3, <1>4, <1>9, <1>10, <1>11, <1>13 DEF Assembled
  <2> QED
    BY <1>7, <1>8, <2>1 DEF MediaInv
<1> QED
  BY <1>1, <1>12, <1>13

LEMMA PutTextManifestKeeps ==
    ASSUME MediaInv, PutTextManifest
    PROVE  MediaInv'
<1>1. /\ asm.at = "written" /\ AsmFrame
      /\ store' = Put(store, ManifestKey, <<Len(asm.items)>>)
      /\ asm' = [asm EXCEPT !.at = "done"]
  BY DEF PutTextManifest, PutObject, Put
<1>2. Assembled /\ pc = "done"
  BY <1>1, AssemblyParts
<1>3. IsAsm(asm') /\ asm'.at = "done" /\ asm'.j = asm.j /\ asm'.items = asm.items
  BY <1>1, <1>2 DEF Assembled, IsAsm
<1>4. modality = "text" /\ asm.j = Len(shards) + 1
  BY <1>1, <1>2 DEF Assembled
<1>5. DOMAIN store \subseteq DOMAIN store'
  BY <1>1 DEF Put
<1>6. ManifestKey[1] = "manifest"
  BY KeyParts
<1>7. PlanInv' /\ Anchored' /\ Attempts' /\ TextWell'
  BY <1>1, <1>2, <1>5, AssemblyLeaves
<1>8. Objects'
  BY <1>1, <1>2, <1>6, ObjectsUnder
<1>9. /\ Returned' /\ (\A i \in DOMAIN shards : ShardKey(i) \in DOMAIN store')
      /\ shards' = shards /\ modality' = modality
  BY <1>1, <1>3, <1>5, AssemblyGoesOn
<1>10. asm'.j \in 1..(Len(shards) + 1)
  BY <1>2, <1>3 DEF Assembled
<1> HIDE DEF Returned, Unpacked, Gathered, OutKey
<1>11. Assembled'
  BY <1>3, <1>4, <1>9, <1>10 DEF Assembled
<1> QED
  BY <1>7, <1>8, <1>11 DEF MediaInv

-----------------------------------------------------------------------------
(* The initial states and the other steps.                                 *)

\* An attempt that has not started.
LEMMA FreshWell ==
    ASSUME NEW m, NEW sh, Len(sh) \in Nat, NEW st, NEW names
    PROVE  TryWell(m, sh, Fresh) /\ TryText(sh, names, Fresh) /\ Written(st, Fresh)
<1>1. /\ IsTry(Fresh) /\ Fresh.at = "off" /\ Fresh.i = 1 /\ Fresh.items = <<>>
  BY FreshIs, SMT DEF Fresh
<1>2. Fresh.lost \in BOOLEAN
  BY Zenon DEF Fresh
<1>3. DOMAIN <<>> = {}
  OBVIOUS
<1>4. 1 \in 1..(Len(sh) + 1) /\ 1..(1 - 1) = {}
  OBVIOUS
<1>5. InPhase(m, "off")
  BY DEF InPhase
<1> HIDE DEF Fresh
<1>6. TryWell(m, sh, Fresh)
  BY <1>1, <1>2, <1>3, <1>4, <1>5 DEF TryWell, Running
<1>7. TryText(sh, names, Fresh)
  BY <1>1 DEF TryText
<1>8. Written(st, Fresh)
  BY <1>1, <1>4 DEF Written
<1> QED
  BY <1>6, <1>7, <1>8

LEMMA MediaStarts == MediaInit => MediaInv
<1> SUFFICES ASSUME MediaInit PROVE MediaInv
  OBVIOUS
<1>1. /\ Init /\ modality \in Modalities /\ changed = FALSE
      /\ fields \in (IF modality = "text" THEN Fields ELSE {<<>>})
      /\ tries = [n \in Tries |-> Fresh]
      /\ asm = [at |-> "off", j |-> 1, items |-> <<>>, todo |-> <<>>]
      /\ store = [k \in {} |-> <<>>]
  BY DEF MediaInit
<1>2. PlanInv /\ Anchored
  BY <1>1, PlanInit, AnchoredInit
<1>3. pc = "loop" /\ Len(shards) \in Nat
  BY <1>1 DEF Init
<1>4. DOMAIN store = {} /\ changed \in BOOLEAN
  BY <1>1
<1>5. Fresh.at = "off"
  BY DEF Fresh
<1>6. \A n \in Tries : tries[n] = Fresh
  BY <1>1
<1>7. tries = [n \in Tries |-> tries[n]]
  BY <1>1
<1>8. \A n \in Tries : /\ TryWell(modality, shards, tries[n]) /\ Written(store, tries[n])
                       /\ TryText(shards, fields, tries[n])
  BY <1>3, <1>6, FreshWell
<1>9. asm.at = "off" /\ asm.j = 1 /\ asm.items = <<>> /\ IsAsm(asm)
  BY <1>1 DEF IsAsm
<1> HIDE DEF Fresh
<1>10. Attempts
  BY <1>1, <1>4, <1>5, <1>6, <1>7, <1>8, <1>9 DEF Attempts, Ordered, OneConfig
<1>11. Objects
  BY <1>4, <1>5, <1>6 DEF Objects, StoreWell, Coherent, Latest
<1>12. Assembled
  BY <1>3, <1>9 DEF Assembled
<1>13. TextWell
  BY <1>1, <1>8 DEF TextWell
<1> QED
  BY <1>2, <1>10, <1>11, <1>12, <1>13 DEF MediaInv

\* No attempt starts while the plan is made.
LEMMA PlanStepKeeps ==
    ASSUME MediaInv, PlanStep
    PROVE  MediaInv'
<1>1. /\ Next /\ modality' = modality /\ fields' = fields /\ config' = config /\ changed' = changed
      /\ tries' = tries /\ asm' = asm /\ store' = store
  BY DEF PlanStep
<1>2. PlanInv /\ Anchored /\ Attempts /\ Objects /\ Assembled /\ TextWell
  BY DEF MediaInv
<1>3. PlanInv' /\ Anchored'
  BY <1>1, <1>2, PlanKeeps, AnchoredKeeps
<1>4. pc = "loop"
  BY <1>1 DEF Next, Chunk, Finish
<1>5. tries = [n \in Tries |-> Fresh] /\ DOMAIN store = {} /\ asm.at = "off"
  BY <1>2, <1>4 DEF Attempts
<1>6. Len(shards') \in Nat
  BY <1>3 DEF PlanInv, TypeOK
<1>7. \A n \in Tries : tries'[n] = Fresh /\ tries[n] = Fresh
  BY <1>1, <1>5
<1>8. \A n \in Tries : /\ TryWell(modality', shards', tries'[n]) /\ Written(store', tries'[n])
                       /\ TryText(shards', fields', tries'[n])
  BY <1>6, <1>7, FreshWell
<1>9. Fresh.at = "off"
  BY DEF Fresh
<1> HIDE DEF Fresh
<1>10. Attempts'
  BY <1>1, <1>2, <1>5, <1>8 DEF Attempts
<1>11. Objects'
  BY <1>1, <1>5, <1>7, <1>9 DEF Objects, StoreWell, Coherent, Latest
<1>12. asm.j = 1 /\ asm.items = <<>> /\ IsAsm(asm)
  BY <1>2, <1>5 DEF Assembled
<1>13. Assembled'
  BY <1>1, <1>5, <1>6, <1>12 DEF Assembled
<1>14. TextWell'
  BY <1>1, <1>2, <1>8 DEF TextWell
<1> QED
  BY <1>3, <1>10, <1>11, <1>13, <1>14 DEF MediaInv

LEMMA ChangeConfigKeeps ==
    ASSUME MediaInv, ChangeConfig
    PROVE  MediaInv'
<1>1. /\ changed' = TRUE /\ UNCHANGED vars /\ modality' = modality /\ fields' = fields
      /\ tries' = tries /\ asm' = asm /\ store' = store
  BY DEF ChangeConfig
<1>2. shards' = shards /\ pc' = pc
  BY <1>1 DEF vars
<1>3. PlanInv' /\ Anchored'
  BY <1>1, PlanStays
<1>4. Attempts /\ Objects /\ Assembled /\ TextWell
  BY DEF MediaInv
<1>5. ~Mixed(tries', changed') => ~Mixed(tries, changed)
  BY <1>1 DEF Mixed
<1>6. OneConfig(tries', changed', config')
  BY <1>1 DEF OneConfig
<1>7. Attempts'
  BY <1>1, <1>2, <1>4, <1>6 DEF Attempts
<1>8. Coherent(shards, tries, changed, store) => Coherent(shards', tries', changed', store')
  BY <1>1, <1>2, <1>5 DEF Coherent
<1>9. Objects'
  BY <1>1, <1>2, <1>4, <1>8 DEF Objects
<1>10. Gathered => Gathered'
  BY <1>1, <1>2, <1>5 DEF Gathered
<1>11. /\ Returned' <=> Returned
       /\ OutKey' = OutKey
       /\ \A k : Unpacked(k)' <=> Unpacked(k)
  BY <1>1 DEF Returned, OutKey, Unpacked
<1> HIDE DEF Returned, Unpacked, Gathered, OutKey
<1>12. Assembled'
  BY <1>1, <1>2, <1>4, <1>10, <1>11 DEF Assembled
<1>13. TextWell'
  BY <1>1, <1>2, <1>4 DEF TextWell
<1> QED
  BY <1>3, <1>7, <1>9, <1>12, <1>13 DEF MediaInv

LEMMA MediaStutters ==
    ASSUME MediaInv, UNCHANGED mediaVars
    PROVE  MediaInv'
<1>1. /\ UNCHANGED vars /\ modality' = modality /\ fields' = fields /\ config' = config
      /\ changed' = changed /\ tries' = tries /\ asm' = asm /\ store' = store
  BY DEF mediaVars
<1>2. shards' = shards /\ pc' = pc
  BY <1>1 DEF vars
<1>3. PlanInv' /\ Anchored'
  BY <1>1, PlanStays
<1>4. Attempts /\ Objects /\ Assembled /\ TextWell
  BY DEF MediaInv
<1>5. Attempts' /\ Objects' /\ TextWell'
  BY <1>1, <1>2, <1>4 DEF Attempts, Objects, TextWell
<1>6. /\ Returned' <=> Returned
      /\ OutKey' = OutKey
      /\ Gathered => Gathered'
      /\ \A k : Unpacked(k)' <=> Unpacked(k)
  BY <1>1, <1>2 DEF Returned, OutKey, Gathered, Unpacked
<1> HIDE DEF Returned, Unpacked, Gathered, OutKey
<1>7. Assembled'
  BY <1>1, <1>2, <1>4, <1>6 DEF Assembled
<1> QED
  BY <1>3, <1>5, <1>7 DEF MediaInv

LEMMA MediaKeeps == MediaInv /\ [MediaNext]_mediaVars => MediaInv'
<1> SUFFICES ASSUME MediaInv, [MediaNext]_mediaVars PROVE MediaInv'
  OBVIOUS
<1>1. CASE PlanStep
  BY <1>1, PlanStepKeeps
<1>2. CASE \E n \in Tries : StartTry(n) \/ GiveUp(n) \/ Raise(n) \/ TryStep(n)
  BY <1>2, AttemptKeeps
<1>3. CASE Assembly
  <2>1. CASE StartAssembly
    BY <2>1, StartAssemblyKeeps
  <2>2. CASE ReadShard
    BY <2>2, ReadShardKeeps
  <2>3. CASE UnpackImages
    BY <2>3, UnpackImagesKeeps
  <2>4. CASE PutImage
    BY <2>4, PutImageKeeps
  <2>5. CASE PutManifest
    BY <2>5, PutManifestKeeps
  <2>6. CASE PutTable
    BY <2>6, PutTableKeeps
  <2>7. CASE PutTextManifest
    BY <2>7, PutTextManifestKeeps
  <2> QED
    BY <1>3, <2>1, <2>2, <2>3, <2>4, <2>5, <2>6, <2>7 DEF Assembly
<1>4. CASE ChangeConfig
  BY <1>4, ChangeConfigKeeps
<1>5. CASE UNCHANGED mediaVars
  BY <1>5, MediaStutters
<1> QED
  BY <1>1, <1>2, <1>3, <1>4, <1>5 DEF MediaNext

-----------------------------------------------------------------------------
(* What the invariant says of the datasets.                                *)

\* Unless the configuration changed while an abandoned attempt still wrote, the
\* video an entry of the manifest names was made with the entry's provider.
LEMMA VideosAlike ==
    ASSUME MediaInv, asm.at = "done", modality = "video", ~Mixed(tries, changed),
           NEW k \in DOMAIN asm.items
    PROVE  store[<<"clip", k - 1, "mp4">>][1].by = asm.items[k].by
<1>1. Assembled /\ pc = "done"
  BY AssemblyParts
<1>2. /\ Gathered /\ Returned /\ asm.j = Len(shards) + 1
  BY <1>1 DEF Assembled
<1>3. PICK r \in Tries : tries[r].at = "done" /\ ~tries[r].lost
  BY <1>2 DEF Returned
<1>4. asm.items[k].by = tries[r].by
  BY <1>2, <1>3 DEF Gathered
<1>5. Latest(tries, r)
  BY <1>3, DoneIsLatest
<1>6. /\ Len(shards) \in Nat \ {0} /\ DOMAIN shards = 1..Len(shards)
      /\ \A i \in DOMAIN shards : shards[i].start \in Nat /\ shards[i].count \in Nat
      /\ RowsBefore(shards, Len(shards) + 1) = IF target > 0 THEN target ELSE 0
  BY <1>1, PlanParts DEF MediaInv
<1>7. k \in Nat /\ k - 1 \in 0..(target - 1)
  <2>1. Len(asm.items) = (IF target > 0 THEN target ELSE 0) /\ DOMAIN asm.items = 1..Len(asm.items)
    BY <1>2, <1>6, SeqParts DEF Gathered
  <2>2. target \in Int
    BY TargetsAssumption DEF MediaInv, PlanInv, TypeOK
  <2>3. CASE target > 0
    BY <2>1, <2>2, <2>3
  <2>4. CASE ~(target > 0)
    <3>1. DOMAIN asm.items = 1..0
      BY <2>1, <2>4
    <3> QED
      BY <3>1
  <2> QED
    BY <2>3, <2>4
<1>8. PICK i \in DOMAIN shards : Holds(shards[i], k - 1)
  BY <1>1, <1>7 DEF MediaInv, PlanInv, EveryRowOnce
<1>9. k - 1 \in shards[i].start..(shards[i].start + shards[i].count - 1)
  <2>1. shards[i].start \in Nat /\ shards[i].count \in Nat
    BY <1>6
  <2> QED
    BY <1>7, <1>8, <2>1 DEF Holds
<1>10. i \in 1..(tries[r].i - 1)
  <2>1. TryWell(modality, shards, tries[r])
    BY TryParts
  <2>2. tries[r].i = Len(shards) + 1
    BY <1>3, <2>1 DEF TryWell
  <2> QED
    BY <1>6, <2>2
<1>11. Coherent(shards, tries, changed, store)
  BY DEF MediaInv, Objects
<1>12. OneBy(shards, store, i, tries[r].by)
  BY <1>5, <1>10, <1>11 DEF Coherent
<1> QED
  BY <1>4, <1>9, <1>12 DEF OneBy

\* An entry of an image, audio or video manifest and the clip it names.
LEMMA EntryAndClip ==
    ASSUME MediaInv, asm.at = "done", modality \in {"image", "audio", "video"},
           NEW k \in DOMAIN asm.items, NEW key, key = <<"clip", k - 1, asm.items[k].fmt>>
    PROVE  /\ key \in DOMAIN store
           /\ store[key][1].index = k - 1 /\ store[key][1].seed = asm.items[k].seed
           /\ store[key][1].by = asm.items[k].by \/ Mixed(tries, changed)
<1>1. Assembled /\ Gathered
  BY AssemblyParts DEF Assembled
<1>2. Made(modality, asm.items[k], k - 1)
  BY <1>1 DEF Gathered
<1>3. asm.items[k].index = k - 1 /\ key = KeyOf(asm.items[k])
  BY <1>2 DEF Made, KeyOf
<1>4. CASE modality = "image"
  <2>1. key \in DOMAIN store /\ store[key] = <<asm.items[k]>>
    BY <1>1, <1>3, <1>4 DEF Assembled, Unpacked
  <2>2. store[key][1] = asm.items[k]
    BY <2>1
  <2> QED
    BY <1>3, <2>1, <2>2
<1>5. CASE modality \in {"audio", "video"}
  <2>1. key \in DOMAIN store
    BY <1>1, <1>3, <1>5 DEF Gathered
  <2>2. key[1] = "clip" /\ key[2] = k - 1
    OBVIOUS
  <2>3. StoreWell(modality, shards, store)
    BY DEF MediaInv, Objects
  <2>4. Made(modality, store[key][1], k - 1)
    BY <1>5, <2>1, <2>2, <2>3 DEF StoreWell
  <2>5. store[key][1].index = k - 1 /\ store[key][1].seed = asm.items[k].seed
    BY <1>2, <1>5, <2>4 DEF Made
  <2>6. CASE modality = "audio"
    BY <1>2, <2>1, <2>4, <2>5, <2>6 DEF Made
  <2>7. CASE modality = "video"
    <3>1. asm.items[k].fmt = "mp4"
      BY <1>2, <2>7 DEF Made
    <3>2. ~Mixed(tries, changed) => store[key][1].by = asm.items[k].by
      BY <2>7, <3>1, VideosAlike
    <3> QED
      BY <2>1, <2>5, <3>2
  <2> QED
    BY <1>5, <2>6, <2>7
<1> QED
  BY <1>4, <1>5

LEMMA CompleteFrom == MediaInv => DatasetComplete
<1> SUFFICES ASSUME MediaInv, asm.at = "done", modality # "text" PROVE DatasetComplete
  BY DEF DatasetComplete
<1>1. Assembled /\ pc = "done" /\ modality \in {"tabular", "text", "image", "audio", "video"}
  BY AssemblyParts
<1>2. /\ OutKey \in DOMAIN store /\ store[OutKey] = asm.items
      /\ Gathered /\ asm.j = Len(shards) + 1
  BY <1>1 DEF Assembled
<1>3. Len(asm.items) = IF target > 0 THEN target ELSE 0
  BY <1>1, <1>2, PlanParts DEF MediaInv, Gathered
<1>4. \A k \in DOMAIN asm.items : asm.items[k].index = k - 1
  BY <1>2 DEF Gathered, Made
<1>5. ASSUME modality # "tabular", NEW k \in DOMAIN asm.items,
             NEW key, key = <<"clip", k - 1, asm.items[k].fmt>>
      PROVE  /\ key \in DOMAIN store
             /\ store[key][1].index = k - 1 /\ store[key][1].seed = asm.items[k].seed
             /\ store[key][1].by = asm.items[k].by \/ (changed /\ \E n \in Tries : tries[n].lost)
  <2>1. modality \in {"image", "audio", "video"}
    BY <1>1, <1>5
  <2> QED
    BY <1>5, <2>1, EntryAndClip DEF Mixed
<1> DEFINE out == asm.items
<1>6. \A j \in DOMAIN out :
        modality # "tabular" =>
          /\ <<"clip", j - 1, out[j].fmt>> \in DOMAIN store
          /\ store[<<"clip", j - 1, out[j].fmt>>][1].index = j - 1
          /\ store[<<"clip", j - 1, out[j].fmt>>][1].seed = out[j].seed
          /\ store[<<"clip", j - 1, out[j].fmt>>][1].by = out[j].by
             \/ (changed /\ \E n \in Tries : tries[n].lost)
  BY <1>5
<1>7. (IF modality = "tabular" THEN ArtifactKey ELSE ManifestKey) = OutKey
  BY DEF OutKey
<1> QED
  BY <1>2, <1>3, <1>4, <1>6, <1>7 DEF DatasetComplete

\* The more batches a negative batch size asks for, the less they hold.
LEMMA NegativeBatches ==
    ASSUME NEW b \in Int, b < 0, NEW m \in Nat, NEW c \in 0..m
    PROVE  b * c >= b * m
<1> DEFINE d == m - c
<1>1. d \in Nat /\ m = c + d /\ c \in Nat
  OBVIOUS
<1> HIDE DEF d
<1>2. b * (c + d) = b * c + b * d
  BY <1>1
<1>3. b * d <= 0
  BY <1>1
<1>4. b * c \in Int /\ b * d \in Int
  BY <1>1
<1> QED
  BY <1>1, <1>2, <1>3, <1>4

LEMMA SoundFrom == MediaInv => TextShardSound
<1> SUFFICES ASSUME MediaInv, modality = "text", NEW n \in Tries, Runs(n, "text")
             PROVE  LET rows == tries[n].items  cap == BatchSize * MaxAttempts IN
                    /\ Len(rows) <= Cut(n).count
                    /\ \A a, b \in DOMAIN rows : rows[a].key > 0 /\ (rows[a].key = rows[b].key => a = b)
                    /\ ~Looping(n) => \/ Len(rows) + tries[n].short >= cap
                                      \/ Len(rows) + tries[n].short >= Cut(n).count
                    /\ PrimaryField(fields) \in ToSet(fields)
  BY DEF TextShardSound
<1> DEFINE rows == tries[n].items
           cap == BatchSize * MaxAttempts
           short == tries[n].short
           count == shards[tries[n].i].count
           calls == tries[n].calls
<1>1. tries[n].at = "text" /\ TryText(shards, fields, tries[n]) /\ TryWell(modality, shards, tries[n])
  BY TryParts DEF Runs
<1>2. /\ KeptRows(rows, count) /\ calls \in 0..MaxAttempts
      /\ MadeUp(Len(rows), short, count, calls) /\ PrimaryField(fields) # "none"
  BY <1>1 DEF TryText
<1>3. pc = "done"
  BY <1>1, TryParts
<1>4. count \in Nat
  <2>1. tries[n].i \in DOMAIN shards
    BY <1>1 DEF TryWell, Running
  <2> QED
    BY <1>3, <2>1, CutParts
<1>5. Cut(n).count = count
  BY DEF Cut
<1>6. /\ Len(rows) <= count /\ Len(rows) \in Nat
      /\ \A a, b \in DOMAIN rows : rows[a].key > 0 /\ (rows[a].key = rows[b].key => a = b)
  BY <1>2 DEF KeptRows
<1>7. PrimaryField(fields) \in ToSet(fields)
  <2>1. fields \in Seq(ToSet(fields))
    BY FieldsAssumption DEF MediaInv, TextWell
  <2> QED
    BY <1>2, <2>1, PrimaryIsField
<1>8. ASSUME ~Looping(n)
      PROVE  Len(rows) + short >= cap \/ Len(rows) + short >= count
  <2>1. ~(calls < MaxAttempts) \/ ~(Len(rows) < count)
    BY <1>1, <1>5, <1>8 DEF Looping, Runs
  <2>2. /\ short \in Int
        /\ BatchSize >= 0 => short >= 0 /\ (Len(rows) + short >= count \/ Len(rows) + short >= BatchSize * calls)
        /\ BatchSize < 0 => Len(rows) + short >= BatchSize * calls
    BY <1>2 DEF MadeUp
  <2>3. BatchSize \in Int /\ MaxAttempts \in Nat
    BY DirectivesAssumption
  <2> DEFINE len == Len(rows)
  <2>4. len \in Nat
    BY <1>6
  <2> HIDE DEF rows, short, count, calls, cap, len
  <2>5. calls = MaxAttempts \/ len >= count
    BY <1>2, <1>4, <2>1, <2>3, <2>4 DEF len
  <2>6. CASE calls = MaxAttempts
    <3>1. cap = BatchSize * calls
      BY <2>6 DEF cap
    <3> QED
      BY <2>2, <2>3, <3>1
  <2>7. CASE len >= count /\ BatchSize >= 0
    BY <1>4, <2>2, <2>4, <2>7 DEF len
  <2>8. CASE BatchSize < 0
    <3>1. BatchSize * calls >= BatchSize * MaxAttempts
      BY <1>2, <2>3, <2>8, NegativeBatches
    <3>2. BatchSize * calls \in Int /\ cap = BatchSize * MaxAttempts /\ cap \in Int
      BY <1>2, <2>3 DEF cap
    <3> DEFINE made == BatchSize * calls
    <3>3. made \in Int /\ made >= cap /\ len + short >= made
      BY <2>2, <2>8, <3>1, <3>2 DEF len
    <3> HIDE DEF made
    <3>4. len + short >= cap
      BY <2>2, <2>4, <3>2, <3>3
    <3> QED
      BY <3>4 DEF len
  <2> QED
    BY <2>3, <2>5, <2>6, <2>7, <2>8
<1> QED
  BY <1>5, <1>6, <1>7, <1>8

\* Whichever attempts wrote its shards, however often the server gave up on one
\* that still ran, and whenever the tenant changed its configuration: the
\* dataset that assemble writes has every index of the plan once and in order,
\* and each entry of its manifest names a stored clip that it describes.
THEOREM DatasetsComplete == MediaSpec => []DatasetComplete
<1> QED
  BY MediaStarts, MediaKeeps, CompleteFrom, PTL DEF MediaSpec

\* Whatever a model replies to the batch prompts, with any batch size and
\* number of attempts: no text shard keeps a blank, overlong or repeated row or
\* more than its count, and what it lacks the replies failed to deliver.
THEOREM TextShardsSound == MediaSpec => []TextShardSound
<1> QED
  BY MediaStarts, MediaKeeps, SoundFrom, PTL DEF MediaSpec

\* The plan the handlers follow partitions the rows, also while attempts and
\* the assembly run.
THEOREM RowsOnce == MediaSpec => []EveryRowOnce
<1>1. MediaInv => EveryRowOnce
  BY DEF MediaInv, PlanInv
<1> QED
  BY MediaStarts, MediaKeeps, <1>1, PTL DEF MediaSpec
=============================================================================
